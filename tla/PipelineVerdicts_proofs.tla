---------------------- MODULE PipelineVerdicts_proofs ----------------------
(***************************************************************************)
(* What a verdict of PipelineEngine is worth, proved on top of EngineInv:  *)
(* VerdictInv, by which a PASS is earned and a mismatch is never a failed  *)
(* simulator in disguise; that a recorded stage is final; and that the     *)
(* engine implements PipelineContract.                                     *)
(***************************************************************************)
EXTENDS PipelineEngine_proofs, DesignPipeline

\* An operation that has been recorded.
LEMMA EarlierOps ==
  ASSUME EngineInv, NEW k \in 1..(pos - 1)
  PROVE  /\ k \in 1..Len(ops) /\ ops[k] \in Operation
         /\ ops[k].id \in OpIds /\ ops[k].id \in Ids(ops, pos - 1)
         /\ stages[ops[k].id] \in Statuses
<1>1. ops \in Seq(Operation) /\ pos \in Nat \ {0} /\ pos <= Len(ops) + 1
  BY PipelinesAssumption DEF EngineInv, TypeOK, Control
<1>2. k \in 1..Len(ops) /\ ops[k] \in Operation
  BY <1>1
<1>3. ops[k].id \in OpIds /\ ops[k].id \in Ids(ops, pos - 1)
  BY <1>2 DEF Operation, Ids
<1> QED BY <1>2, <1>3 DEF EngineInv, TypeOK, PrefixRecorded

LEMMA IdsAreOpIds ==
  ASSUME EngineInv
  PROVE  Ids(ops, pos - 1) \subseteq OpIds
BY EarlierOps DEF Ids

\* The operation under way is not on record.
LEMMA CurrentIsNew ==
  ASSUME EngineInv, pc \in Executing
  PROVE  /\ ops \in Seq(Operation) /\ pos \in 1..Len(ops)
         /\ Op \in Operation /\ Op.id \in OpIds
         /\ Op.id \notin Ids(ops, pos - 1)
         /\ result = "running"
<1>1. /\ TypeOK /\ pos <= Len(ops) /\ ValidPipeline(ops)
      /\ ops \in Seq(Operation) /\ pos \in 1..Len(ops) /\ Op.id \in OpIds
      /\ Op \in Operation
  BY OpIsOperation DEF EngineInv, Control
<1>2. Op.id \notin Ids(ops, pos - 1)
  <2> SUFFICES ASSUME NEW j \in 1..(pos - 1), ops[j].id = ops[pos].id
               PROVE  FALSE
      BY DEF Ids, Op
  <2>1. j \in 1..Len(ops) /\ j # pos
      BY <1>1
  <2> QED BY <2>1, <1>1, UniqueIds
<1>3. result = "running"
  BY DEF EngineInv, Control, Executing
<1> QED BY <1>1, <1>2, <1>3

\* A step that touches the record of one new operation at most.
Frame(c) ==
  /\ ops' = ops
  /\ \A o \in OpIds : o # c =>
       /\ stages'[o] = stages[o] /\ disk'[o] = disk[o]
       /\ runs'[o] = runs[o] /\ traces'[o] = traces[o]

\* What a recorded operation has earned, it keeps.
LEMMA EarnedStays ==
  ASSUME EngineInv, NEW c, c \notin Ids(ops, pos - 1), Frame(c),
         Ids(ops, pos - 1) \subseteq Ids(ops', pos' - 1),
         NEW op \in Operation, op.id \in Ids(ops, pos - 1), Earned(op)
  PROVE  Earned(op)'
<1>1. /\ op.id \in OpIds /\ op.id # c
      /\ \A o \in Ids(ops, pos - 1) : o \in OpIds /\ o # c
  BY IdsAreOpIds
<1>2. \A o \in Ids(ops, pos - 1) :
        /\ stages'[o] = stages[o] /\ disk'[o] = disk[o]
        /\ runs'[o] = runs[o] /\ traces'[o] = traces[o]
  BY <1>1 DEF Frame
<1>3. op.kind = "tool" /\ stages'[op.id] = "PASS" => Good(op.id)'
  BY <1>2 DEF Earned, Good
<1>4. op.kind = "simulation" /\ stages'[op.id] = "PASS" =>
        CleanRuns(op.id)' /\ HaveRun(op, Len(op.runs))'
  BY <1>2 DEF Earned, CleanRuns, HaveRun
<1>5. ASSUME NEW operand, ReadsPassing(operand)
      PROVE  ReadsPassing(operand)' /\ Content(operand)' = Content(operand)
  BY <1>2, <1>5 DEF ReadsPassing, Content
<1>6. ASSUME op.kind = "validation", NEW case \in Range(op.cases)
      PROVE  /\ ReadsPassing(case.left)' /\ ReadsPassing(case.right)'
             /\ stages'[op.id] = "PASS" => Holds(case)'
  <2>1. /\ ReadsPassing(case.left) /\ ReadsPassing(case.right)
        /\ stages[op.id] = "PASS" => Holds(case)
      BY <1>6 DEF Earned
  <2>2. /\ ReadsPassing(case.left)' /\ ReadsPassing(case.right)'
        /\ Content(case.left)' = Content(case.left)
        /\ Content(case.right)' = Content(case.right)
      BY <2>1, <1>5
  <2> QED BY <2>1, <2>2, <1>2 DEF Holds
<1> QED BY <1>3, <1>4, <1>6 DEF Earned

-----------------------------------------------------------------------------
(* The shapes of a step. *)

LEMMA Collect ==
  ASSUME NEW n, n = pos' - 1, \A op : (\E k \in 1..n : ops'[k] = op) => Earned(op)'
  PROVE  AllEarned'
<1>1. \A k \in 1..n : \A op : ops'[k] = op => Earned(op)'
  OBVIOUS
<1> QED BY <1>1 DEF AllEarned

\* A step that stays at the operation, before or inside it.
LEMMA StayingStep ==
  ASSUME EngineInv, VerdictInv, pos' = pos,
         NEW c, c \notin Ids(ops, pos - 1), Frame(c)
  PROVE  AllEarned'
<1>1. ops' = ops /\ pos - 1 = pos' - 1
  BY DEF Frame
<1>2. ASSUME NEW op, \E k \in 1..(pos - 1) : ops'[k] = op
      PROVE  Earned(op)'
  <2>1. PICK k \in 1..(pos - 1) : ops[k] = op
      BY <1>1, <1>2
  <2>2. op \in Operation /\ op.id \in Ids(ops, pos - 1) /\ Earned(op)
      BY <2>1, EarlierOps DEF VerdictInv, AllEarned
  <2> QED BY <2>2, <1>1, EarnedStays
<1> QED BY <1>1, <1>2, Collect

\* A step that records the operation, which has earned what is recorded.
LEMMA RecordingStep ==
  ASSUME EngineInv, VerdictInv, pc \in Executing, NEW status \in Statuses,
         Record(status), result' = result,
         NEW c, c = Op.id, Frame(c), NEW cur, cur = Op, Earned(cur)'
  PROVE  VerdictInv'
<1>1. /\ ops' = ops /\ pos' = pos + 1 /\ pos \in 1..Len(ops)
      /\ Ids(ops', pos' - 1) = Ids(ops, pos - 1) \cup {c}
      /\ c \in OpIds /\ c \notin Ids(ops, pos - 1) /\ result = "running"
      /\ pc' \in {"dispatch", "return"}
  BY CurrentIsNew, RecordStep DEF Frame
<1>2. AllEarned'
  <2>1. ASSUME NEW op, \E k \in 1..pos : ops'[k] = op
        PROVE  Earned(op)'
    <3>1. PICK k \in 1..pos : ops[k] = op
        BY <1>1, <2>1
    <3>2. CASE k = pos
      <4>1. op = cur
          BY <3>1, <3>2 DEF Op
      <4> QED BY <4>1
    <3>3. CASE k \in 1..(pos - 1)
      <4>1. op \in Operation /\ op.id \in Ids(ops, pos - 1) /\ Earned(op)
          BY <3>1, <3>3, EarlierOps DEF VerdictInv, AllEarned
      <4> QED BY <4>1, <1>1, EarnedStays
    <3> QED BY <3>2, <3>3, <1>1
  <2> QED BY <1>1, <2>1, Collect
<1>3. UnderWay'
  BY <1>1 DEF UnderWay
<1>4. Untouched'
  <2> SUFFICES ASSUME NEW o \in OpIds \ Ids(ops', pos' - 1), NEW r \in RunIds
               PROVE  runs'[o][r] = Unrecorded
      BY <1>1 DEF Untouched
  <2>1. o \in OpIds \ Ids(ops, pos - 1) /\ o # Op.id /\ runs'[o] = runs[o]
      BY <1>1 DEF Frame
  <2> QED BY <2>1 DEF VerdictInv, Untouched
<1>5. Concluded'
  <2>1. result' \notin Statuses
      BY <1>1 DEF Statuses
  <2>2. ASSUME pc' = "return"
        PROVE  pos' = Len(ops') + 1 \/ (pos' > 1 /\ stages'[ops'[pos' - 1].id] # "PASS")
    <3>1. status # "PASS" \/ pos = Len(ops)
        BY <2>2 DEF Record
    <3>2. stages'[c] = status
        BY <1>1 DEF Record, EngineInv, TypeOK
    <3>3. ops'[pos' - 1].id = c
        BY <1>1 DEF Op
    <3> QED BY <1>1, <3>1, <3>2, <3>3
  <2> QED BY <2>1, <2>2 DEF Concluded
<1> QED BY <1>2, <1>3, <1>4, <1>5 DEF VerdictInv

\* A step that records nothing at all.
LEMMA QuietStep ==
  ASSUME EngineInv, VerdictInv, pos' = pos, ops' = ops,
         UNCHANGED <<stages, disk, runs, traces>>
  PROVE  AllEarned'
<1>1. PICK c : c \notin Ids(ops, pos - 1)
  <2>1. NoName \notin Ids(ops, pos - 1)
      BY IdsAreOpIds, NoNameAssumption
  <2> QED BY <2>1
<1>2. Frame(c)
  BY DEF Frame
<1> QED BY <1>1, <1>2, StayingStep

-----------------------------------------------------------------------------
(* The invariant: initially, and one lemma per action. *)

LEMMA InitVerdict == Init => VerdictInv
<1> SUFFICES ASSUME Init PROVE VerdictInv
  OBVIOUS
<1> USE DEF Init
<1>1. AllEarned /\ UnderWay
  BY DEF AllEarned, UnderWay
<1>2. Untouched
  BY DEF Untouched
<1>3. Concluded
  BY DEF Concluded, Statuses
<1> QED BY <1>1, <1>2, <1>3 DEF VerdictInv

LEMMA RaiseVerdict ==
  ASSUME EngineInv, VerdictInv, NEW e \in Exceptions, Raise(e)
  PROVE  VerdictInv'
<1> USE DEF Raise
<1>1. AllEarned'
  BY QuietStep
<1>2. UnderWay' /\ Untouched'
  BY DEF UnderWay, Untouched, Executing
<1>3. Concluded'
  BY DEF Concluded, Statuses, Exceptions
<1> QED BY <1>1, <1>2, <1>3 DEF VerdictInv

\* Steps that only move pc to a place where nothing has been simulated yet.
LEMMA MoveVerdict ==
  ASSUME EngineInv, VerdictInv, pc \in {"validate", "dispatch"},
         UNCHANGED <<ops, pos, stages, disk, runs, traces, result>>,
         pc' \in Executing, UnderWay'
  PROVE  VerdictInv'
<1>1. AllEarned'
  BY QuietStep
<1>2. Untouched'
  BY DEF VerdictInv, Untouched, Executing
<1>3. Concluded'
  <2>1. result' = "running" /\ pc' # "return"
      BY DEF EngineInv, Control, Executing
  <2> QED BY <2>1 DEF Concluded, Statuses
<1> QED BY <1>1, <1>2, <1>3 DEF VerdictInv

LEMMA ValidateVerdict == EngineInv /\ VerdictInv /\ Validate => VerdictInv'
<1> SUFFICES ASSUME EngineInv, VerdictInv, Validate PROVE VerdictInv'
  OBVIOUS
<1>1. CASE Raise("ManifestError")
  BY <1>1, RaiseVerdict DEF Exceptions
<1>2. CASE /\ pc' = "dispatch"
           /\ UNCHANGED <<ops, installed, nsources, pos, stages, artifacts, disk,
                          runs, traces, run, worst, result>>
  <2>1. UnderWay'
      BY <1>2 DEF UnderWay
  <2> QED BY <1>2, <2>1, MoveVerdict DEF Validate, Executing
<1> QED BY <1>1, <1>2 DEF Validate

LEMMA StartToolVerdict == EngineInv /\ VerdictInv /\ StartTool => VerdictInv'
<1> SUFFICES ASSUME EngineInv, VerdictInv, StartTool PROVE VerdictInv'
  OBVIOUS
<1>1. ASSUME NEW e \in {"ManifestError", "KeyError", "SystemExit"}, Raise(e)
      PROVE  VerdictInv'
  BY <1>1, RaiseVerdict DEF Exceptions
<1>2. CASE /\ pc' = "tool"
           /\ UNCHANGED <<ops, installed, nsources, pos, stages, artifacts, disk,
                          runs, traces, run, worst, result>>
  <2>1. UnderWay'
      BY <1>2 DEF UnderWay, StartTool, Dispatching, Op
  <2> QED BY <1>2, <2>1, MoveVerdict DEF StartTool, Dispatching, Executing
<1> QED BY <1>1, <1>2 DEF StartTool

\* A tool that passed left files that are all good.
LEMMA FinishToolVerdict == EngineInv /\ VerdictInv /\ FinishTool => VerdictInv'
<1> SUFFICES ASSUME EngineInv, VerdictInv, FinishTool PROVE VerdictInv'
  OBVIOUS
<1>1. PICK exit \in Exits, files \in Leavings(Tools[Op.use]) :
        LET ok == exit = "zero" /\ ArtifactOk(files) IN
        /\ disk' = [disk EXCEPT ![Op.id] = files]
        /\ artifacts' = [artifacts EXCEPT ![Op.id] = IF ok THEN Len(files) ELSE 0]
        /\ Record(Classify(exit, ok))
  BY DEF FinishTool
<1> DEFINE ok == exit = "zero" /\ ArtifactOk(files)
           status == Classify(exit, ok)
<1>2. /\ pc \in Executing /\ ops' = ops /\ runs' = runs /\ traces' = traces
      /\ result' = result /\ Op.kind = "tool"
  BY DEF FinishTool, Executing, VerdictInv, UnderWay
<1>3. ok \in BOOLEAN /\ status \in Statuses /\ (status = "PASS" => ok)
  BY ClassifyPass
<1>4. Record(status)
  BY <1>1
<1>5. ok => files # << >> /\ \A i \in DOMAIN files : files[i] = "good"
  BY LeavingsAreFiles DEF ArtifactOk, CheckArtifact, FileStates
<1> HIDE DEF ok, status
<1>6. PICK c : c = Op.id
  OBVIOUS
<1>7. PICK cur : cur = Op
  OBVIOUS
<1>8. /\ c \in OpIds /\ stages' = [stages EXCEPT ![c] = status]
      /\ disk' = [disk EXCEPT ![c] = files] /\ cur.id = c /\ cur.kind = "tool"
      /\ stages'[c] = status /\ disk'[c] = files
  BY <1>1, <1>2, <1>4, <1>6, <1>7, CurrentIsNew DEF Record, EngineInv, TypeOK
<1>9. Frame(c)
  BY <1>2, <1>8 DEF Frame, EngineInv, TypeOK
<1>10. Earned(cur)'
  <2>1. stages'[cur.id] = "PASS" => Good(cur.id)'
      BY <1>3, <1>5, <1>8 DEF Good
  <2> QED BY <2>1, <1>8 DEF Earned
<1> QED BY <1>2, <1>3, <1>4, <1>6, <1>7, <1>9, <1>10, RecordingStep

\* When a simulation starts, nothing is on record under its id.
LEMMA StartSimulationVerdict ==
  EngineInv /\ VerdictInv /\ StartSimulation => VerdictInv'
<1> SUFFICES ASSUME EngineInv, VerdictInv, StartSimulation PROVE VerdictInv'
  OBVIOUS
<1>1. ASSUME NEW e \in {"ManifestError", "SystemExit"}, Raise(e)
      PROVE  VerdictInv'
  BY <1>1, RaiseVerdict DEF Exceptions
<1>2. CASE /\ pc' \in {"run", "compile"} /\ run' = 1
           /\ UNCHANGED <<ops, installed, nsources, pos, stages, artifacts, disk,
                          runs, traces, result>>
  <2>1. /\ Op \in Operation /\ Op.id \in OpIds \ Ids(ops, pos - 1)
        /\ Op.kind = "simulation" /\ pc = "dispatch"
      BY CurrentIsNew DEF StartSimulation, Dispatching, Executing
  <2>2. \A r \in RunIds : runs[Op.id][r] = Unrecorded
      BY <2>1 DEF VerdictInv, Untouched, Executing
  <2>3. CleanRuns(Op.id) /\ 1 <= Len(Op.runs) + 1
      BY <2>1, <2>2 DEF CleanRuns, Operation
  <2>4. UnderWay'
      BY <1>2, <2>1, <2>3 DEF UnderWay, HaveRun, CleanRuns, Op
  <2> QED BY <1>2, <2>1, <2>4, MoveVerdict DEF Executing
<1> QED BY <1>1, <1>2 DEF StartSimulation

LEMMA CompileVerdict == EngineInv /\ VerdictInv /\ Compile => VerdictInv'
<1> SUFFICES ASSUME EngineInv, VerdictInv, Compile PROVE VerdictInv'
  OBVIOUS
<1>1. PICK exit \in Exits, file \in FileStates :
        LET status == Classify(exit, file # "missing") IN
        /\ disk' = [disk EXCEPT ![Op.id] = <<file>>]
        /\ \/ status = "PASS" /\ pc' = "run" /\ UNCHANGED <<pos, stages>>
           \/ status # "PASS" /\ Record(status)
  BY DEF Compile
<1> DEFINE status == Classify(exit, file # "missing")
<1>2. /\ pc = "compile" /\ pc \in Executing
      /\ UNCHANGED <<ops, installed, nsources, artifacts, runs, traces, run, worst,
                     result>>
      /\ Op.kind = "simulation" /\ run = 1 /\ result = "running"
  BY CurrentIsNew DEF Compile, Executing, VerdictInv, UnderWay
<1>3. status \in Statuses
  BY ClassifyPass
<1> HIDE DEF status
<1>4. PICK c : c = Op.id
  OBVIOUS
<1>5. PICK cur : cur = Op
  OBVIOUS
<1>6. /\ Op \in Operation /\ c \in OpIds /\ c \notin Ids(ops, pos - 1)
      /\ disk' = [disk EXCEPT ![c] = <<file>>]
  BY <1>1, <1>2, <1>4, CurrentIsNew
<1>7. \A r \in RunIds : runs[c][r] = Unrecorded
  BY <1>2, <1>4, <1>6 DEF VerdictInv, Untouched
<1>8. CASE pc' = "run" /\ UNCHANGED <<pos, stages>>
  <2>1. Frame(c)
      BY <1>2, <1>6, <1>8 DEF Frame, EngineInv, TypeOK
  <2>2. AllEarned'
      BY <1>6, <1>8, <2>1, StayingStep
  <2>3. UnderWay'
    <3>1. CleanRuns(Op.id)' /\ Op' = Op /\ 1 <= Len(Op.runs) + 1
        BY <1>2, <1>4, <1>6, <1>7, <1>8 DEF CleanRuns, Op, Operation
    <3> QED BY <1>2, <1>8, <3>1 DEF UnderWay, HaveRun
  <2>4. Untouched'
      BY <1>2, <1>8 DEF VerdictInv, Untouched, Executing
  <2>5. Concluded'
      BY <1>2, <1>8 DEF Concluded, Statuses
  <2> QED BY <2>2, <2>3, <2>4, <2>5 DEF VerdictInv
<1>9. CASE status # "PASS" /\ Record(status)
  <2>1. /\ stages' = [stages EXCEPT ![c] = status] /\ stages'[c] = status
        /\ cur.id = c /\ cur.kind = "simulation"
      BY <1>2, <1>4, <1>5, <1>6, <1>9 DEF Record, EngineInv, TypeOK
  <2>2. Frame(c)
      BY <1>2, <1>6, <2>1 DEF Frame, EngineInv, TypeOK
  <2>3. Earned(cur)'
      BY <1>9, <2>1 DEF Earned
  <2> QED BY <1>2, <1>3, <1>4, <1>5, <1>9, <2>2, <2>3, RecordingStep
<1> QED BY <1>1, <1>8, <1>9 DEF status

LEMMA RefuseRunVerdict == EngineInv /\ VerdictInv /\ RefuseRun => VerdictInv'
<1> SUFFICES ASSUME EngineInv, VerdictInv, RefuseRun PROVE VerdictInv'
  OBVIOUS
<1>1. \E e \in Exceptions : Raise(e)
  BY DEF RefuseRun, Exceptions
<1> QED BY <1>1, RaiseVerdict

LEMMA RunToolRaisesVerdict == EngineInv /\ VerdictInv /\ RunToolRaises => VerdictInv'
<1> SUFFICES ASSUME EngineInv, VerdictInv, RunToolRaises PROVE VerdictInv'
  OBVIOUS
<1>1. \E e \in Exceptions : Raise(e)
  BY DEF RunToolRaises, Exceptions
<1> QED BY <1>1, RaiseVerdict

\* A run is on record with its own status, and `worst` forgets no failure.
LEMMA SimulateVerdict == EngineInv /\ VerdictInv /\ Simulate => VerdictInv'
<1> SUFFICES ASSUME EngineInv, VerdictInv, Simulate PROVE VerdictInv'
  OBVIOUS
<1>1. PICK exit \in Exits, written \in Written :
        LET trace == TraceAfter(written)
            status == Classify(exit, trace # "missing") IN
        /\ runs' = [runs EXCEPT ![Op.id] = [@ EXCEPT ![ThisRun.id] = status]]
        /\ traces' = [traces EXCEPT ![Op.id] = [@ EXCEPT ![ThisRun.id] = trace]]
        /\ worst' = IF status # "PASS" THEN status ELSE worst
  BY DEF Simulate
<1> DEFINE trace == TraceAfter(written)
           status == Classify(exit, trace # "missing")
<1>2. /\ pc = "run" /\ pc \in Executing /\ run' = run + 1 /\ pc' = pc
      /\ UNCHANGED <<ops, pos, stages, disk, result>>
      /\ Op.kind = "simulation" /\ run \in Nat /\ run >= 1 /\ run <= Len(Op.runs)
      /\ HaveRun(Op, run - 1) /\ (worst = "PASS" => CleanRuns(Op.id))
  BY DEF Simulate, InRun, Executing, VerdictInv, UnderWay, EngineInv, TypeOK, Control
<1>3. status \in Statuses /\ (status = "PASS" => trace # "missing")
  BY ClassifyPass
<1>4. PICK c : c = Op.id
  OBVIOUS
<1>5. /\ Op \in Operation /\ c \in OpIds /\ c \notin Ids(ops, pos - 1)
      /\ Len(Op.runs) \in Nat /\ result = "running" /\ run \in 1..Len(Op.runs)
  <2>1. Op \in Operation
      BY <1>2, CurrentIsNew
  <2> QED BY <1>2, <1>4, <2>1, CurrentIsNew DEF Operation
<1>6. ThisRun.id \in RunIds /\ \A r \in 1..Len(Op.runs) : Op.runs[r].id \in RunIds
  <2>1. \A r \in 1..Len(Op.runs) : Op.runs[r] \in Run
      BY <1>5 DEF Operation
  <2> QED BY <2>1, <1>5 DEF Run, ThisRun
<1> HIDE DEF status, trace
<1>7. /\ runs' = [runs EXCEPT ![c] = [@ EXCEPT ![ThisRun.id] = status]]
      /\ traces' = [traces EXCEPT ![c] = [@ EXCEPT ![ThisRun.id] = trace]]
      /\ worst' = IF status # "PASS" THEN status ELSE worst
  BY <1>1, <1>4 DEF status, trace
<1>8. /\ runs'[c] = [runs[c] EXCEPT ![ThisRun.id] = status]
      /\ traces'[c] = [traces[c] EXCEPT ![ThisRun.id] = trace]
      /\ \A o \in OpIds : o # c => runs'[o] = runs[o] /\ traces'[o] = traces[o]
      /\ runs[c] \in [RunIds -> Statuses \cup {Unrecorded}]
      /\ traces[c] \in [RunIds -> Contents]
  BY <1>5, <1>7 DEF EngineInv, TypeOK
<1>9. AllEarned'
  <2>1. Frame(c)
      BY <1>2, <1>8 DEF Frame
  <2> QED BY <1>2, <1>5, <2>1, StayingStep
<1>10. HaveRun(Op, run - 1)'
  <2> SUFFICES ASSUME NEW r \in 1..run
               PROVE  runs'[c][Op.runs[r].id] # Unrecorded
      BY <1>2, <1>4 DEF HaveRun, Op
  <2>1. Op.runs[r].id \in RunIds
      BY <1>5, <1>6
  <2>2. CASE Op.runs[r].id = ThisRun.id
      BY <2>1, <2>2, <1>3, <1>8 DEF Statuses, Unrecorded
  <2>3. CASE Op.runs[r].id # ThisRun.id
    <3>1. r \in 1..(run - 1)
        BY <2>3, <1>2 DEF ThisRun
    <3>2. runs[c][Op.runs[r].id] # Unrecorded
        BY <3>1, <1>2, <1>4 DEF HaveRun
    <3> QED BY <2>1, <2>3, <3>2, <1>8
  <2> QED BY <2>2, <2>3
<1>11. worst' = "PASS" => CleanRuns(Op.id)'
  <2> SUFFICES ASSUME worst' = "PASS", NEW r \in RunIds, runs'[c][r] # Unrecorded
               PROVE  runs'[c][r] = "PASS" /\ traces'[c][r] # "missing"
      BY <1>2, <1>4 DEF CleanRuns, Op
  <2>1. status = "PASS" /\ worst = "PASS"
      BY <1>7
  <2>2. CASE r = ThisRun.id
      BY <2>1, <2>2, <1>3, <1>8
  <2>3. CASE r # ThisRun.id
      BY <2>1, <2>3, <1>2, <1>4, <1>8 DEF CleanRuns
  <2> QED BY <2>2, <2>3
<1>12. UnderWay'
  <2>1. Op' = Op /\ run' <= Len(Op.runs) + 1
      BY <1>2, <1>5 DEF Op
  <2> QED BY <2>1, <1>2, <1>10, <1>11 DEF UnderWay
<1>13. Untouched'
  <2> SUFFICES ASSUME NEW o \in OpIds \ Ids(ops, pos - 1), o # c, NEW r \in RunIds
               PROVE  runs'[o][r] = Unrecorded
      BY <1>2, <1>4 DEF Untouched, Op
  <2> QED BY <1>2, <1>4, <1>8 DEF VerdictInv, Untouched
<1>14. Concluded'
  BY <1>2, <1>5 DEF Concluded, Statuses
<1> QED BY <1>9, <1>12, <1>13, <1>14 DEF VerdictInv

\* A simulation passes only when every one of its runs is on record and clean.
LEMMA EndSimulationVerdict ==
  EngineInv /\ VerdictInv /\ EndSimulation => VerdictInv'
<1> SUFFICES ASSUME EngineInv, VerdictInv, EndSimulation PROVE VerdictInv'
  OBVIOUS
<1>1. /\ pc = "run" /\ pc \in Executing /\ Record(worst) /\ worst \in Statuses
      /\ UNCHANGED <<ops, disk, runs, traces, result>>
      /\ Op.kind = "simulation" /\ run > Len(Op.runs) /\ run <= Len(Op.runs) + 1
      /\ HaveRun(Op, run - 1) /\ (worst = "PASS" => CleanRuns(Op.id))
  BY DEF EndSimulation, Executing, EngineInv, TypeOK, VerdictInv, UnderWay
<1>2. PICK c : c = Op.id
  OBVIOUS
<1>3. PICK cur : cur = Op
  OBVIOUS
<1>4. /\ c \in OpIds /\ cur.id = c /\ cur.kind = "simulation"
      /\ stages' = [stages EXCEPT ![c] = worst] /\ stages'[c] = worst
      /\ Len(Op.runs) \in Nat /\ run \in Nat
  <2>1. Op \in Operation
      BY <1>1, CurrentIsNew
  <2> QED BY <1>1, <1>2, <1>3, <2>1, CurrentIsNew
          DEF Record, EngineInv, TypeOK, Operation
<1>5. Frame(c)
  BY <1>1, <1>4 DEF Frame, EngineInv, TypeOK
<1>6. Earned(cur)'
  <2>1. run - 1 = Len(cur.runs) /\ HaveRun(cur, Len(cur.runs))
      BY <1>1, <1>3, <1>4
  <2>2. stages'[cur.id] = "PASS" =>
          CleanRuns(cur.id)' /\ HaveRun(cur, Len(cur.runs))'
      BY <1>1, <1>2, <1>4, <2>1 DEF CleanRuns, HaveRun
  <2> QED BY <1>4, <2>2 DEF Earned
<1> QED BY <1>1, <1>2, <1>3, <1>5, <1>6, RecordingStep

\* An operand that resolves is a run of a simulation that passed: the pipeline
\* would have stopped at one that did not.
LEMMA OperandsPass ==
  ASSUME EngineInv, VerdictInv, pc = "dispatch",
         NEW operand \in Operand, OperandResolves(operand)
  PROVE  ReadsPassing(operand)
<1> SUFFICES ASSUME operand.sim # NoName
             PROVE  ReadsPassing(operand)
  BY DEF ReadsPassing
<1>1. PICK j \in 1..(pos - 1) : ops[j].kind = "simulation" /\ ops[j].id = operand.sim
  BY DEF OperandResolves, Simulated
<1>2. /\ operand.sim \in Ids(ops, pos - 1) /\ stages[operand.sim] \in Statuses
      /\ Earned(ops[j]) /\ operand.run \in RunIds
      /\ runs[operand.sim][operand.run] # Unrecorded
  BY <1>1, EarlierOps DEF VerdictInv, AllEarned, Operand, OperandResolves
<1>3. stages[operand.sim] = "PASS"
  BY <1>1 DEF EngineInv, StopsAtFailure
<1>4. CleanRuns(operand.sim)
  BY <1>1, <1>2, <1>3 DEF Earned
<1> QED BY <1>2, <1>3, <1>4 DEF CleanRuns, ReadsPassing

LEMMA RunValidationVerdict ==
  EngineInv /\ VerdictInv /\ RunValidation => VerdictInv'
<1> SUFFICES ASSUME EngineInv, VerdictInv, RunValidation PROVE VerdictInv'
  OBVIOUS
<1>1. pc = "dispatch" /\ pc \in Executing /\ Op.kind = "validation"
  BY DEF RunValidation, Dispatching, Executing
<1>2. CASE Raise("ManifestError")
  BY <1>2, RaiseVerdict DEF Exceptions
<1>3. ASSUME NEW status \in {"PASS", "FAIL"}, Record(status),
             \A case \in Range(Op.cases) : CaseResolves(case),
             status = "PASS" => \A case \in Range(Op.cases) : Holds(case),
             UNCHANGED <<ops, installed, nsources, artifacts, disk, runs, traces,
                         run, worst, result>>
      PROVE  VerdictInv'
  <2>1. PICK c : c = Op.id
      OBVIOUS
  <2>2. PICK cur : cur = Op
      OBVIOUS
  <2>3. /\ status \in Statuses /\ c \in OpIds /\ c \notin Ids(ops, pos - 1)
        /\ stages' = [stages EXCEPT ![c] = status] /\ stages'[c] = status
        /\ cur \in Operation /\ cur.id = c /\ cur.kind = "validation"
        /\ Ids(ops, pos - 1) \subseteq Ids(ops', pos' - 1)
    <3>1. status \in Statuses
        BY DEF Statuses
    <3>2. /\ Op \in Operation /\ Op.id \in OpIds /\ Op.id \notin Ids(ops, pos - 1)
          /\ Ids(ops', pos' - 1) = Ids(ops, pos - 1) \cup {Op.id}
        BY <1>1, <1>3, <3>1, CurrentIsNew, RecordStep
    <3> QED BY <1>1, <1>3, <2>1, <2>2, <3>1, <3>2 DEF Record, EngineInv, TypeOK
  <2>4. Frame(c)
      BY <1>3, <2>3 DEF Frame, EngineInv, TypeOK
  <2>5. ASSUME NEW operand \in Operand, OperandResolves(operand)
        PROVE  ReadsPassing(operand)' /\ Content(operand)' = Content(operand)
    <3>1. ReadsPassing(operand)
        BY <1>1, <2>5, OperandsPass
    <3>2. operand.sim # NoName => operand.sim \in OpIds /\ operand.sim # c
        BY <2>3, <3>1, IdsAreOpIds DEF ReadsPassing
    <3> QED BY <2>3, <2>4, <3>1, <3>2 DEF ReadsPassing, Content, Frame
  <2>6. ASSUME NEW case \in Range(cur.cases)
        PROVE  /\ ReadsPassing(case.left)' /\ ReadsPassing(case.right)'
               /\ status = "PASS" => Holds(case)'
    <3>1. /\ case.left \in Operand /\ case.right \in Operand
          /\ OperandResolves(case.left) /\ OperandResolves(case.right)
          /\ status = "PASS" => Holds(case)
      <4>1. case \in Case
          BY <2>3 DEF Operation, Range
      <4> QED BY <1>3, <2>2, <4>1 DEF Case, CaseResolves
    <3>2. /\ ReadsPassing(case.left)' /\ ReadsPassing(case.right)'
          /\ Content(case.left)' = Content(case.left)
          /\ Content(case.right)' = Content(case.right)
        BY <3>1, <2>5
    <3> QED BY <3>1, <3>2 DEF Holds
  <2>7. Earned(cur)'
      BY <2>3, <2>6 DEF Earned
  <2> QED BY <1>1, <1>3, <2>1, <2>2, <2>3, <2>4, <2>7, RecordingStep
<1> DEFINE verdict ==
      IF \A case \in Range(Op.cases) : Holds(case) THEN "PASS" ELSE "FAIL"
<1>4. CASE /\ \A case \in Range(Op.cases) : CaseResolves(case)
           /\ Record(verdict)
           /\ UNCHANGED <<ops, installed, nsources, artifacts, disk, runs, traces,
                          run, worst, result>>
  <2>1. /\ verdict \in {"PASS", "FAIL"}
        /\ verdict = "PASS" => \A case \in Range(Op.cases) : Holds(case)
      OBVIOUS
  <2> HIDE DEF verdict
  <2> QED BY <2>1, <1>3, <1>4
<1> QED BY <1>2, <1>4 DEF RunValidation

LEMMA ReturnVerdict == EngineInv /\ VerdictInv /\ Return => VerdictInv'
<1> SUFFICES ASSUME EngineInv, VerdictInv, Return PROVE VerdictInv'
  OBVIOUS
<1> USE DEF Return
<1>1. AllEarned'
  BY QuietStep
<1>2. UnderWay' /\ Untouched'
  BY DEF UnderWay, Untouched, Executing
<1>3. Concluded'
  BY DEF VerdictInv, Concluded, WorstStatus
<1> QED BY <1>1, <1>2, <1>3 DEF VerdictInv

-----------------------------------------------------------------------------
(* The theorems. *)

\* VerdictInv holds in every state of every run of every pipeline.
THEOREM VerdictInvariant == Spec => []VerdictInv
<1>1. Init => VerdictInv
  BY InitVerdict
<1>2. EngineInv /\ VerdictInv /\ [Next]_vars => VerdictInv'
  <2> SUFFICES ASSUME EngineInv, VerdictInv, [Next]_vars PROVE VerdictInv'
      OBVIOUS
  <2>1. CASE UNCHANGED vars
    <3> USE <2>1 DEF vars
    <3>1. AllEarned'
        BY QuietStep
    <3>2. UnderWay' /\ Untouched' /\ Concluded'
        BY DEF VerdictInv, UnderWay, HaveRun, CleanRuns, Untouched, Concluded,
               WorstStatus, Op
    <3> QED BY <3>1, <3>2 DEF VerdictInv
  <2>2. CASE Next
      BY <2>2, ValidateVerdict, StartToolVerdict, FinishToolVerdict,
         StartSimulationVerdict, CompileVerdict, RefuseRunVerdict, SimulateVerdict,
         EndSimulationVerdict, RunToolRaisesVerdict, RunValidationVerdict, ReturnVerdict DEF Next
  <2> QED BY <2>1, <2>2
<1> QED BY <1>1, <1>2, EngineInvariant, PTL DEF Spec

\* A validation's verdict, PASS or FAIL, is about runs that passed, in simulations
\* that passed.
THEOREM ValidationsReadPassingRuns == Spec => []ValidationReadsPassingRuns
<1>1. EngineInv /\ VerdictInv => ValidationReadsPassingRuns
  <2> SUFFICES ASSUME EngineInv, VerdictInv, NEW k \in Recorded,
                      ops[k].kind = "validation", NEW case \in Range(ops[k].cases),
                      NEW operand \in {case.left, case.right}, operand.sim # NoName
               PROVE  /\ stages[operand.sim] = "PASS"
                      /\ runs[operand.sim][operand.run] = "PASS"
      BY DEF ValidationReadsPassingRuns
  <2>1. Earned(ops[k])
      BY RecordedArePast DEF VerdictInv, AllEarned
  <2>2. ReadsPassing(operand)
      BY <2>1 DEF Earned
  <2> QED BY <2>2 DEF ReadsPassing
<1> QED BY <1>1, EngineInvariant, VerdictInvariant, PTL

\* When the result is PASS, every operation of the pipeline is on record as PASS.
LEMMA PassMeansAllPassed ==
  ASSUME EngineInv, VerdictInv, result = "PASS"
  PROVE  /\ pos = Len(ops) + 1
         /\ \A k \in 1..(pos - 1) : stages[ops[k].id] = "PASS"
<1>1. /\ WorstStatus = "PASS"
      /\ pos = Len(ops) + 1 \/ (pos > 1 /\ stages[ops[pos - 1].id] # "PASS")
  BY DEF VerdictInv, Concluded, Statuses
<1>2. ASSUME NEW k \in 1..(pos - 1)
      PROVE  stages[ops[k].id] = "PASS"
  <2>1. ops[k].id \in OpIds /\ stages[ops[k].id] \in Statuses
      BY EarlierOps
  <2>2. Severity["PASS"] >= Severity[stages[ops[k].id]]
      BY <1>1, <2>1, WorstIsStatus DEF EngineInv, TypeOK, Statuses, Unrecorded
  <2> QED BY <2>1, <2>2 DEF Statuses, Severity
<1>3. pos \in Nat
  BY DEF EngineInv, TypeOK
<1>4. pos > 1 => pos - 1 \in 1..(pos - 1)
  BY <1>3
<1> QED BY <1>1, <1>2, <1>4

\* What the k-th operation consumes was produced before it.
LEMMA InputsAreEarlier ==
  ASSUME ops \in Seq(Operation), ValidPipeline(ops), NEW k \in 1..Len(ops)
  PROVE  InputsOf(k) \subseteq Ids(ops, k - 1)
<1>1. CASE ops[k].inputs # << >>
  BY <1>1 DEF InputsOf, ValidPipeline, ValidOperation, ReferencedIds
<1>2. CASE ops[k].inputs = << >> /\ k # 1
  <2>1. k - 1 \in 1..(k - 1)
      BY <1>2
  <2> QED BY <1>2, <2>1 DEF InputsOf, Ids
<1>3. CASE ops[k].inputs = << >> /\ k = 1
  BY <1>3 DEF InputsOf
<1> QED BY <1>1, <1>2, <1>3

\* Files already consumed are not touched again: only the operation under way
\* writes, and its id is new.
LEMMA FilesStay ==
  ASSUME EngineInv, [Next]_vars
  PROVE  /\ UNCHANGED <<ops, nsources>>
         /\ \A o \in Ids(ops, pos - 1) : disk'[o] = disk[o]
<1>1. ASSUME NEW e, Raise(e)
      PROVE  UNCHANGED <<ops, nsources, disk>>
  BY <1>1 DEF Raise
<1>2. CASE \/ Validate \/ StartTool \/ StartSimulation \/ RefuseRun \/ RunToolRaises
           \/ Simulate \/ EndSimulation \/ RunValidation \/ Return \/ UNCHANGED vars
  BY <1>1, <1>2 DEF Validate, StartTool, StartSimulation, RefuseRun, RunToolRaises,
     Simulate, EndSimulation, RunValidation, Return, vars
<1>3. CASE FinishTool \/ Compile
  <2>1. /\ pc \in Executing /\ UNCHANGED <<ops, nsources>>
        /\ \E files : disk' = [disk EXCEPT ![Op.id] = files]
      BY <1>3 DEF FinishTool, Compile, Executing
  <2>2. \A o \in Ids(ops, pos - 1) : o \in OpIds /\ o # Op.id
      BY <2>1, CurrentIsNew, IdsAreOpIds
  <2> QED BY <2>1, <2>2 DEF EngineInv, TypeOK
<1> QED BY <1>2, <1>3 DEF Next

\* A tool with one {input} is started on one file only.
LEMMA StartsOnOneFile ==
  ASSUME EngineInv, pos \in 1..Len(ops), InputsOf(pos) \subseteq OpIds, OneInput
  PROVE  FedOneFile(pos)
<1>1. \A o \in InputsOf(pos) : artifacts[o] = 1 /\ artifacts[o] = Len(disk[o])
  BY DEF OneInput, InputIds, EngineInv, HandedOnGood
<1> QED BY <1>1 DEF OneInput, InputIds, FedOneFile, Op

\* Where a step leads: on with the same operation, into its tool, or to the next.
LEMMA StepsGo ==
  ASSUME EngineInv, VerdictInv, [Next]_vars
  PROVE  \/ pos' = pos /\ (pc' = "tool" => pc = "tool")
         \/ /\ pos' = pos /\ StartTool
            /\ Op.kind = "tool" /\ (Tools[Op.use].single => OneInput)
         \/ /\ pos' = pos + 1 /\ pc' # "tool" /\ pc \in Executing
            /\ pc = "tool" \/ Op.kind # "tool"
<1>1. ASSUME NEW e, Raise(e)
      PROVE  pos' = pos /\ pc' # "tool"
  BY <1>1 DEF Raise
<1>2. ASSUME NEW s, Record(s)
      PROVE  pos' = pos + 1 /\ pc' # "tool"
  BY <1>2 DEF Record
<1>3. CASE \/ Validate \/ StartSimulation \/ RefuseRun \/ RunToolRaises
           \/ Simulate \/ Return \/ UNCHANGED vars
  BY <1>1, <1>3 DEF Validate, StartSimulation, RefuseRun, RunToolRaises, Simulate,
     InRun, Return, vars
<1>4. CASE StartTool
  BY <1>1, <1>4 DEF StartTool, Dispatching
<1>5. CASE FinishTool
  BY <1>2, <1>5 DEF FinishTool, Executing
<1>6. CASE Compile
  BY <1>2, <1>6 DEF Compile, Executing, VerdictInv, UnderWay
<1>7. CASE EndSimulation
  BY <1>2, <1>7 DEF EndSimulation, Executing, VerdictInv, UnderWay
<1>8. CASE RunValidation
  BY <1>1, <1>2, <1>8 DEF RunValidation, Dispatching, Executing
<1> QED BY <1>3, <1>4, <1>5, <1>6, <1>7, <1>8 DEF Next

\* No tool that takes one {input} ever ran on none or on several.
THEOREM SingleInputsAreSingle == Spec => []SinglyFed
<1>1. Init => SinglyFed
  BY PipelinesAssumption DEF Init, SinglyFed
<1>2. ASSUME EngineInv, VerdictInv, SinglyFed, [Next]_vars
      PROVE  SinglyFed'
  <2>1. UNCHANGED <<ops, nsources>> /\ \A o \in Ids(ops, pos - 1) : disk'[o] = disk[o]
      BY <1>2, FilesStay
  <2>2. ops \in Seq(Operation) /\ pos \in Nat \ {0} /\ Len(ops) \in Nat
      BY <1>2, PipelinesAssumption DEF EngineInv, TypeOK
  <2> SUFFICES ASSUME NEW k \in 1..Len(ops), k < pos' \/ (k = pos' /\ pc' = "tool"),
                      ops[k].kind = "tool", Tools[ops[k].use].single
               PROVE  FedOneFile(k)'
      BY <2>1 DEF SinglyFed
  <2>3. pos' = pos \/ pos' = pos + 1
      BY <1>2, StepsGo
  <2>4. k <= pos /\ ValidPipeline(ops)
      BY <1>2, <2>2, <2>3, StepsGo DEF EngineInv, Control, StartTool, Dispatching, Executing
  <2>5. InputsOf(k) \subseteq Ids(ops, pos - 1)
    <3>1. InputsOf(k) \subseteq Ids(ops, k - 1)
        BY <2>2, <2>4, InputsAreEarlier
    <3>2. Ids(ops, k - 1) \subseteq Ids(ops, pos - 1)
        BY <2>2, <2>4 DEF Ids
    <3> QED BY <3>1, <3>2
  <2>6. FedOneFile(k)
    <3>1. CASE k < pos \/ pc = "tool"
        BY <1>2, <2>2, <2>4, <3>1 DEF SinglyFed
    <3>2. CASE k = pos /\ pc # "tool"
      <4>1. OneInput
          BY <1>2, <2>2, <3>2, StepsGo DEF Op
      <4>2. InputsOf(pos) \subseteq OpIds
          BY <1>2, <2>5, <3>2, IdsAreOpIds
      <4> QED BY <1>2, <3>2, <4>1, <4>2, StartsOnOneFile
    <3> QED BY <2>2, <2>4, <3>1, <3>2
  <2> QED BY <2>1, <2>5, <2>6 DEF FedOneFile, InputsOf
<1>3. EngineInv /\ VerdictInv /\ SinglyFed /\ [Next]_vars => SinglyFed'
  BY <1>2
<1> QED BY <1>1, <1>3, EngineInvariant, VerdictInvariant, PTL DEF Spec

\* An overall PASS is earned by every operation, every file, every input, every
\* run and every case behind it.
THEOREM PassesAreEarned == Spec => []PassIsEarned
<1>1. ASSUME EngineInv, VerdictInv, SinglyFed, result = "PASS", NEW k \in 1..Len(ops),
             NEW op, op = ops[k]
      PROVE  /\ stages[op.id] = "PASS"
             /\ op.kind = "tool" =>
                  Good(op.id) /\ (Tools[op.use].single => FedOneFile(k))
             /\ op.kind = "simulation" =>
                  \A r \in DOMAIN op.runs : /\ runs[op.id][op.runs[r].id] = "PASS"
                                            /\ traces[op.id][op.runs[r].id] # "missing"
             /\ op.kind = "validation" =>
                  \A case \in Range(op.cases) :
                    /\ "missing" \notin {Content(case.left), Content(case.right)}
                    /\ Holds(case)
  <2>1. k \in 1..(pos - 1) /\ op \in Operation
    <3>1. ops \in Seq(Operation)
        BY <1>1, PipelinesAssumption DEF EngineInv, TypeOK
    <3> QED BY <1>1, <3>1, PassMeansAllPassed
  <2>2. stages[op.id] = "PASS" /\ Earned(op)
      BY <1>1, <2>1, PassMeansAllPassed DEF VerdictInv, AllEarned
  <2>3. ASSUME op.kind = "simulation", NEW r \in DOMAIN op.runs
        PROVE  /\ runs[op.id][op.runs[r].id] = "PASS"
               /\ traces[op.id][op.runs[r].id] # "missing"
    <3>1. CleanRuns(op.id) /\ HaveRun(op, Len(op.runs))
        BY <2>2, <2>3 DEF Earned
    <3>2. r \in 1..Len(op.runs) /\ op.runs[r].id \in RunIds
      <4>1. op.runs \in Seq(Run)
          BY <2>1 DEF Operation
      <4>2. r \in 1..Len(op.runs) /\ op.runs[r] \in Run
          BY <2>3, <4>1
      <4> QED BY <4>2 DEF Run
    <3> QED BY <3>1, <3>2 DEF CleanRuns, HaveRun
  <2>4. ASSUME op.kind = "validation", NEW case \in Range(op.cases)
        PROVE  /\ "missing" \notin {Content(case.left), Content(case.right)}
               /\ Holds(case)
    <3>1. ReadsPassing(case.left) /\ ReadsPassing(case.right) /\ Holds(case)
        BY <2>2, <2>4 DEF Earned
    <3>2. Golden # "missing"
        BY PipelinesAssumption
    <3> QED BY <3>1, <3>2 DEF ReadsPassing, Content
  <2>5. op.kind = "tool" => Good(op.id)
      BY <2>2 DEF Earned
  <2>6. op.kind = "tool" /\ Tools[op.use].single => FedOneFile(k)
      BY <1>1, <2>1 DEF SinglyFed, EngineInv, TypeOK
  <2> QED BY <2>2, <2>3, <2>4, <2>5, <2>6
<1>2. EngineInv /\ VerdictInv /\ SinglyFed => PassIsEarned
  BY <1>1 DEF PassIsEarned
<1> QED BY <1>2, EngineInvariant, VerdictInvariant, SingleInputsAreSingle, PTL

-----------------------------------------------------------------------------
(* What a result says: whose verdict it is, and of which kind.               *)

LEMMA ClassifyNeverFails ==
  ASSUME NEW exit \in Exits, NEW ok \in BOOLEAN
  PROVE  Classify(exit, ok) # "FAIL"
BY DEF Classify, Exits

LEMMA KindStays ==
  ASSUME ByKind, UNCHANGED <<ops, pos, stages>>, worst' # "FAIL",
         pc' \in {"tool", "compile", "run"} => Served(Op)
  PROVE  ByKind'
BY DEF ByKind, Op

LEMMA KindRaises ==
  ASSUME ByKind, NEW e, Raise(e)
  PROVE  ByKind'
BY KindStays DEF Raise, ByKind

LEMMA KindRecorded ==
  ASSUME EngineInv, ByKind, pc \in Executing, NEW status \in Statuses, Record(status),
         UNCHANGED <<ops, worst>>, Served(Op),
         IF Op.kind = "validation" THEN status \in {"PASS", "FAIL"} ELSE status # "FAIL"
  PROVE  ByKind'
<1>1. /\ pos \in 1..Len(ops) /\ pos' = pos + 1 /\ pc' \in {"dispatch", "return"}
      /\ Op.id \in OpIds /\ Op.id \notin Ids(ops, pos - 1)
      /\ stages' = [stages EXCEPT ![Op.id] = status]
  BY CurrentIsNew, RecordStep DEF Record
<1>2. ASSUME NEW k \in 1..pos
      PROVE  /\ Served(ops[k])
             /\ IF ops[k].kind = "validation" THEN stages'[ops[k].id] \in {"PASS", "FAIL"}
                ELSE stages'[ops[k].id] # "FAIL"
  <2>1. CASE k = pos
    BY <1>1, <2>1 DEF EngineInv, TypeOK, Op
  <2>2. CASE k \in 1..(pos - 1)
    <3>1. ops[k].id \in OpIds /\ ops[k].id # Op.id
      BY <1>1, <2>2, EarlierOps
    <3>2. stages'[ops[k].id] = stages[ops[k].id]
      BY <1>1, <3>1 DEF EngineInv, TypeOK
    <3> QED BY <2>2, <3>2 DEF ByKind
  <2> QED BY <1>1, <2>1, <2>2
<1>3. pos' - 1 = pos
  BY <1>1
<1> QED BY <1>1, <1>2, <1>3 DEF ByKind

LEMMA ByKindStep ==
  ASSUME EngineInv, VerdictInv, ByKind, [Next]_vars
  PROVE  ByKind'
<1> DEFINE Place == {"tool", "compile", "run"}
<1>0. worst # "FAIL" /\ (pc \in Place => Served(Op))
  BY DEF ByKind
<1>1. CASE UNCHANGED vars
  BY <1>0, <1>1, KindStays DEF vars
<1>2. CASE Validate \/ RefuseRun \/ RunToolRaises
  BY <1>0, <1>2, KindStays, KindRaises DEF Validate, RefuseRun, RunToolRaises
<1>3. CASE StartTool
  <2>1. CASE \E e : Raise(e)
    BY <2>1, KindRaises
  <2>2. CASE /\ Op.use \in DOMAIN Tools /\ pc' = "tool"
             /\ UNCHANGED <<ops, pos, stages, worst>>
    <3>1. Served(Op)
      BY <1>3, <2>2 DEF StartTool, Dispatching, Served
    <3> QED BY <1>0, <2>2, <3>1, KindStays
  <2> QED BY <1>3, <2>1, <2>2 DEF StartTool
<1>4. CASE FinishTool
  <2>1. /\ pc \in Executing /\ Served(Op) /\ Op.kind = "tool"
        /\ UNCHANGED <<ops, worst>>
    BY <1>0, <1>4 DEF FinishTool, Executing, VerdictInv, UnderWay
  <2>2. PICK exit \in Exits, files \in Leavings(Tools[Op.use]) :
          Record(Classify(exit, exit = "zero" /\ ArtifactOk(files)))
    BY <1>4 DEF FinishTool
  <2>3. /\ Classify(exit, exit = "zero" /\ ArtifactOk(files)) \in Statuses
        /\ Classify(exit, exit = "zero" /\ ArtifactOk(files)) # "FAIL"
    BY ClassifyPass, ClassifyNeverFails
  <2> QED BY <2>1, <2>2, <2>3, KindRecorded
<1>5. CASE StartSimulation
  <2>1. CASE \E e : Raise(e)
    BY <2>1, KindRaises
  <2>2. CASE /\ Op.provided /\ Op.use \in DOMAIN Simulators /\ worst' = "PASS"
             /\ UNCHANGED <<ops, pos, stages>>
    <3>1. Served(Op)
      BY <1>5, <2>2 DEF StartSimulation, Dispatching, Served
    <3> QED BY <2>2, <3>1, KindStays
  <2> QED BY <1>5, <2>1, <2>2 DEF StartSimulation
<1>6. CASE Compile
  <2>1. /\ pc \in Executing /\ Served(Op) /\ Op.kind = "simulation"
        /\ UNCHANGED <<ops, worst>>
    BY <1>0, <1>6 DEF Compile, Executing, VerdictInv, UnderWay
  <2>2. PICK exit \in Exits, file \in FileStates :
          \/ UNCHANGED <<pos, stages>>
          \/ Record(Classify(exit, file # "missing"))
    BY <1>6 DEF Compile
  <2>3. /\ Classify(exit, file # "missing") \in Statuses
        /\ Classify(exit, file # "missing") # "FAIL"
    BY ClassifyPass, ClassifyNeverFails
  <2> QED BY <1>0, <2>1, <2>2, <2>3, KindRecorded, KindStays
<1>7. CASE Simulate
  <2>1. PICK exit \in Exits, written \in Written :
          LET status == Classify(exit, TraceAfter(written) # "missing") IN
          worst' = IF status # "PASS" THEN status ELSE worst
    BY <1>7 DEF Simulate
  <2>2. worst' # "FAIL"
    BY <1>0, <2>1, ClassifyNeverFails
  <2>3. UNCHANGED <<ops, pos, stages>> /\ pc \in Place
    BY <1>7 DEF Simulate, InRun
  <2> QED BY <1>0, <2>2, <2>3, KindStays
<1>8. CASE EndSimulation
  <2>1. /\ pc \in Executing /\ Served(Op) /\ Op.kind = "simulation"
        /\ UNCHANGED <<ops, worst>> /\ Record(worst) /\ worst \in Statuses
    BY <1>0, <1>8 DEF EndSimulation, Executing, VerdictInv, UnderWay, EngineInv, TypeOK
  <2> QED BY <1>0, <2>1, KindRecorded
<1>9. CASE RunValidation
  <2>1. CASE \E e : Raise(e)
    BY <2>1, KindRaises
  <2>2. CASE /\ Op.provided /\ \A case \in Range(Op.cases) : CaseResolves(case)
             /\ \E s \in {"PASS", "FAIL"} : Record(s)
             /\ UNCHANGED <<ops, worst>>
    <3>1. pc \in Executing /\ Op.kind = "validation"
      BY <1>9 DEF RunValidation, Dispatching, Executing
    <3>2. Served(Op)
      BY <2>2, <3>1 DEF Served, CaseResolves
    <3> QED BY <2>2, <3>1, <3>2, KindRecorded DEF Statuses
  <2> QED BY <1>9, <2>1, <2>2 DEF RunValidation
<1>10. CASE Return
  BY <1>0, <1>10, KindStays DEF Return
<1> QED BY <1>1, <1>2, <1>3, <1>4, <1>5, <1>6, <1>7, <1>8, <1>9, <1>10 DEF Next

\* Each recorded stage is of its operation's kind, whatever ran.
THEOREM StagesAreByKind == Spec => []ByKind
<1>1. Init => ByKind
  BY DEF Init, ByKind
<1>2. EngineInv /\ VerdictInv /\ ByKind /\ [Next]_vars => ByKind'
  BY ByKindStep
<1> QED BY <1>1, <1>2, EngineInvariant, VerdictInvariant, PTL DEF Spec

\* The worst of the recorded stages is the last of them.
LEMMA WorstIsLast ==
  ASSUME EngineInv, pos > 1
  PROVE  /\ pos - 1 \in 1..(pos - 1) /\ stages[ops[pos - 1].id] \in Statuses
         /\ WorstStatus = stages[ops[pos - 1].id]
<1>1. PICK last : last = stages[ops[pos - 1].id]
  OBVIOUS
<1>2. pos - 1 \in 1..(pos - 1)
  BY DEF EngineInv, TypeOK
<1>3. /\ last \in Statuses /\ ops[pos - 1].id \in OpIds /\ last # Unrecorded
      /\ stages \in [OpIds -> Statuses \cup {Unrecorded}]
  BY <1>1, <1>2, EarlierOps DEF EngineInv, TypeOK, Statuses, Unrecorded
<1>4. Severity[WorstStatus] >= Severity[last]
  BY <1>1, <1>3, WorstIsStatus
<1>5. PICK w \in OpIds : stages[w] # Unrecorded /\ WorstStatus = stages[w]
  BY <1>1, <1>3, WorstIsStatus
<1>6. PICK j \in 1..(pos - 1) : ops[j].id = w
  BY <1>5 DEF EngineInv, PrefixRecorded, Ids
<1>7. WorstStatus = "PASS" \/ j = pos - 1
  BY <1>5, <1>6 DEF EngineInv, StopsAtFailure
<1>8. CASE j = pos - 1
  BY <1>1, <1>2, <1>3, <1>5, <1>6, <1>8
<1>9. CASE WorstStatus = "PASS"
  BY <1>1, <1>2, <1>3, <1>4, <1>9 DEF Statuses, Severity
<1> QED BY <1>7, <1>8, <1>9

\* Nothing on record: nothing is wrong.
LEMMA NothingRecorded ==
  ASSUME EngineInv, pos = 1
  PROVE  WorstStatus = "PASS"
<1>1. Ids(ops, pos - 1) = {}
  BY DEF Ids
<1>2. Range(stages) \ {Unrecorded} = {}
  BY <1>1 DEF EngineInv, TypeOK, PrefixRecorded, Range
<1> QED BY <1>2 DEF WorstStatus

\* A result is attributed to one operation, or to all.
THEOREM ResultsAreAttributed == Spec => []ResultIsAttributed
<1>1. ASSUME EngineInv, VerdictInv, ByKind, result \in Statuses
      PROVE  ResultIsAttributed
  <2>1. /\ pos \in Nat \ {0} /\ Len(ops) \in Nat /\ pos <= Len(ops) + 1
        /\ Recorded = 1..(pos - 1) /\ result = WorstStatus
        /\ \A j \in 1..(pos - 1) : Served(ops[j])
    <3>1. ops \in Seq(Operation)
        BY <1>1, PipelinesAssumption DEF EngineInv, TypeOK
    <3>2. pos \in Nat \ {0} /\ Len(ops) \in Nat /\ pos <= Len(ops) + 1
        BY <1>1, <3>1 DEF EngineInv, TypeOK, Control
    <3>3. result = WorstStatus /\ \A j \in 1..(pos - 1) : Served(ops[j])
        BY <1>1 DEF VerdictInv, Concluded, ByKind
    <3> QED BY <1>1, <3>2, <3>3, RecordedArePast
  <2>2. CASE result = "PASS"
    <3>1. /\ pos = Len(ops) + 1
          /\ \A k \in 1..(pos - 1) : stages[ops[k].id] = "PASS"
        BY <1>1, <2>2, PassMeansAllPassed
    <3>2. pos - 1 = Len(ops)
        BY <2>1, <3>1
    <3> QED BY <2>1, <2>2, <3>1, <3>2 DEF ResultIsAttributed
  <2>3. CASE result # "PASS"
    <3>1. pos > 1
        BY <1>1, <2>1, <2>3, NothingRecorded
    <3>2. PICK n : n = pos - 1
        OBVIOUS
    <3>3. n \in 1..Len(ops) /\ n \in 1..n /\ result = stages[ops[n].id]
        BY <1>1, <2>1, <3>1, <3>2, WorstIsLast
    <3>4. ASSUME NEW j \in 1..(n - 1)
          PROVE  stages[ops[j].id] = "PASS"
      <4>1. j \in 1..(pos - 1) /\ j # pos - 1
          BY <2>1, <3>1, <3>2
      <4> QED BY <1>1, <4>1 DEF EngineInv, StopsAtFailure
    <3>5. result = "FAIL" <=> ops[n].kind = "validation"
        BY <1>1, <2>3, <3>2, <3>3 DEF ByKind
    <3> QED BY <2>1, <2>3, <3>2, <3>3, <3>4, <3>5 DEF ResultIsAttributed
  <2> QED BY <2>2, <2>3
<1>2. EngineInv /\ VerdictInv /\ ByKind => ResultIsAttributed
  BY <1>1 DEF ResultIsAttributed
<1> QED BY <1>2, EngineInvariant, VerdictInvariant, StagesAreByKind, PTL

-----------------------------------------------------------------------------
(* What run_design makes of a result. *)

\* An operation that was served finds what it refers to in the checkout.
LEMMA ServedServes ==
  ASSUME NEW m, NEW e, Registries(m), NEW op, NEW executed,
         Executes(e, op, executed), executed.kind \in Kinds, Served(executed)
  PROVE  Serves(m, e, op)
<1>1. op.kind = executed.kind /\ op.use = executed.use
  BY DEF Executes
<1>2. CASE op.kind = "tool"
  BY <1>1, <1>2 DEF Served, Serves, Registries
<1>3. CASE op.kind = "simulation"
  BY <1>1, <1>3 DEF Served, Serves, Registries, Executes, BringsSimulation
<1>4. CASE op.kind = "validation"
  <2>1. executed.provided /\ BringsValidation(e, op)
      BY <1>1, <1>4 DEF Served, Executes
  <2>2. ASSUME op.spec, NEW c \in Cases(e)
        PROVE  c.use \in DOMAIN m.validators
    <3>1. {d.use : d \in Range(executed.cases)} = {d.use : d \in Cases(e)}
        BY <1>4, <2>1, <2>2 DEF Executes
    <3>2. PICK d \in Range(executed.cases) : d.use = c.use
        BY <3>1
    <3> QED BY <1>1, <1>4, <3>2 DEF Served, Registries
  <2> QED BY <1>4, <2>1, <2>2 DEF Serves, BringsValidation
<1> QED BY <1>1, <1>2, <1>3, <1>4 DEF Kinds

LEMMA ServedUpToHere ==
  ASSUME EngineInv, NEW m, NEW e, RunsDesign(m, e),
         NEW n \in 0..Len(ops), n > 0 => pos > 1, \A k \in 1..n : Served(ops[k])
  PROVE  ServedUpTo(m, e, n)
<1>1. /\ Registries(m) /\ HasPipeline(m, e) /\ Len(ops) = Len(m.pipelines[PipelineOf(m, e)])
      /\ \A k \in 1..Len(ops) : Executes(e, m.pipelines[PipelineOf(m, e)][k], ops[k])
  BY DEF RunsDesign
<1>2. ASSUME NEW k \in 1..n
      PROVE  Serves(m, e, m.pipelines[PipelineOf(m, e)][k])
  <2>1. Len(ops) \in Nat
      BY PipelinesAssumption DEF EngineInv, TypeOK
  <2>2. k \in 1..Len(ops) /\ ValidPipeline(ops)
      BY <2>1 DEF EngineInv, Control
  <2>3. ops[k].kind \in Kinds /\ Served(ops[k])
      BY <2>2 DEF ValidPipeline, ValidOperation
  <2> QED BY <1>1, <2>2, <2>3, ServedServes
<1> QED BY <1>1, <1>2 DEF ServedUpTo

\* The failing stage is the one operation on record that did not pass.
LEMMA FailingStageIs ==
  ASSUME NEW n \in Nat, Recorded = 1..n, n > 0,
         \A j \in 1..(n - 1) : stages[ops[j].id] = "PASS",
         stages[ops[n].id] # "PASS"
  PROVE  FailingStage = ops[n].id
<1>1. {k \in Recorded : stages[ops[k].id] # "PASS"} = {n}
  OBVIOUS
<1>2. (CHOOSE k \in {n} : \A j \in {n} : k <= j) = n
  OBVIOUS
<1> QED BY <1>1, <1>2 DEF FailingStage

\* The pipeline of a design ends as CuratedRunner says it may.
THEOREM DesignsEndAsPossible == Spec => []EndsAsPossible
<1>1. ASSUME EngineInv, VerdictInv, ResultIsAttributed, result \in Statuses,
             NEW m \in Checkouts, NEW e \in Range(m.corpus), RunsDesign(m, e)
      PROVE  Possible(m, e, Outcome)
  <2> DEFINE manifest == m.pipelines[PipelineOf(m, e)]
  <2>1. /\ HasPipeline(m, e) /\ Len(ops) = Len(manifest)
        /\ \A k \in 1..Len(ops) : Executes(e, manifest[k], ops[k])
      BY <1>1 DEF RunsDesign
  <2>2. ops \in Seq(Operation) /\ Len(ops) \in Nat /\ pos \in Nat \ {0}
      BY <1>1, PipelinesAssumption DEF EngineInv, TypeOK
  <2>3. Recorded = 1..(pos - 1)
      BY <1>1, RecordedArePast
  <2>4. Outcome.status = result /\ Outcome.stage = FailingStage
      BY DEF Outcome
  <2>5. ASSUME result = "PASS",
               \A k \in 1..Len(ops) : stages[ops[k].id] = "PASS" /\ Served(ops[k])
        PROVE  Possible(m, e, Outcome)
    <3>1. {k \in Recorded : stages[ops[k].id] # "PASS"} = {}
        BY <2>5 DEF Recorded
    <3>2. FailingStage = NoName
        BY <3>1 DEF FailingStage
    <3>3. Len(ops) > 0 => pos > 1
        BY <1>1, <2>2, <2>5, PassMeansAllPassed
    <3>4. ServedUpTo(m, e, Len(manifest))
        BY <1>1, <2>1, <2>2, <2>5, <3>3, ServedUpToHere
    <3> QED BY <2>1, <2>4, <2>5, <3>2, <3>4 DEF Possible, Complete
  <2>6. ASSUME NEW k \in 1..Len(ops), Recorded = 1..k,
               \A j \in 1..(k - 1) : stages[ops[j].id] = "PASS",
               \A j \in 1..k : Served(ops[j]),
               result = stages[ops[k].id], result # "PASS",
               result = "FAIL" <=> ops[k].kind = "validation"
        PROVE  Possible(m, e, Outcome)
    <3>1. k \in Nat /\ k > 0
        BY <2>2
    <3>2. FailingStage = ops[k].id
        BY <2>6, <3>1, FailingStageIs
    <3>3. pos > 1
      <4>1. k \in 1..k
          BY <3>1
      <4>2. k \in 1..(pos - 1)
          BY <2>3, <2>6, <4>1
      <4> QED BY <2>2, <4>2
    <3>4. ServedUpTo(m, e, k)
        BY <1>1, <2>2, <2>6, <3>3, ServedUpToHere
    <3>5. manifest[k].id = ops[k].id /\ manifest[k].kind = ops[k].kind
        BY <2>1 DEF Executes
    <3> QED BY <2>1, <2>4, <2>6, <3>2, <3>4, <3>5 DEF Possible
  <2> QED BY <1>1, <2>5, <2>6 DEF ResultIsAttributed
<1>2. EngineInv /\ VerdictInv /\ ResultIsAttributed => EndsAsPossible
  BY <1>1 DEF EndsAsPossible
<1> QED BY <1>2, EngineInvariant, VerdictInvariant, ResultsAreAttributed, PTL

-----------------------------------------------------------------------------
\* A recorded stage, its artifact and its runs are final.
THEOREM StagesStayFinal == Spec => StagesAreFinal
<1>1. ASSUME EngineInv, [Next]_vars, NEW o \in OpIds, stages[o] # Unrecorded
      PROVE  stages'[o] = stages[o] /\ artifacts'[o] = artifacts[o] /\ runs'[o] = runs[o]
  <2>1. pc \in Executing => o # Op.id
      BY <1>1, CurrentIsNew DEF EngineInv, PrefixRecorded
  <2>2. ASSUME NEW status, Record(status)
        PROVE  pc \in Executing => stages'[o] = stages[o]
      BY <1>1, <2>1, <2>2 DEF Record, EngineInv, TypeOK
  <2>3. ASSUME NEW e, Raise(e)
        PROVE  UNCHANGED <<stages, artifacts, runs>>
      BY <2>3 DEF Raise
  <2>4. CASE \/ Validate \/ StartTool \/ RefuseRun \/ RunToolRaises \/ Return
             \/ UNCHANGED vars
      BY <2>3, <2>4 DEF Validate, StartTool, RefuseRun, RunToolRaises, Return, vars
  <2>5. CASE FinishTool
    <3>1. pc \in Executing /\ runs' = runs
        BY <2>5 DEF FinishTool, Executing
    <3>2. \E s : Record(s)
        BY <2>5 DEF FinishTool
    <3>3. artifacts'[o] = artifacts[o]
        BY <1>1, <2>1, <2>5, <3>1 DEF FinishTool, EngineInv, TypeOK
    <3> QED BY <2>2, <3>1, <3>2, <3>3
  <2>6. CASE StartSimulation
      BY <2>3, <2>6 DEF StartSimulation
  <2>7. CASE Compile
    <3>1. pc \in Executing /\ runs' = runs /\ artifacts' = artifacts
        BY <2>7 DEF Compile, Executing
    <3>2. stages' = stages \/ \E s : Record(s)
        BY <2>7 DEF Compile
    <3> QED BY <2>2, <3>1, <3>2
  <2>8. CASE Simulate
    <3>1. pc \in Executing /\ stages' = stages /\ artifacts' = artifacts
        BY <2>8 DEF Simulate, InRun, Executing
    <3>2. PICK record : runs' = [runs EXCEPT ![Op.id] = record]
      <4>1. PICK status :
              runs' = [runs EXCEPT ![Op.id] = [@ EXCEPT ![ThisRun.id] = status]]
          BY <2>8 DEF Simulate
      <4>2. runs' = [runs EXCEPT ![Op.id] = [runs[Op.id] EXCEPT ![ThisRun.id] = status]]
          BY <4>1
      <4> QED BY <4>2
    <3> QED BY <1>1, <2>1, <3>1, <3>2 DEF EngineInv, TypeOK
  <2>9. CASE EndSimulation
      BY <2>2, <2>9 DEF EndSimulation, Executing
  <2>10. CASE RunValidation
    <3>1. CASE Raise("ManifestError")
        BY <2>3, <3>1
    <3>2. CASE UNCHANGED <<artifacts, runs>> /\ \E s : Record(s)
        BY <2>2, <2>10, <3>2 DEF RunValidation, Dispatching, Executing
    <3> QED BY <2>10, <3>1, <3>2 DEF RunValidation
  <2> QED BY <1>1, <2>4, <2>5, <2>6, <2>7, <2>8, <2>9, <2>10 DEF Next
<1>2. EngineInv /\ [Next]_vars =>
        [\A o \in OpIds : stages[o] # Unrecorded =>
           /\ stages'[o] = stages[o]
           /\ artifacts'[o] = artifacts[o]
           /\ runs'[o] = runs[o]]_vars
  BY <1>1
<1> QED BY <1>2, EngineInvariant, PTL DEF Spec, StagesAreFinal

-----------------------------------------------------------------------------
(* The engine implements PipelineContract. *)

Verdicts == [k \in 1..(pos - 1) |-> stages[ops[k].id]]

\* Functions with the same values are the same; a sequence is one.
LEMMA Extensionality ==
  \A S, T : \A a, b \in [S -> T] : (\A k \in S : a[k] = b[k]) => a = b
OBVIOUS

LEMMA SequenceIsFunction ==
  ASSUME NEW T, NEW s \in Seq(T), NEW n, n = Len(s)
  PROVE  s \in [1..n -> T]
OBVIOUS

LEMMA VerdictsAre ==
  ASSUME EngineInv
  PROVE  /\ Len(ops) \in Nat /\ pos \in Nat \ {0} /\ pos <= Len(ops) + 1
         /\ Verdicts \in Seq(Statuses) /\ Len(Verdicts) = pos - 1
         /\ DOMAIN Verdicts = 1..(pos - 1)
         /\ pc \in Executing \cup {"validate"} =>
              \A k \in 1..(pos - 1) : Verdicts[k] = "PASS"
<1>1. Len(ops) \in Nat /\ pos \in Nat \ {0} /\ pos <= Len(ops) + 1
  BY PipelinesAssumption DEF EngineInv, TypeOK, Control
<1>2. \A k \in 1..(pos - 1) : stages[ops[k].id] \in Statuses
  BY EarlierOps
<1>3. Verdicts \in [1..(pos - 1) -> Statuses] /\ pos - 1 \in Nat
  BY <1>1, <1>2 DEF Verdicts
<1>4. pc \in Executing \cup {"validate"} =>
        \A k \in 1..(pos - 1) : stages[ops[k].id] = "PASS"
  BY DEF EngineInv, StopsAtFailure, Executing
<1> QED BY <1>1, <1>3, <1>4 DEF Verdicts

\* Steps inside an operation are stutters of the contract.
LEMMA InsideStutters ==
  ASSUME UNCHANGED <<ops, pos, stages, result>>
  PROVE  UNCHANGED Contract!contractVars
BY DEF Contract!contractVars

LEMMA RaiseFails ==
  ASSUME EngineInv, pc \in Executing \cup {"validate"}, NEW e \in Exceptions, Raise(e)
  PROVE  Contract!Next
<1>1. result = "running" /\ result' \in Exceptions
  BY DEF Raise, EngineInv, Control, Executing
<1>2. Contract!Passing
  BY VerdictsAre DEF Contract!Passing, Verdicts
<1>3. ops' = ops /\ Verdicts' = Verdicts
  BY DEF Raise, Verdicts
<1>4. Contract!Fail
  BY <1>1, <1>2, <1>3 DEF Contract!Fail, Verdicts
<1> QED BY <1>4 DEF Contract!Next

LEMMA RecordDelivers ==
  ASSUME EngineInv, pc \in Executing, NEW status \in Statuses, Record(status),
         ops' = ops, result' = result
  PROVE  Contract!Next
<1>1. /\ pos \in 1..Len(ops) /\ pos' = pos + 1 /\ result = "running"
      /\ Op.id \in OpIds /\ Op.id \notin Ids(ops, pos - 1)
      /\ stages' = [stages EXCEPT ![Op.id] = status]
  BY CurrentIsNew, RecordStep DEF Record
<1>2. \A k \in 1..(pos - 1) : ops[k].id \in OpIds /\ ops[k].id # Op.id
  BY <1>1, EarlierOps
<1>3. Verdicts' = Append(Verdicts, status)
  <2>1. /\ Verdicts \in Seq(Statuses) /\ Len(Verdicts) = pos - 1
        /\ DOMAIN Verdicts = 1..(pos - 1) /\ pos \in Nat \ {0}
      BY VerdictsAre
  <2>2. Verdicts' = [k \in 1..pos |-> stages'[ops[k].id]]
      BY <1>1 DEF Verdicts
  <2>3. ASSUME NEW k \in 1..pos
        PROVE  Verdicts'[k] = Append(Verdicts, status)[k]
    <3>1. CASE k = pos
        BY <1>1, <2>1, <2>2, <3>1 DEF EngineInv, TypeOK, Op
    <3>2. CASE k \in 1..(pos - 1)
      <4>1. stages'[ops[k].id] = stages[ops[k].id]
          BY <1>1, <1>2, <3>2 DEF EngineInv, TypeOK
      <4>2. Verdicts'[k] = stages[ops[k].id] /\ Verdicts[k] = stages[ops[k].id]
          BY <2>2, <3>2, <4>1 DEF Verdicts
      <4>3. Append(Verdicts, status)[k] = Verdicts[k]
          BY <2>1, <3>2
      <4> QED BY <4>2, <4>3
    <3> QED BY <2>1, <3>1, <3>2
  <2>4. /\ Append(Verdicts, status) \in Seq(Statuses)
        /\ Len(Append(Verdicts, status)) = pos
        /\ DOMAIN Append(Verdicts, status) = 1..pos
      BY <1>1, <2>1
  <2>5. Append(Verdicts, status) \in [1..pos -> Statuses]
      BY <2>4, SequenceIsFunction
  <2>6. \A k \in 1..pos : stages'[ops[k].id] = Append(Verdicts, status)[k]
      BY <2>2, <2>3
  <2>7. Verdicts' \in [1..pos -> Statuses]
      BY <2>2, <2>5, <2>6
  <2>8. ASSUME NEW S, S = 1..pos
        PROVE  Verdicts' = Append(Verdicts, status)
    <3>1. /\ Verdicts' \in [S -> Statuses] /\ Append(Verdicts, status) \in [S -> Statuses]
          /\ \A k \in S : Verdicts'[k] = Append(Verdicts, status)[k]
        BY <2>3, <2>5, <2>7, <2>8
    <3> QED BY ONLY <3>1, Extensionality
  <2> QED BY <2>8
<1>4. Contract!Passing /\ Len(Verdicts) < Len(ops)
  BY <1>1, VerdictsAre DEF Contract!Passing, Verdicts
<1>5. Contract!Deliver
  BY <1>1, <1>3, <1>4 DEF Contract!Deliver, Verdicts
<1> QED BY <1>5 DEF Contract!Next

\* The result is the last verdict delivered.
LEMMA ReturnConcludes ==
  ASSUME EngineInv, VerdictInv, Return
  PROVE  Contract!Next
<1>1. /\ pos > 1 /\ result = "running" /\ result' = WorstStatus
      /\ ops' = ops /\ Verdicts' = Verdicts
      /\ pos = Len(ops) + 1 \/ stages[ops[pos - 1].id] # "PASS"
  BY DEF Return, EngineInv, Control, VerdictInv, Concluded, Verdicts
<1>2. pos - 1 \in 1..(pos - 1) /\ Len(Verdicts) = pos - 1 /\ pos \in Nat
  BY <1>1, VerdictsAre
<1>3. PICK last : last = stages[ops[pos - 1].id]
  OBVIOUS
<1>4. WorstStatus = last
  BY <1>1, <1>3, WorstIsLast
<1>6. Verdicts # << >> /\ Verdicts[Len(Verdicts)] = WorstStatus
  BY <1>1, <1>2, <1>3, <1>4, VerdictsAre DEF Verdicts
<1>7. ~Contract!Passing \/ Len(Verdicts) = Len(ops)
  <2>1. CASE pos = Len(ops) + 1
      BY <1>2, <2>1, VerdictsAre
  <2>2. CASE last # "PASS"
    <3>1. Verdicts[pos - 1] # "PASS" /\ pos - 1 \in DOMAIN Verdicts
        BY <1>2, <1>3, <2>2, VerdictsAre DEF Verdicts
    <3> QED BY <3>1 DEF Contract!Passing, Verdicts
  <2> QED BY <1>1, <1>3, <2>1, <2>2
<1>8. Contract!Conclude
  BY <1>1, <1>6, <1>7 DEF Contract!Conclude, Verdicts
<1> QED BY <1>8 DEF Contract!Next

\* Each step of the engine is a step of the contract, or none.
THEOREM EngineRefinesContract ==
  Spec => Contract!Init /\ [][Contract!Next]_(Contract!contractVars)
<1>1. Init => Contract!Init
  <2> SUFFICES ASSUME Init PROVE Contract!Init
      OBVIOUS
  <2>1. Len(ops) \in Nat
      BY PipelinesAssumption DEF Init
  <2>2. [k \in 1..(pos - 1) |-> stages[ops[k].id]] = << >>
      BY DEF Init
  <2> QED BY <2>1, <2>2 DEF Init, Contract!Init
<1>2. ASSUME EngineInv, VerdictInv, [Next]_vars
      PROVE  Contract!Next \/ UNCHANGED Contract!contractVars
  <2>1. CASE UNCHANGED vars
      BY <2>1, InsideStutters DEF vars
  <2>2. CASE Validate
      BY <1>2, <2>2, RaiseFails, InsideStutters DEF Validate, Exceptions
  <2>3. CASE StartTool
      BY <1>2, <2>3, RaiseFails, InsideStutters
         DEF StartTool, Dispatching, Executing, Exceptions
  <2>4. CASE FinishTool
    <3>1. pc \in Executing /\ ops' = ops /\ result' = result
        BY <2>4 DEF FinishTool, Executing
    <3>2. \E s \in Statuses : Record(s)
      <4>1. PICK exit \in Exits, files \in Leavings(Tools[Op.use]) :
              Record(Classify(exit, exit = "zero" /\ ArtifactOk(files)))
          BY <2>4 DEF FinishTool
      <4>2. Classify(exit, exit = "zero" /\ ArtifactOk(files)) \in Statuses
          BY ClassifyPass
      <4> QED BY <4>1, <4>2
    <3> QED BY <1>2, <3>1, <3>2, RecordDelivers
  <2>5. CASE StartSimulation
      BY <1>2, <2>5, RaiseFails, InsideStutters
         DEF StartSimulation, Dispatching, Executing, Exceptions
  <2>6. CASE Compile
    <3>1. pc \in Executing /\ ops' = ops /\ result' = result
        BY <2>6 DEF Compile, Executing
    <3>2. UNCHANGED <<pos, stages>> \/ \E s \in Statuses : Record(s)
      <4>1. PICK exit \in Exits, file \in FileStates :
              \/ UNCHANGED <<pos, stages>>
              \/ Record(Classify(exit, file # "missing"))
          BY <2>6 DEF Compile
      <4>2. Classify(exit, file # "missing") \in Statuses
          BY ClassifyPass
      <4> QED BY <4>1, <4>2
    <3> QED BY <1>2, <3>1, <3>2, RecordDelivers, InsideStutters
  <2>7. CASE RefuseRun
    <3>1. pc \in Executing /\ \E e \in Exceptions : Raise(e)
        BY <2>7 DEF RefuseRun, InRun, Executing, Exceptions
    <3> QED BY <1>2, <3>1, RaiseFails
  <2>8. CASE Simulate
      BY <2>8, InsideStutters DEF Simulate
  <2>9. CASE EndSimulation
    <3>1. /\ pc \in Executing /\ ops' = ops /\ result' = result
          /\ Record(worst) /\ worst \in Statuses
        BY <1>2, <2>9 DEF EndSimulation, Executing, EngineInv, TypeOK
    <3> QED BY <1>2, <3>1, RecordDelivers
  <2>10. CASE RunValidation
    <3>1. pc \in Executing
        BY <2>10 DEF RunValidation, Dispatching, Executing
    <3>2. CASE Raise("ManifestError")
        BY <1>2, <3>1, <3>2, RaiseFails DEF Exceptions
    <3>3. CASE \E s \in {"PASS", "FAIL"} : Record(s) /\ ops' = ops /\ result' = result
        BY <1>2, <3>1, <3>3, RecordDelivers DEF Statuses
    <3> QED BY <2>10, <3>2, <3>3 DEF RunValidation
  <2>11. CASE Return
      BY <1>2, <2>11, ReturnConcludes
  <2>12. CASE RunToolRaises
    <3>1. pc \in Executing /\ \E e \in Exceptions : Raise(e)
        BY <2>12 DEF RunToolRaises, InRun, Executing, Exceptions
    <3> QED BY <1>2, <3>1, RaiseFails
  <2> QED BY <1>2, <2>1, <2>2, <2>3, <2>4, <2>5, <2>6, <2>7, <2>8, <2>9, <2>10,
             <2>11, <2>12 DEF Next
<1>3. EngineInv /\ VerdictInv /\ [Next]_vars =>
        [Contract!Next]_(Contract!contractVars)
  BY <1>2
<1> QED BY <1>1, <1>3, EngineInvariant, VerdictInvariant, PTL DEF Spec

-----------------------------------------------------------------------------
(* The part of Terminates that needs no fairness.                            *)

\* A step either stays at its operation, in a later phase or a later run, or
\* records it and goes on.
LEMMA StepsAdvance ==
  ASSUME EngineInv, Next
  PROVE  Advance
<1>1. pos \in Nat /\ run \in Nat
  BY DEF EngineInv, TypeOK
<1>2. ASSUME pc \in Executing \cup {"validate"}, NEW e, Raise(e)
      PROVE  Advance
  BY <1>2 DEF Raise, Advance, Phase, Executing
<1>3. ASSUME ops' = ops, NEW s, Record(s)
      PROVE  Advance
  BY <1>1, <1>3 DEF Record, Advance
<1>4. CASE Validate
  BY <1>2, <1>4 DEF Validate, Advance, Phase
<1>5. CASE StartTool
  BY <1>2, <1>5 DEF StartTool, Dispatching, Executing, Advance, Phase
<1>6. CASE FinishTool
  BY <1>3, <1>6 DEF FinishTool
<1>7. CASE StartSimulation
  BY <1>2, <1>7 DEF StartSimulation, Dispatching, Executing, Advance, Phase
<1>8. CASE Compile
  <2>1. ops' = ops /\ pc = "compile"
      BY <1>8 DEF Compile
  <2>2. (pos' = pos /\ pc' = "run") \/ \E s : Record(s)
      BY <1>8 DEF Compile
  <2> QED BY <1>3, <2>1, <2>2 DEF Advance, Phase
<1>9. CASE RefuseRun
  BY <1>2, <1>9 DEF RefuseRun, InRun, Executing
<1>10. CASE Simulate
  BY <1>1, <1>10 DEF Simulate, InRun, Advance
<1>11. CASE EndSimulation
  BY <1>3, <1>11 DEF EndSimulation
<1>12. CASE RunValidation
  BY <1>2, <1>3, <1>12 DEF RunValidation, Dispatching, Executing
<1>13. CASE Return
  BY <1>13 DEF Return, Advance, Phase
<1>14. CASE RunToolRaises
  BY <1>2, <1>14 DEF RunToolRaises, InRun, Executing
<1> QED BY <1>4, <1>5, <1>6, <1>7, <1>8, <1>9, <1>10, <1>11, <1>12, <1>13, <1>14
        DEF Next

\* No run of a pipeline goes on for ever.
THEOREM PipelinesRunOut == Spec => StepsRunOut
<1>1. ASSUME EngineInv, VerdictInv
      PROVE  WithinBounds
  <2>1. ops \in Seq(Operation) /\ pos \in Nat \ {0} /\ run \in Nat /\ pos <= Len(ops) + 1
      BY <1>1, PipelinesAssumption DEF EngineInv, TypeOK, Control
  <2>2. pc = "run" => run >= 1 /\ run <= Len(Op.runs) + 1
      BY <1>1 DEF EngineInv, Control, VerdictInv, UnderWay
  <2>3. pc = "run" => Len(Op.runs) \in Nat
    <3>1. pc = "run" => Op \in Operation
        BY <1>1, CurrentIsNew DEF Executing
    <3> QED BY <3>1 DEF Operation
  <2> QED BY <2>1, <2>2, <2>3 DEF WithinBounds
<1>2. EngineInv /\ VerdictInv => WithinBounds
  BY <1>1
<1>3. EngineInv /\ [Next]_vars => [Advance]_vars
  BY StepsAdvance
<1> QED BY <1>2, <1>3, EngineInvariant, VerdictInvariant, PTL DEF Spec, StepsRunOut

=============================================================================
