----------------------- MODULE PipelineEngine_proofs -----------------------
(***************************************************************************)
(* Proofs about PipelineEngine, for every set of pipelines, registries and *)
(* toolchains: the inductive invariant EngineInv, and the safety           *)
(* properties that follow from it.                                         *)
(***************************************************************************)
EXTENDS PipelineEngine, TLAPS

\* A name tells which operation it is: the duplicate check of
\* validate_pipelines makes ids unique.
LEMMA UniqueIds ==
  ASSUME NEW p \in Seq(Operation), ValidPipeline(p),
         NEW i \in 1..Len(p), NEW j \in 1..Len(p), p[i].id = p[j].id
  PROVE  i = j
<1>1. \A m \in 1..Len(p), n \in 1..Len(p) : m < n => p[m].id # p[n].id
  <2> SUFFICES ASSUME NEW m \in 1..Len(p), NEW n \in 1..Len(p), m < n,
                      p[m].id = p[n].id
               PROVE  FALSE
      OBVIOUS
  <2>1. p[n].id \notin {p[k].id : k \in 1..(n - 1)}
      BY DEF ValidPipeline, ValidOperation, Ids
  <2> QED BY <2>1
<1> QED BY <1>1

\* The current operation, while there is one, is an operation.
LEMMA OpIsOperation ==
  ASSUME TypeOK, pos <= Len(ops)
  PROVE  /\ ops \in Seq(Operation) /\ pos \in 1..Len(ops)
         /\ Op \in Operation /\ Op.id \in OpIds
<1>1. ops \in Seq(Operation)
  BY PipelinesAssumption DEF TypeOK
<1>2. pos \in 1..Len(ops)
  BY <1>1 DEF TypeOK
<1>3. Op \in Operation
  BY <1>1, <1>2 DEF Op
<1> QED BY <1>1, <1>2, <1>3 DEF Operation

\* Whatever a tool leaves is a sequence of file conditions.
LEMMA LeavingsAreFiles ==
  ASSUME NEW tool, NEW files \in Leavings(tool)
  PROVE  files \in Seq(FileStates) /\ Len(files) \in Nat
<1>1. \A n \in Nat : \A f \in [1..n -> FileStates] : f \in Seq(FileStates)
  OBVIOUS
<1>2. \E n \in Nat : files \in [1..n -> FileStates]
  <2>1. CASE tool.glob
      <3>1. PICK n \in 0..MaxFiles : files \in [1..n -> FileStates \ {"missing"}]
          BY <2>1 DEF Leavings
      <3>2. n \in Nat /\ files \in [1..n -> FileStates]
          BY <3>1, PipelinesAssumption
      <3> QED BY <3>2
  <2>2. CASE ~tool.glob
      BY <2>2 DEF Leavings
  <2> QED BY <2>1, <2>2
<1> QED BY <1>1, <1>2

\* classify answers with a status, and PASS only for exit 0 over an artifact
\* that passed.
LEMMA ClassifyPass ==
  ASSUME NEW exit \in Exits, NEW ok \in BOOLEAN
  PROVE  /\ Classify(exit, ok) \in Statuses
         /\ Classify(exit, ok) = "PASS" => exit = "zero" /\ ok
BY DEF Classify, Exits, Statuses

\* The worst of the recorded statuses is one of them, and none is worse.
LEMMA WorstIsStatus ==
  ASSUME stages \in [OpIds -> Statuses \cup {Unrecorded}]
  PROVE  /\ WorstStatus \in Statuses
         /\ \A o \in OpIds : stages[o] # Unrecorded =>
              /\ Severity[WorstStatus] >= Severity[stages[o]]
              /\ \E w \in OpIds : stages[w] # Unrecorded /\ WorstStatus = stages[w]
<1> DEFINE R == Range(stages) \ {Unrecorded}
<1>1. R \subseteq Statuses
  BY DEF Range
<1>2. ASSUME R # {}
      PROVE  \E s \in R : \A t \in R : Severity[s] >= Severity[t]
  <2>1. \A s \in Statuses : Severity[s] \in Nat
      BY DEF Statuses, Severity
  <2>2. CASE "CRASH" \in R
      BY <2>2, <1>1 DEF Statuses, Severity
  <2>3. CASE "CRASH" \notin R /\ "FAIL" \in R
      BY <2>3, <1>1 DEF Statuses, Severity
  <2>4. CASE {"CRASH", "FAIL"} \cap R = {} /\ "TIMEOUT" \in R
      BY <2>4, <1>1 DEF Statuses, Severity
  <2>5. CASE {"CRASH", "FAIL", "TIMEOUT"} \cap R = {} /\ "CLEAN_REJECT" \in R
      BY <2>5, <1>1 DEF Statuses, Severity
  <2>6. CASE {"CRASH", "FAIL", "TIMEOUT", "CLEAN_REJECT"} \cap R = {}
      BY <2>6, <1>1, <1>2 DEF Statuses, Severity
  <2> QED BY <2>2, <2>3, <2>4, <2>5, <2>6
<1>3. CASE R = {}
  <2>1. \A o \in OpIds : stages[o] = Unrecorded
      BY <1>3 DEF Range
  <2>2. WorstStatus = "PASS"
      BY <1>3 DEF WorstStatus
  <2> QED BY <2>1, <2>2 DEF Statuses
<1>4. CASE R # {}
  <2> DEFINE Top(s) == \A t \in R : Severity[s] >= Severity[t]
  <2>1. \E s \in R : Top(s)
      BY <1>2, <1>4
  <2>2. (CHOOSE s \in R : Top(s)) \in R /\ Top(CHOOSE s \in R : Top(s))
      BY <2>1
  <2>3. WorstStatus = CHOOSE s \in R : Top(s)
      BY <1>4 DEF WorstStatus
  <2>4. WorstStatus \in R /\ \A t \in R : Severity[WorstStatus] >= Severity[t]
      BY <2>2, <2>3
  <2>5. \A o \in OpIds : stages[o] # Unrecorded => stages[o] \in R
      BY DEF Range
  <2>6. PICK w \in OpIds : stages[w] = WorstStatus /\ stages[w] # Unrecorded
      BY <2>4 DEF Range
  <2> HIDE DEF R
  <2> QED BY <2>4, <2>5, <2>6, <1>1
<1> QED BY <1>3, <1>4

-----------------------------------------------------------------------------
(* Recording a stage, the step four actions share. *)

LEMMA RecordStep ==
  ASSUME EngineInv, pc \in Executing, NEW status \in Statuses,
         Record(status), ops' = ops
  PROVE  /\ stages' \in [OpIds -> Statuses \cup {Unrecorded}]
         /\ pos' = pos + 1 /\ pos' \in Nat \ {0}
         /\ pos' <= Len(ops') + 1
         /\ pc' \in {"dispatch", "return"}
         /\ pc' = "dispatch" => pos' <= Len(ops')
         /\ PrefixRecorded' /\ StopsAtFailure'
         /\ Op.id \in OpIds
         /\ Op.id \notin Ids(ops, pos - 1)
         /\ Ids(ops', pos' - 1) = Ids(ops, pos - 1) \cup {Op.id}
<1>1. /\ TypeOK /\ pos <= Len(ops) /\ ValidPipeline(ops)
      /\ ops \in Seq(Operation) /\ pos \in 1..Len(ops) /\ Op.id \in OpIds
  BY OpIsOperation DEF EngineInv, Control
<1>2. /\ stages' = [stages EXCEPT ![Op.id] = status]
      /\ pos' = pos + 1
      /\ pc' = IF status # "PASS" \/ pos = Len(ops) THEN "return" ELSE "dispatch"
  BY DEF Record
<1>3. stages' \in [OpIds -> Statuses \cup {Unrecorded}]
  BY <1>1, <1>2 DEF TypeOK
<1>4. /\ pos' \in Nat \ {0} /\ pos' <= Len(ops') + 1
      /\ pc' \in {"dispatch", "return"}
      /\ pc' = "dispatch" => pos' <= Len(ops')
  BY <1>1, <1>2
<1>5. Op.id \notin Ids(ops, pos - 1)
  <2> SUFFICES ASSUME NEW j \in 1..(pos - 1), ops[j].id = ops[pos].id
               PROVE  FALSE
      BY DEF Ids, Op
  <2>1. j \in 1..Len(ops) /\ j # pos
      BY <1>1
  <2> QED BY <2>1, <1>1, UniqueIds
<1>6. Ids(ops', pos' - 1) = Ids(ops, pos - 1) \cup {Op.id}
  <2>1. 1..(pos' - 1) = 1..(pos - 1) \cup {pos}
      BY <1>1, <1>2
  <2> QED BY <2>1 DEF Ids, Op
<1>7. PrefixRecorded'
  <2> SUFFICES ASSUME NEW o \in OpIds
               PROVE  (stages'[o] # Unrecorded) <=> (o \in Ids(ops', pos' - 1))
      BY DEF PrefixRecorded
  <2>1. CASE o = Op.id
      <3>1. stages'[o] = status
          BY <2>1, <1>1, <1>2 DEF TypeOK
      <3>2. status # Unrecorded
          BY DEF Statuses, Unrecorded
      <3> QED BY <2>1, <3>1, <3>2, <1>6
  <2>2. CASE o # Op.id
      <3>1. stages'[o] = stages[o]
          BY <2>2, <1>1, <1>2 DEF TypeOK
      <3> QED BY <2>2, <3>1, <1>6 DEF EngineInv, PrefixRecorded
  <2> QED BY <2>1, <2>2
<1>8. StopsAtFailure'
  <2> SUFFICES ASSUME NEW k \in 1..(pos' - 1), stages'[ops[k].id] # "PASS"
               PROVE  k = pos' - 1 /\ pc' \in {"return", "done"}
      BY DEF StopsAtFailure
  <2>1. CASE k = pos
      <3>1. stages'[ops[k].id] = status
          BY <2>1, <1>1, <1>2 DEF TypeOK, Op
      <3> QED BY <2>1, <3>1, <1>1, <1>2
  <2>2. CASE k # pos
      <3>1. k \in 1..(pos - 1) /\ k \in 1..Len(ops)
          BY <2>2, <1>1, <1>2
      <3>2. ops[k].id # ops[pos].id
          BY <2>2, <3>1, <1>1, UniqueIds
      <3>3. ops[k].id \in OpIds
        <4>1. ops[k] \in Operation
            BY <3>1, <1>1
        <4> QED BY <4>1 DEF Operation
      <3>4. stages'[ops[k].id] = stages[ops[k].id]
          BY <3>2, <3>3, <1>1, <1>2 DEF TypeOK, Op
      <3>5. pc \in {"return", "done"}
          BY <3>1, <3>4 DEF EngineInv, StopsAtFailure
      <3> QED BY <3>5 DEF Executing
  <2> QED BY <2>1, <2>2
<1> QED BY <1>1, <1>2, <1>3, <1>4, <1>5, <1>6, <1>7, <1>8

LEMMA RecordControl ==
  ASSUME EngineInv, pc \in Executing, NEW status \in Statuses,
         Record(status), ops' = ops, result' = result
  PROVE  Control'
<1>1. pos' > 1 /\ ValidPipeline(ops) /\ result' = "running"
  BY RecordStep DEF EngineInv, TypeOK, Control, Executing
<1> QED BY <1>1, RecordStep DEF Control, Executing

\* Artifacts stay good when only the current operation, which is recorded in
\* the same step, left files.
LEMMA HandedOnStep ==
  ASSUME EngineInv, pc \in Executing, NEW status \in Statuses,
         Record(status), ops' = ops,
         NEW n, artifacts' = [artifacts EXCEPT ![Op.id] = n],
         NEW files, disk' = [disk EXCEPT ![Op.id] = files],
         n # 0 => /\ files # << >> /\ n = Len(files)
                  /\ \A i \in DOMAIN files : files[i] = "good"
  PROVE  HandedOnGood'
<1>1. /\ TypeOK /\ Op.id \in OpIds
      /\ Ids(ops', pos' - 1) = Ids(ops, pos - 1) \cup {Op.id}
  BY RecordStep DEF EngineInv
<1> SUFFICES ASSUME NEW o \in OpIds, artifacts'[o] # 0
             PROVE  Good(o)' /\ artifacts'[o] = Len(disk'[o]) /\ o \in Ids(ops', pos' - 1)
  BY DEF HandedOnGood
<1>2. CASE o = Op.id
  <2>1. artifacts'[o] = n /\ disk'[o] = files
      BY <1>1, <1>2 DEF TypeOK
  <2> QED BY <2>1, <1>1, <1>2 DEF Good
<1>3. CASE o # Op.id
  <2>1. artifacts'[o] = artifacts[o] /\ disk'[o] = disk[o]
      BY <1>1, <1>3 DEF TypeOK
  <2> QED BY <2>1, <1>1 DEF Good, EngineInv, HandedOnGood
<1> QED BY <1>2, <1>3

-----------------------------------------------------------------------------
(* The inductive invariant: initially, and one lemma per action. *)

LEMMA InitInv == Init => EngineInv
<1> SUFFICES ASSUME Init PROVE EngineInv
  OBVIOUS
<1> USE DEF Init
<1>1. TypeOK
  BY DEF TypeOK, Statuses, Contents
<1>2. Control
  <2>1. ops \in Seq(Operation)
      BY PipelinesAssumption
  <2> QED BY <2>1 DEF Control, Executing
<1>3. PrefixRecorded
  BY DEF PrefixRecorded, Ids
<1>4. StopsAtFailure /\ HandedOnGood
  BY DEF StopsAtFailure, HandedOnGood
<1> QED BY <1>1, <1>2, <1>3, <1>4 DEF EngineInv

LEMMA RaiseInv ==
  ASSUME EngineInv, NEW e \in Exceptions, Raise(e), pc \in Executing \cup {"validate"}
  PROVE  EngineInv'
<1> USE DEF EngineInv, Raise
<1>1. TypeOK'
  BY DEF TypeOK
<1>2. Control'
  BY DEF Control, Executing, Exceptions
<1>3. PrefixRecorded' /\ StopsAtFailure'
  BY DEF PrefixRecorded, StopsAtFailure, Executing
<1>4. HandedOnGood'
  BY DEF HandedOnGood, Good
<1> QED BY <1>1, <1>2, <1>3, <1>4

\* Steps that only move pc, with the rest of the dicts as they were.
LEMMA MoveInv ==
  ASSUME EngineInv, pc \in Executing \cup {"validate"}, pc' \in Executing,
         UNCHANGED <<ops, pos, stages, artifacts, disk>>, TypeOK', Control'
  PROVE  EngineInv'
BY DEF EngineInv, PrefixRecorded, StopsAtFailure, HandedOnGood, Good, Executing

LEMMA ValidateInv == EngineInv /\ Validate => EngineInv'
<1> SUFFICES ASSUME EngineInv, Validate PROVE EngineInv'
  OBVIOUS
<1>1. CASE Raise("ManifestError")
  BY <1>1, RaiseInv DEF Validate, Exceptions
<1>2. CASE /\ ValidPipeline(ops) /\ pc' = "dispatch"
           /\ UNCHANGED <<ops, installed, nsources, pos, stages, artifacts, disk,
                          runs, traces, run, worst, result>>
  <2>1. TypeOK'
      BY <1>2 DEF EngineInv, TypeOK
  <2>2. Control'
    <3>1. ops \in Seq(Operation)
        BY PipelinesAssumption DEF EngineInv, TypeOK
    <3>2. Len(ops) >= 1
        BY <1>2, <3>1 DEF ValidPipeline
    <3> QED BY <1>2, <3>1, <3>2 DEF Validate, EngineInv, Control, Executing, TypeOK
  <2> QED BY <1>2, <2>1, <2>2, MoveInv DEF Validate, Executing
<1> QED BY <1>1, <1>2 DEF Validate

LEMMA StartToolInv == EngineInv /\ StartTool => EngineInv'
<1> SUFFICES ASSUME EngineInv, StartTool PROVE EngineInv'
  OBVIOUS
<1>1. ASSUME NEW e \in {"ManifestError", "KeyError", "SystemExit"}, Raise(e)
      PROVE  EngineInv'
  BY <1>1, RaiseInv DEF StartTool, Dispatching, Executing, Exceptions
<1>2. CASE /\ pc' = "tool" /\ InputsResolve
           /\ UNCHANGED <<ops, installed, nsources, pos, stages, artifacts, disk,
                          runs, traces, run, worst, result>>
  <2>1. TypeOK'
      BY <1>2 DEF EngineInv, TypeOK
  <2>2. InputsResolve'
      BY <1>2 DEF InputsResolve, InputIds, InputsOf, Op
  <2>3. Control'
      BY <1>2, <2>2 DEF EngineInv, Control, StartTool, Dispatching, Executing
  <2> QED BY <1>2, <2>1, <2>3, MoveInv DEF StartTool, Dispatching, Executing
<1> QED BY <1>1, <1>2 DEF StartTool

LEMMA FinishToolInv == EngineInv /\ FinishTool => EngineInv'
<1> SUFFICES ASSUME EngineInv, FinishTool PROVE EngineInv'
  OBVIOUS
<1>1. PICK exit \in Exits, files \in Leavings(Tools[Op.use]) :
        LET ok == exit = "zero" /\ ArtifactOk(files) IN
        /\ disk' = [disk EXCEPT ![Op.id] = files]
        /\ artifacts' = [artifacts EXCEPT ![Op.id] = IF ok THEN Len(files) ELSE 0]
        /\ Record(Classify(exit, ok))
  BY DEF FinishTool
<1> DEFINE ok == exit = "zero" /\ ArtifactOk(files)
           status == Classify(exit, ok)
<1>2. /\ pc \in Executing /\ ops' = ops
      /\ UNCHANGED <<installed, nsources, runs, traces, run, worst, result>>
      /\ result = "running"
  BY DEF FinishTool, Executing, EngineInv, Control
<1>3. ok \in BOOLEAN /\ status \in Statuses
  BY ClassifyPass
<1>4. Record(status)
  BY <1>1
<1>5. files \in Seq(FileStates) /\ Len(files) \in Nat
  BY LeavingsAreFiles
<1>6. HandedOnGood'
  <2>1. ok => files # << >> /\ \A i \in DOMAIN files : files[i] = "good"
      BY <1>5 DEF ArtifactOk, CheckArtifact, FileStates
  <2>2. (IF ok THEN Len(files) ELSE 0) # 0 =>
          /\ files # << >> /\ (IF ok THEN Len(files) ELSE 0) = Len(files)
          /\ \A i \in DOMAIN files : files[i] = "good"
      BY <2>1
  <2> HIDE DEF ok, status
  <2> QED BY <1>1, <1>2, <1>3, <1>4, <2>2, HandedOnStep DEF ok
<1> HIDE DEF ok, status
<1>7. TypeOK'
  BY <1>1, <1>2, <1>3, <1>4, <1>5, RecordStep DEF EngineInv, TypeOK, ok
<1>8. Control'
  BY <1>2, <1>3, <1>4, RecordControl
<1> QED BY <1>2, <1>3, <1>4, <1>6, <1>7, <1>8, RecordStep DEF EngineInv

LEMMA StartSimulationInv == EngineInv /\ StartSimulation => EngineInv'
<1> SUFFICES ASSUME EngineInv, StartSimulation PROVE EngineInv'
  OBVIOUS
<1>1. ASSUME NEW e \in {"ManifestError", "SystemExit"}, Raise(e)
      PROVE  EngineInv'
  BY <1>1, RaiseInv DEF StartSimulation, Dispatching, Executing, Exceptions
<1>2. CASE /\ SourcesResolve /\ pc' \in {"run", "compile"}
           /\ run' = 1 /\ worst' = "PASS"
           /\ UNCHANGED <<ops, installed, nsources, pos, stages, artifacts, disk,
                          runs, traces, result>>
  <2>1. TypeOK'
      BY <1>2 DEF EngineInv, TypeOK, Statuses
  <2>2. SourcesResolve'
      BY <1>2 DEF SourcesResolve, Op
  <2>3. Control'
      BY <1>2, <2>2 DEF EngineInv, Control, StartSimulation, Dispatching, Executing
  <2> QED BY <1>2, <2>1, <2>3, MoveInv DEF StartSimulation, Dispatching, Executing
<1> QED BY <1>1, <1>2 DEF StartSimulation

LEMMA CompileInv == EngineInv /\ Compile => EngineInv'
<1> SUFFICES ASSUME EngineInv, Compile PROVE EngineInv'
  OBVIOUS
<1>1. PICK exit \in Exits, file \in FileStates :
        LET status == Classify(exit, file # "missing") IN
        /\ disk' = [disk EXCEPT ![Op.id] = <<file>>]
        /\ \/ status = "PASS" /\ pc' = "run" /\ UNCHANGED <<pos, stages>>
           \/ status # "PASS" /\ Record(status)
  BY DEF Compile
<1> DEFINE status == Classify(exit, file # "missing")
<1>2. /\ pc = "compile" /\ pc \in Executing
      /\ UNCHANGED <<ops, installed, nsources, artifacts, runs, traces, run, worst,
                     result>>
      /\ result = "running"
  BY DEF Compile, Executing, EngineInv, Control
<1>3. status \in Statuses
  BY ClassifyPass
<1>4. /\ Op.id \in OpIds /\ artifacts[Op.id] = 0
      /\ disk' \in [OpIds -> Seq(FileStates)]
  <2>1. TypeOK /\ pos \in 1..Len(ops) /\ Op.id \in OpIds
        /\ ops \in Seq(Operation) /\ ValidPipeline(ops)
      BY <1>2, OpIsOperation DEF EngineInv, Control
  <2>2. Op.id \notin Ids(ops, pos - 1)
    <3> SUFFICES ASSUME NEW j \in 1..(pos - 1), ops[j].id = ops[pos].id
                 PROVE  FALSE
        BY DEF Ids, Op
    <3>1. j \in 1..Len(ops) /\ j # pos
        BY <2>1
    <3> QED BY <3>1, <2>1, UniqueIds
  <2> QED BY <2>1, <2>2, <1>1 DEF EngineInv, HandedOnGood, TypeOK
<1>5. ASSUME pos' \in Nat, pos' >= pos
      PROVE  HandedOnGood'
  <2> SUFFICES ASSUME NEW o \in OpIds, artifacts[o] # 0
               PROVE  /\ Good(o)' /\ artifacts'[o] = Len(disk'[o])
                      /\ o \in Ids(ops, pos' - 1)
      BY <1>2 DEF HandedOnGood
  <2>1. /\ Good(o) /\ o \in Ids(ops, pos - 1) /\ o # Op.id
        /\ artifacts[o] = Len(disk[o])
      BY <1>4 DEF EngineInv, HandedOnGood
  <2>2. disk'[o] = disk[o]
      BY <2>1, <1>1, <1>4 DEF EngineInv, TypeOK
  <2>3. Ids(ops, pos - 1) \subseteq Ids(ops, pos' - 1)
    <3>1. \A m \in Nat, n \in Nat : n >= m => Ids(ops, m - 1) \subseteq Ids(ops, n - 1)
        BY DEF Ids
    <3>2. pos \in Nat
        BY DEF EngineInv, TypeOK
    <3> QED BY <1>5, <3>1, <3>2
  <2> QED BY <1>2, <2>1, <2>2, <2>3 DEF Good
<1>6. CASE pc' = "run" /\ UNCHANGED <<pos, stages>>
  <2>1. TypeOK'
      BY <1>2, <1>4, <1>6 DEF EngineInv, TypeOK
  <2>2. SourcesResolve'
      BY <1>2, <1>6 DEF EngineInv, Control, SourcesResolve, Op
  <2>3. Control'
      BY <1>2, <1>6, <2>2 DEF EngineInv, Control, Executing
  <2>4. PrefixRecorded' /\ StopsAtFailure'
      BY <1>2, <1>6 DEF EngineInv, PrefixRecorded, StopsAtFailure
  <2> QED BY <1>5, <1>6, <2>1, <2>3, <2>4 DEF EngineInv, TypeOK
<1>7. CASE Record(status)
  <2> HIDE DEF status
  <2>1. TypeOK'
      BY <1>2, <1>3, <1>4, <1>7, RecordStep DEF EngineInv, TypeOK
  <2>2. Control'
      BY <1>2, <1>3, <1>7, RecordControl
  <2>3. HandedOnGood'
      BY <1>2, <1>3, <1>5, <1>7, RecordStep DEF EngineInv, TypeOK
  <2> QED BY <1>2, <1>3, <1>7, <2>1, <2>2, <2>3, RecordStep DEF EngineInv
<1> QED BY <1>1, <1>6, <1>7

LEMMA RefuseRunInv == EngineInv /\ RefuseRun => EngineInv'
<1> SUFFICES ASSUME EngineInv, RefuseRun PROVE EngineInv'
  OBVIOUS
<1>1. \E e \in Exceptions : Raise(e)
  BY DEF RefuseRun, Exceptions
<1>2. pc \in Executing
  BY DEF RefuseRun, InRun, Executing
<1> QED BY <1>1, <1>2, RaiseInv

LEMMA RunToolRaisesInv == EngineInv /\ RunToolRaises => EngineInv'
<1> SUFFICES ASSUME EngineInv, RunToolRaises PROVE EngineInv'
  OBVIOUS
<1>1. \E e \in Exceptions : Raise(e)
  BY DEF RunToolRaises, Exceptions
<1>2. pc \in Executing
  BY DEF RunToolRaises, InRun, Executing
<1> QED BY <1>1, <1>2, RaiseInv

LEMMA SimulateInv == EngineInv /\ Simulate => EngineInv'
<1> SUFFICES ASSUME EngineInv, Simulate PROVE EngineInv'
  OBVIOUS
<1>1. PICK exit \in Exits, written \in Written :
        LET trace == TraceAfter(written)
            status == Classify(exit, trace # "missing") IN
        /\ runs' = [runs EXCEPT ![Op.id] = [@ EXCEPT ![ThisRun.id] = status]]
        /\ traces' = [traces EXCEPT ![Op.id] = [@ EXCEPT ![ThisRun.id] = trace]]
        /\ worst' = IF status # "PASS" THEN status ELSE worst
  BY DEF Simulate
<1> DEFINE trace == TraceAfter(written)
           status == Classify(exit, trace # "missing")
<1>2. /\ pc = "run" /\ pc \in Executing /\ run' = run + 1 /\ run \in 1..Len(Op.runs)
      /\ UNCHANGED <<ops, installed, nsources, pc, pos, stages, artifacts, disk, result>>
  <2>1. pc = "run" /\ run \in Nat /\ run >= 1 /\ run <= Len(Op.runs)
      BY DEF Simulate, InRun, EngineInv, Control, TypeOK
  <2>2. Len(Op.runs) \in Nat
    <3>1. Op \in Operation
        BY <2>1, OpIsOperation DEF EngineInv, Control, Executing
    <3> QED BY <3>1 DEF Operation
  <2> QED BY <2>1, <2>2 DEF Simulate, Executing
<1>3. status \in Statuses
  BY ClassifyPass
<1>4. Op.id \in OpIds /\ ThisRun.id \in RunIds
  <2>1. Op \in Operation /\ Op.id \in OpIds
      BY <1>2, OpIsOperation DEF EngineInv, Control
  <2>2. ThisRun \in Run
      BY <1>2, <2>1 DEF Operation, ThisRun
  <2> QED BY <2>1, <2>2 DEF Run
<1>5. trace \in Contents
  <2>1. traces[Op.id][ThisRun.id] \in Contents
      BY <1>4 DEF EngineInv, TypeOK
  <2> QED BY <2>1 DEF TraceAfter, Written, Contents
<1> HIDE DEF status, trace
<1>6. TypeOK'
  <2>1. runs' \in [OpIds -> [RunIds -> Statuses \cup {Unrecorded}]]
      BY <1>1, <1>3 DEF EngineInv, TypeOK, status, trace
  <2>2. traces' \in [OpIds -> [RunIds -> Contents]]
      BY <1>1, <1>5 DEF EngineInv, TypeOK, trace
  <2>3. worst' \in Statuses
      BY <1>1, <1>3 DEF EngineInv, TypeOK, status, trace
  <2> QED BY <2>1, <2>2, <2>3, <1>2 DEF EngineInv, TypeOK
<1>7. Control'
  <2>1. SourcesResolve'
      BY <1>2 DEF EngineInv, Control, SourcesResolve, Op
  <2> QED BY <1>2, <2>1 DEF EngineInv, Control, TypeOK
<1> QED BY <1>2, <1>6, <1>7, MoveInv

LEMMA EndSimulationInv == EngineInv /\ EndSimulation => EngineInv'
<1> SUFFICES ASSUME EngineInv, EndSimulation PROVE EngineInv'
  OBVIOUS
<1>1. /\ pc \in Executing /\ Record(worst) /\ worst \in Statuses
      /\ UNCHANGED <<ops, installed, nsources, artifacts, disk, runs, traces, run,
                     worst, result>>
  BY DEF EndSimulation, Executing, EngineInv, TypeOK
<1>2. TypeOK'
  BY <1>1, RecordStep DEF EngineInv, TypeOK
<1>3. Control'
  BY <1>1, RecordControl
<1>4. HandedOnGood'
  BY <1>1, RecordStep DEF EngineInv, HandedOnGood, Good
<1> QED BY <1>1, <1>2, <1>3, <1>4, RecordStep DEF EngineInv

LEMMA RunValidationInv == EngineInv /\ RunValidation => EngineInv'
<1> SUFFICES ASSUME EngineInv, RunValidation PROVE EngineInv'
  OBVIOUS
<1>1. pc \in Executing
  BY DEF RunValidation, Dispatching, Executing
<1>2. CASE Raise("ManifestError")
  BY <1>1, <1>2, RaiseInv DEF Exceptions
<1>3. ASSUME NEW status \in {"PASS", "FAIL"}, Record(status),
             UNCHANGED <<ops, installed, nsources, artifacts, disk, runs, traces,
                         run, worst, result>>
      PROVE  EngineInv'
  <2>1. status \in Statuses
      BY DEF Statuses
  <2>2. TypeOK'
      BY <1>1, <1>3, <2>1, RecordStep DEF EngineInv, TypeOK
  <2>3. Control'
      BY <1>1, <1>3, <2>1, RecordControl
  <2>4. HandedOnGood'
      BY <1>1, <1>3, <2>1, RecordStep DEF EngineInv, HandedOnGood, Good
  <2> QED BY <1>1, <1>3, <2>1, <2>2, <2>3, <2>4, RecordStep DEF EngineInv
<1> QED BY <1>2, <1>3 DEF RunValidation

LEMMA ReturnInv == EngineInv /\ Return => EngineInv'
<1> SUFFICES ASSUME EngineInv, Return PROVE EngineInv'
  OBVIOUS
<1> USE DEF Return
<1>1. WorstStatus \in Statuses
  BY WorstIsStatus DEF EngineInv, TypeOK
<1>2. TypeOK'
  BY <1>1 DEF EngineInv, TypeOK
<1>3. Control'
  BY <1>1 DEF EngineInv, Control, Executing, Statuses
<1>4. PrefixRecorded' /\ StopsAtFailure' /\ HandedOnGood'
  BY DEF EngineInv, PrefixRecorded, StopsAtFailure, HandedOnGood, Good
<1> QED BY <1>2, <1>3, <1>4 DEF EngineInv

-----------------------------------------------------------------------------
(* The theorems. *)

\* EngineInv holds in every state of every run of every pipeline.
THEOREM EngineInvariant == Spec => []EngineInv
<1>1. Init => EngineInv
  BY InitInv
<1>2. EngineInv /\ [Next]_vars => EngineInv'
  <2> SUFFICES ASSUME EngineInv, [Next]_vars PROVE EngineInv'
      OBVIOUS
  <2>1. CASE UNCHANGED vars
      BY <2>1 DEF vars, EngineInv, TypeOK, Control, PrefixRecorded, StopsAtFailure,
                  HandedOnGood, Good, InputsResolve, InputIds, InputsOf,
                  SourcesResolve, Op
  <2>2. CASE Next
      BY <2>2, ValidateInv, StartToolInv, FinishToolInv, StartSimulationInv,
         CompileInv, RefuseRunInv, SimulateInv, EndSimulationInv, RunToolRaisesInv,
         RunValidationInv, ReturnInv DEF Next
  <2> QED BY <2>1, <2>2
<1> QED BY <1>1, <1>2, PTL DEF Spec

\* Type correctness of the engine's state.
THEOREM TypeCorrectness == Spec => []TypeOK
<1>1. EngineInv => TypeOK
  BY DEF EngineInv
<1> QED BY <1>1, EngineInvariant, PTL

\* No tool and no simulator is ever handed a file that is missing, a directory or
\* empty, whatever the tools before it did and left behind.
THEOREM RejectedArtifactsAreNeverConsumed == Spec => []RejectedNeverConsumed
<1>1. ASSUME EngineInv, pc = "tool", NEW o \in InputIds
      PROVE  Good(o)
  <2>1. o \in OpIds
    <3>1. TypeOK /\ pos <= Len(ops) /\ ops \in Seq(Operation) /\ pos \in 1..Len(ops)
          /\ Op \in Operation
        BY <1>1, OpIsOperation DEF EngineInv, Control, Executing
    <3>2. CASE Op.inputs # << >>
        BY <1>1, <3>1, <3>2 DEF InputIds, InputsOf, Op, Range, Operation
    <3>3. CASE Op.inputs = << >> /\ pos # 1
      <4>1. ops[pos - 1] \in Operation
          BY <3>1, <3>3
      <4> QED BY <1>1, <4>1, <3>3 DEF InputIds, InputsOf, Op, Operation
    <3>4. CASE Op.inputs = << >> /\ pos = 1
        BY <1>1, <3>4 DEF InputIds, InputsOf, Op
    <3> QED BY <3>2, <3>3, <3>4
  <2>2. artifacts[o] # 0
      BY <1>1 DEF EngineInv, Control, InputsResolve
  <2> QED BY <1>1, <2>1, <2>2 DEF EngineInv, HandedOnGood
<1>2. ASSUME EngineInv, pc \in {"compile", "run"}, NEW o \in Range(Op.sources)
      PROVE  Good(o)
  <2>1. o \in OpIds
    <3>1. Op \in Operation
        BY <1>2, OpIsOperation DEF EngineInv, Control, Executing
    <3> QED BY <1>2, <3>1 DEF Range, Operation
  <2>2. artifacts[o] # 0
      BY <1>2 DEF EngineInv, Control, SourcesResolve
  <2> QED BY <1>2, <2>1, <2>2 DEF EngineInv, HandedOnGood
<1>3. EngineInv => RejectedNeverConsumed
  BY <1>1, <1>2 DEF RejectedNeverConsumed
<1> QED BY <1>3, EngineInvariant, PTL

\* The recorded operations are those before the current one.
LEMMA RecordedArePast ==
  ASSUME EngineInv
  PROVE  Recorded = 1..(pos - 1) /\ FailureStopsPipeline
<1>1. /\ ops \in Seq(Operation) /\ pos \in Nat \ {0} /\ pos <= Len(ops) + 1
      /\ Len(ops) \in Nat
    BY PipelinesAssumption DEF EngineInv, TypeOK, Control
<1>2. \A k \in 1..Len(ops) : ops[k].id \in OpIds
  <2> TAKE k \in 1..Len(ops)
  <2>1. ops[k] \in Operation
      BY <1>1
  <2> QED BY <2>1 DEF Operation
<1>3. ASSUME NEW k \in 1..(pos - 1)
      PROVE  k \in Recorded
  <2>1. k \in 1..Len(ops) /\ ops[k].id \in Ids(ops, pos - 1)
      BY <1>1 DEF Ids
  <2> QED BY <2>1, <1>2 DEF Recorded, EngineInv, PrefixRecorded
<1>4. ASSUME NEW k \in Recorded
      PROVE  k \in 1..(pos - 1)
  <2>1. k \in 1..Len(ops) /\ ops[k].id \in Ids(ops, pos - 1)
      BY <1>2 DEF Recorded, EngineInv, PrefixRecorded
  <2>2. PICK j \in 1..(pos - 1) : ops[j].id = ops[k].id
      BY <2>1 DEF Ids
  <2>3. j \in 1..Len(ops) /\ ValidPipeline(ops)
      BY <1>1, <2>2 DEF EngineInv, Control
  <2>4. j = k
      BY <1>1, <2>1, <2>2, <2>3, UniqueIds
  <2> QED BY <2>2, <2>4
<1>5. Recorded = 1..(pos - 1)
    BY <1>3, <1>4
<1> QED BY <1>5 DEF FailureStopsPipeline, EngineInv, StopsAtFailure

\* The recorded stages are a prefix of the pipeline, and only the last of them
\* may be other than PASS.
THEOREM NothingRunsAfterAFailure == Spec => []FailureStopsPipeline
<1>1. EngineInv => FailureStopsPipeline
  BY RecordedArePast
<1> QED BY <1>1, EngineInvariant, PTL

=============================================================================
