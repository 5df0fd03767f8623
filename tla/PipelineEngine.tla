--------------------------- MODULE PipelineEngine ---------------------------
(***************************************************************************)
(* scripts/pipeline_engine.py: run_pipeline executes the operations of one *)
(* pipeline strictly in order and stops at the first that does not PASS.   *)
(* scripts/simulation.py and scripts/validators.py execute two of the      *)
(* three kinds of operation, scripts/toolchain_classify.py classifies what *)
(* a subprocess did.                                                       *)
(*                                                                         *)
(* The tools themselves are the environment: a subprocess may exit in any  *)
(* way, time out, and leave any files behind, whatever its exit code.      *)
(* Control follows the code; a file is only its condition on disk, a trace *)
(* only its list of lines up to equality.                                  *)
(***************************************************************************)
EXTENDS ManifestSchema

CONSTANTS
  Pipelines,    \* the operation lists run_pipeline may be asked to execute
  Tools,        \* tools.yaml: name -> [single, glob, binary]
  Simulators,   \* simulators.yaml: name -> [compile, run], binaries; compile may be NoName
  Validators,   \* validators.yaml: name -> impl
  Installations,\* the sets of binaries find_tool may be able to locate
  SourceCounts, \* how many source files a design may have
  MaxFiles,     \* BOUND on the files one glob artifact matches
  Lines,        \* trace contents other than the empty one
  Golden        \* the content of a checked-in expected trace

ASSUME PipelinesAssumption ==
  /\ Pipelines \subseteq Seq(Operation)
  /\ \A u \in DOMAIN Tools : Tools[u].single \in BOOLEAN /\ Tools[u].glob \in BOOLEAN
  /\ MaxFiles \in Nat
  /\ SourceCounts \subseteq Nat \ {0}
  /\ Golden \in Lines /\ Lines \cap {"missing", "empty", "nothing"} = {}

VARIABLES
  ops,        \* the operations of the pipeline being run
  installed,  \* binaries find_tool can locate
  nsources,   \* number of source files of the design
  pc,         \* where run_pipeline is
  pos,        \* index of the current operation
  stages,     \* op id -> recorded status
  artifacts,  \* op id -> number of files handed on; 0 is None
  disk,       \* op id -> condition of the files the operation left on disk
  runs,       \* op id -> run id -> recorded status of that run
  traces,     \* op id -> run id -> content of the run's trace file
  run,        \* index of the current simulation run
  worst,      \* run_simulation's `worst`
  result      \* "running", the overall status returned, or the exception raised

vars == <<ops, installed, nsources, pc, pos, stages, artifacts, disk, runs, traces,
          run, worst, result>>

-----------------------------------------------------------------------------
Statuses == {"PASS", "CLEAN_REJECT", "TIMEOUT", "FAIL", "CRASH"}
Severity == [PASS |-> 0, CLEAN_REJECT |-> 1, TIMEOUT |-> 2, FAIL |-> 3, CRASH |-> 4]
Exceptions == {"ManifestError", "KeyError", "SystemExit", "ValueError", "OSError"}
Unrecorded == "unrecorded"

FileStates == {"missing", "dir", "empty", "good"}
Contents == {"missing", "empty"} \cup Lines

\* How a subprocess ends: run_tool's timed_out, exit 0, a negative return code,
\* or a nonzero one with or without a known rejection message on stderr.
Exits == {"timeout", "zero", "signal", "reject", "error"}

Classify(exit, artifactOk) ==
  CASE exit = "timeout" -> "TIMEOUT"
    [] exit = "zero"    -> IF artifactOk THEN "PASS" ELSE "CRASH"
    [] exit = "reject"  -> "CLEAN_REJECT"
    [] OTHER            -> "CRASH"

\* MUTANT: existence alone is taken to be enough.
CheckArtifact_ExistsOnly(file) == file \notin {"missing", "dir"}

CheckArtifact(file) == file \notin {"missing", "dir", "empty"}

\* MUTANT: only the first file the glob matched is checked.
ArtifactOk_FirstOnly(files) == files # << >> /\ CheckArtifact(files[1])

\* resolve_artifacts and the loop over what it names: a glob that matches
\* nothing is an error, and every file has to stand on its own.
ArtifactOk(files) ==
  /\ files # << >>
  /\ \A i \in DOMAIN files : CheckArtifact(files[i])

\* What a tool can leave where its artifact is declared.  A glob matches only
\* files that exist; a plain path names one file that may not.
Leavings(tool) ==
  IF tool.glob
  THEN UNION {[1..n -> FileStates \ {"missing"}] : n \in 0..MaxFiles}
  ELSE [1..1 -> FileStates]

Op == ops[pos]
Simulated == {ops[k].id : k \in {j \in 1..(pos - 1) : ops[j].kind = "simulation"}}

-----------------------------------------------------------------------------
Init ==
  /\ ops \in Pipelines
  /\ installed \in Installations
  /\ nsources \in SourceCounts
  /\ pc = "validate"
  /\ pos = 1
  /\ stages = [o \in OpIds |-> Unrecorded]
  /\ artifacts = [o \in OpIds |-> 0]
  /\ disk = [o \in OpIds |-> << >>]
  /\ runs = [o \in OpIds |-> [r \in RunIds |-> Unrecorded]]
  /\ traces = [o \in OpIds |-> [r \in RunIds |-> "missing"]]
  /\ run = 0
  /\ worst = "PASS"
  /\ result = "running"

\* An exception leaves run_pipeline with nothing returned.
Raise(exception) ==
  /\ pc' = "done"
  /\ result' = exception
  /\ UNCHANGED <<ops, installed, nsources, pos, stages, artifacts, disk, runs, traces,
                 run, worst>>

\* MUTANT: the loop goes on after a failure.
Record_NoBreak(status) ==
  /\ stages' = [stages EXCEPT ![Op.id] = status]
  /\ pos' = pos + 1
  /\ pc' = IF pos = Len(ops) THEN "return" ELSE "dispatch"

\* stages[op_id] = record; previous_id = op_id; break unless PASS.
Record(status) ==
  /\ stages' = [stages EXCEPT ![Op.id] = status]
  /\ pos' = pos + 1
  /\ pc' = IF status # "PASS" \/ pos = Len(ops) THEN "return" ELSE "dispatch"

\* validate_pipelines runs before anything is executed.
Validate ==
  /\ pc = "validate"
  /\ \/ /\ ~ValidPipeline(ops)
        /\ Raise("ManifestError")
     \/ /\ ValidPipeline(ops)
        /\ pc' = "dispatch"
        /\ UNCHANGED <<ops, installed, nsources, pos, stages, artifacts, disk, runs,
                       traces, run, worst, result>>

Dispatching(kind) == pc = "dispatch" /\ Op.kind = kind

-----------------------------------------------------------------------------
(* Tool operations: resolve_inputs and run_step. *)

\* The operations whose artifacts the k-th consumes: the named ones, or its
\* predecessor, or (first operation) none but the design's sources.
InputsOf(k) ==
  IF ops[k].inputs # << >> THEN Range(ops[k].inputs)
  ELSE IF k = 1 THEN {} ELSE {ops[k - 1].id}
InputIds == InputsOf(pos)

InputsResolve == \A o \in InputIds : artifacts[o] # 0

\* MUTANT: the operations named are counted, and not the files they left.
OneInput_PerOperation == Len(Op.inputs) < 2 /\ (InputIds = {} => nsources = 1)

\* len(inputs) = 1, for inputs that resolve.
OneInput ==
  /\ Len(Op.inputs) < 2
  /\ \A o \in InputIds : artifacts[o] = 1
  /\ InputIds = {} => nsources = 1

StartTool ==
  /\ Dispatching("tool")
  /\ \/ ~InputsResolve /\ Raise("ManifestError")
     \/ InputsResolve /\ Op.use \notin DOMAIN Tools /\ Raise("KeyError")
     \/ /\ InputsResolve /\ Op.use \in DOMAIN Tools
        /\ \/ Tools[Op.use].single /\ ~OneInput /\ Raise("ManifestError")
           \/ /\ Tools[Op.use].single => OneInput
              /\ Tools[Op.use].binary \notin installed
              /\ Raise("SystemExit")
           \/ /\ Tools[Op.use].single => OneInput
              /\ Tools[Op.use].binary \in installed
              /\ pc' = "tool"
              /\ UNCHANGED <<ops, installed, nsources, pos, stages, artifacts, disk, runs,
                             traces, run, worst, result>>

\* The tool ends, and its artifact is handed on only when it passed the check.
FinishTool ==
  /\ pc = "tool"
  /\ \E exit \in Exits, files \in Leavings(Tools[Op.use]) :
       LET ok == exit = "zero" /\ ArtifactOk(files) IN
       /\ disk' = [disk EXCEPT ![Op.id] = files]
       /\ artifacts' = [artifacts EXCEPT ![Op.id] = IF ok THEN Len(files) ELSE 0]
       /\ Record(Classify(exit, ok))
  /\ UNCHANGED <<ops, installed, nsources, runs, traces, run, worst, result>>

-----------------------------------------------------------------------------
(* Simulation operations: run_simulation. *)

SourcesResolve == \A o \in Range(Op.sources) : artifacts[o] # 0

\* MUTANT: `worst` starts as None.
StartSimulation_NoWorst ==
  /\ Dispatching("simulation")
  /\ Op.provided /\ Op.use \in DOMAIN Simulators /\ SourcesResolve
  /\ pc' = "run" /\ run' = 1 /\ worst' = Unrecorded
  /\ UNCHANGED <<ops, installed, nsources, pos, stages, artifacts, disk, runs,
                 traces, result>>

StartSimulation ==
  /\ Dispatching("simulation")
  /\ \/ /\ \/ ~Op.provided
           \/ Op.use \notin DOMAIN Simulators
           \/ ~SourcesResolve
        /\ Raise("ManifestError")
     \/ /\ Op.provided /\ Op.use \in DOMAIN Simulators /\ SourcesResolve
        /\ \/ /\ Simulators[Op.use].compile \notin installed \cup {NoName}
              /\ Raise("SystemExit")
           \/ /\ Simulators[Op.use].compile \in installed \cup {NoName}
              /\ pc' = IF Simulators[Op.use].compile = NoName THEN "run" ELSE "compile"
              /\ run' = 1
              /\ worst' = "PASS"
              /\ UNCHANGED <<ops, installed, nsources, pos, stages, artifacts, disk, runs,
                             traces, result>>

\* One compilation; its output has to exist, and is not looked into.
Compile ==
  /\ pc = "compile"
  /\ \E exit \in Exits, file \in FileStates :
       LET status == Classify(exit, file # "missing") IN
       /\ disk' = [disk EXCEPT ![Op.id] = <<file>>]
       /\ \/ /\ status = "PASS"
             /\ pc' = "run"
             /\ UNCHANGED <<pos, stages>>
          \/ /\ status # "PASS"
             /\ Record(status)
  /\ UNCHANGED <<ops, installed, nsources, artifacts, runs, traces, run, worst, result>>

InRun == pc = "run" /\ run <= Len(Op.runs)
ThisRun == Op.runs[run]

\* resolve_params and resolve_record: a lookup reads the JSON artifact of an
\* earlier operation, which must be one file, one matching record, valid JSON.
LookupResolves == ThisRun.lookup # NoName => artifacts[ThisRun.lookup] = 1

RefuseRun ==
  /\ InRun
  /\ \/ ~LookupResolves /\ Raise("ManifestError")
     \/ /\ LookupResolves /\ ThisRun.lookup # NoName
        /\ \E document \in {"ambiguous", "malformed"} :
             Raise(IF document = "ambiguous" THEN "ManifestError" ELSE "ValueError")
     \/ /\ LookupResolves
        /\ Simulators[Op.use].run \notin installed
        /\ Raise("SystemExit")

\* A simulator that writes no trace leaves the file as it was: in a new run
\* directory there is none, under a repeated run id the earlier run's.
Written == {"nothing", "empty"} \cup Lines
TraceAfter(written) ==
  IF written = "nothing" THEN traces[Op.id][ThisRun.id] ELSE written

\* MUTANTS: `worst` is overwritten by a later PASS, the trace is not looked for,
\* a run that fails is tried again.
Simulate_(Worst(_), Present(_), NextRun(_)) ==
  /\ InRun /\ LookupResolves
  /\ \E exit \in Exits, written \in Written :
       LET trace == TraceAfter(written)
           status == Classify(exit, Present(trace)) IN
       /\ runs' = [runs EXCEPT ![Op.id] = [@ EXCEPT ![ThisRun.id] = status]]
       /\ traces' = [traces EXCEPT ![Op.id] = [@ EXCEPT ![ThisRun.id] = trace]]
       /\ worst' = Worst(status)
       /\ run' = NextRun(status)
  /\ UNCHANGED <<ops, installed, nsources, pc, pos, stages, artifacts, disk, result>>
KeepFailure(status) == IF status # "PASS" THEN status ELSE worst
Exists(trace) == trace # "missing"
Simulate_LastStatus ==
  Simulate_(LAMBDA s : s, Exists, LAMBDA s : run + 1)
Simulate_NoTraceCheck ==
  Simulate_(KeepFailure, LAMBDA t : TRUE, LAMBDA s : run + 1)
Simulate_Retry ==
  Simulate_(KeepFailure, Exists, LAMBDA s : IF s = "PASS" THEN run + 1 ELSE run)

\* One run of the compiled artifact.  `worst` keeps the last non-PASS.
Simulate ==
  /\ InRun
  /\ LookupResolves
  /\ Simulators[Op.use].run \in installed
  /\ \E exit \in Exits, written \in Written :
       LET trace == TraceAfter(written)
           status == Classify(exit, trace # "missing") IN
       /\ runs' = [runs EXCEPT ![Op.id] = [@ EXCEPT ![ThisRun.id] = status]]
       /\ traces' = [traces EXCEPT ![Op.id] = [@ EXCEPT ![ThisRun.id] = trace]]
       /\ worst' = IF status # "PASS" THEN status ELSE worst
  /\ run' = run + 1
  /\ UNCHANGED <<ops, installed, nsources, pc, pos, stages, artifacts, disk, result>>

\* run_tool catches a timeout and nothing else: a binary that cannot be executed
\* raises OSError, output that is not text a UnicodeDecodeError, a ValueError.
\* Whatever was written by then is read by nobody.
RunToolRaises ==
  /\ \/ pc \in {"tool", "compile"}
     \/ InRun /\ LookupResolves /\ Simulators[Op.use].run \in installed
  /\ \E exception \in {"OSError", "ValueError"} : Raise(exception)

EndSimulation ==
  /\ pc = "run" /\ run > Len(Op.runs)
  /\ Record(worst)
  /\ UNCHANGED <<ops, installed, nsources, artifacts, disk, runs, traces, run, worst, result>>

-----------------------------------------------------------------------------
(* Validation operations: run_validation. *)

\* _operand: a fixture, or a run the named simulation recorded.
OperandResolves(operand) ==
  operand.sim # NoName =>
    /\ operand.sim \in Simulated
    /\ runs[operand.sim][operand.run] # Unrecorded

Content(operand) ==
  IF operand.sim = NoName THEN Golden ELSE traces[operand.sim][operand.run]

CaseResolves(case) ==
  /\ case.use \in DOMAIN Validators
  /\ OperandResolves(case.left)
  /\ OperandResolves(case.right)

ArtifactEqual(left, right) ==
  left # "missing" /\ right # "missing" /\ left = right

Holds(case) ==
  IF Validators[case.use] = "artifact_differs"
  THEN ~ArtifactEqual(Content(case.left), Content(case.right))
  ELSE ArtifactEqual(Content(case.left), Content(case.right))

RunValidation ==
  /\ Dispatching("validation")
  /\ \/ /\ ~Op.provided \/ \E case \in Range(Op.cases) : ~CaseResolves(case)
        /\ Raise("ManifestError")
     \/ /\ Op.provided /\ \A case \in Range(Op.cases) : CaseResolves(case)
        /\ Record(IF \A case \in Range(Op.cases) : Holds(case) THEN "PASS" ELSE "FAIL")
        /\ UNCHANGED <<ops, installed, nsources, artifacts, disk, runs, traces, run,
                       worst, result>>

-----------------------------------------------------------------------------
\* MUTANT: the mildest status is taken.
WorstStatus_Least ==
  CHOOSE s \in Range(stages) \ {Unrecorded} :
    \A t \in Range(stages) \ {Unrecorded} : Severity[s] <= Severity[t]

\* _worst_status over the recorded stages.
WorstStatus ==
  LET recorded == Range(stages) \ {Unrecorded} IN
  IF recorded = {} THEN "PASS"
  ELSE CHOOSE s \in recorded : \A t \in recorded : Severity[s] >= Severity[t]

Return ==
  /\ pc = "return"
  /\ pc' = "done"
  /\ result' = WorstStatus
  /\ UNCHANGED <<ops, installed, nsources, pos, stages, artifacts, disk, runs, traces,
                 run, worst>>

Next ==
  \/ Validate
  \/ StartTool \/ FinishTool
  \/ StartSimulation \/ Compile \/ RefuseRun \/ Simulate \/ EndSimulation
  \/ RunToolRaises
  \/ RunValidation
  \/ Return

Spec == Init /\ [][Next]_vars

\* Every subprocess has a timeout and every loop is over a finite list, so the
\* program always takes its next step.
FairSpec == Spec /\ WF_vars(Next)

-----------------------------------------------------------------------------
(* Properties. *)

TypeOK ==
  /\ ops \in Pipelines
  /\ installed \in Installations
  /\ nsources \in SourceCounts
  /\ pc \in {"validate", "dispatch", "tool", "compile", "run", "return", "done"}
  /\ pos \in Nat \ {0}
  /\ stages \in [OpIds -> Statuses \cup {Unrecorded}]
  /\ artifacts \in [OpIds -> Nat]
  /\ disk \in [OpIds -> Seq(FileStates)]
  /\ runs \in [OpIds -> [RunIds -> Statuses \cup {Unrecorded}]]
  /\ traces \in [OpIds -> [RunIds -> Contents]]
  /\ run \in Nat
  /\ worst \in Statuses
  /\ result \in {"running"} \cup Statuses \cup Exceptions

Good(o) == disk[o] # << >> /\ \A i \in DOMAIN disk[o] : disk[o][i] = "good"

Executing == {"dispatch", "tool", "compile", "run"}

\* Where the engine is: only a validated pipeline is executed, and whatever is
\* executing has resolved inputs.
Control ==
  /\ pos <= Len(ops) + 1
  /\ pc \in Executing => pos <= Len(ops)
  /\ pc = "validate" => pos = 1
  /\ pc = "return" => pos > 1
  /\ pc \in Executing \/ pos > 1 => ValidPipeline(ops)
  /\ pc \in {"compile", "run"} => run >= 1 /\ SourcesResolve
  /\ pc = "tool" => InputsResolve
  /\ (result = "running") <=> (pc # "done")

\* The recorded stages are those of the operations before the current one, and
\* the loop is left as soon as one of them is not PASS.
PrefixRecorded ==
  \A o \in OpIds : (stages[o] # Unrecorded) <=> (o \in Ids(ops, pos - 1))
StopsAtFailure ==
  \A k \in 1..(pos - 1) :
    stages[ops[k].id] # "PASS" => k = pos - 1 /\ pc \in {"return", "done"}

\* An artifact is handed on by a recorded operation only, and its files are
\* still as many as they were, and as they were, when they were checked.
HandedOnGood ==
  \A o \in OpIds : artifacts[o] # 0 =>
    Good(o) /\ artifacts[o] = Len(disk[o]) /\ o \in Ids(ops, pos - 1)

\* Why the engine is right, as an inductive invariant: ids are unique once the
\* pipeline is validated, so the dicts keyed by them are written once.
EngineInv == TypeOK /\ Control /\ PrefixRecorded /\ StopsAtFailure /\ HandedOnGood

\* What a recorded stage stands for.  A run id may come twice in a simulation,
\* and its record is then overwritten: what holds is said of the ids on record.
CleanRuns(o) ==
  \A r \in RunIds : runs[o][r] # Unrecorded =>
    runs[o][r] = "PASS" /\ traces[o][r] # "missing"
HaveRun(op, n) == \A r \in 1..n : runs[op.id][op.runs[r].id] # Unrecorded
ReadsPassing(operand) ==
  operand.sim # NoName =>
    /\ operand.sim \in Ids(ops, pos - 1)
    /\ stages[operand.sim] = "PASS"
    /\ runs[operand.sim][operand.run] = "PASS"
    /\ traces[operand.sim][operand.run] # "missing"
Earned(op) ==
  /\ op.kind = "tool" /\ stages[op.id] = "PASS" => Good(op.id)
  /\ op.kind = "simulation" /\ stages[op.id] = "PASS" =>
       CleanRuns(op.id) /\ HaveRun(op, Len(op.runs))
  /\ op.kind = "validation" => \A case \in Range(op.cases) :
       /\ ReadsPassing(case.left) /\ ReadsPassing(case.right)
       /\ stages[op.id] = "PASS" => Holds(case)

\* A simulation under way passes so far only if every run so far has; nothing is
\* on record of an operation that has not come up.
UnderWay ==
  /\ pc = "tool" => Op.kind = "tool"
  /\ pc \in {"compile", "run"} => Op.kind = "simulation"
  /\ pc = "compile" => run = 1
  /\ pc = "run" =>
       /\ run <= Len(Op.runs) + 1
       /\ HaveRun(Op, run - 1)
       /\ worst = "PASS" => CleanRuns(Op.id)
Untouched ==
  pc \in Executing \cup {"validate"} =>
    \A o \in OpIds \ Ids(ops, pos - 1) :
      pc # "run" \/ o # Op.id => \A r \in RunIds : runs[o][r] = Unrecorded

\* The loop is left at its end or at a failure, and the result is the worst stage.
Concluded ==
  /\ pc = "return" \/ result \in Statuses =>
       pos = Len(ops) + 1 \/ (pos > 1 /\ stages[ops[pos - 1].id] # "PASS")
  /\ result \in Statuses => result = WorstStatus

AllEarned == \A k \in 1..(pos - 1) : Earned(ops[k])

\* Why a PASS can be believed, as an inductive invariant on top of EngineInv.
VerdictInv == AllEarned /\ UnderWay /\ Untouched /\ Concluded

\* The operations that have a recorded stage.
Recorded == {k \in 1..Len(ops) : stages[ops[k].id] # Unrecorded}

\* While a tool runs, every file of every artifact it was handed exists on disk
\* as a non-empty regular file, and so does all that a simulator compiles and
\* runs: run_step hands on None for a rejected artifact and resolve_inputs and
\* _collect_sources refuse it, so an empty file left by a producer that died late
\* is never consumed.
RejectedNeverConsumed ==
  /\ pc = "tool" => \A o \in InputIds : Good(o)
  /\ pc \in {"compile", "run"} => \A o \in Range(Op.sources) : Good(o)

\* The stages dict is a prefix of the pipeline, and only its last entry may be
\* other than PASS: nothing runs after a failure, so failing_stage is unique.
FailureStopsPipeline ==
  /\ Recorded = 1..(pos - 1)
  /\ \A k \in Recorded : stages[ops[k].id] # "PASS" => k = pos - 1

\* A validation that has reached a verdict compared only runs that PASSed, in
\* simulations that PASSed: a mismatch is never a disguised simulator failure.
ValidationReadsPassingRuns ==
  \A k \in Recorded : ops[k].kind = "validation" =>
    \A case \in Range(ops[k].cases) : \A operand \in {case.left, case.right} :
      operand.sim # NoName =>
        /\ stages[operand.sim] = "PASS"
        /\ runs[operand.sim][operand.run] = "PASS"

\* The k-th operation was handed exactly one file: the one its one input left on
\* disk, or the design's only source.
FedOneFile(k) ==
  /\ Len(ops[k].inputs) < 2
  /\ \A o \in InputsOf(k) : Len(disk[o]) = 1
  /\ InputsOf(k) = {} => nsources = 1

\* Whatever has run with a single {input} was handed exactly one file.
SinglyFed ==
  \A k \in 1..Len(ops) :
    /\ k < pos \/ (k = pos /\ pc = "tool")
    /\ ops[k].kind = "tool" /\ Tools[ops[k].use].single
    => FedOneFile(k)

\* An overall PASS is earned: every operation of the pipeline is recorded PASS,
\* every tool left only good files and, where its command takes one {input}, was
\* handed one file and not the first of several (run_step), every run of every simulation PASSed and
\* left a trace, and every `differs` case compared two traces that exist (a
\* missing one would also "differ").
PassIsEarned ==
  result = "PASS" =>
    \A k \in 1..Len(ops) : LET op == ops[k] IN
      /\ stages[op.id] = "PASS"
      /\ op.kind = "tool" =>
           Good(op.id) /\ (Tools[op.use].single => FedOneFile(k))
      /\ op.kind = "simulation" =>
           \A r \in DOMAIN op.runs : /\ runs[op.id][op.runs[r].id] = "PASS"
                                     /\ traces[op.id][op.runs[r].id] # "missing"
      /\ op.kind = "validation" =>
           \A case \in Range(op.cases) :
             /\ "missing" \notin {Content(case.left), Content(case.right)}
             /\ Holds(case)

\* What no check has looked at before an operation comes up: the registry's entry
\* and what the design brings.
Served(op) ==
  /\ op.kind = "tool" => op.use \in DOMAIN Tools
  /\ op.kind = "simulation" => op.provided /\ op.use \in DOMAIN Simulators
  /\ op.kind = "validation" =>
       op.provided /\ \A case \in Range(op.cases) : case.use \in DOMAIN Validators

\* By kind: a validation passes or fails, nothing else can FAIL; no operation gets
\* a verdict that was not served.
ByKind ==
  /\ worst # "FAIL"
  /\ pc \in {"tool", "compile", "run"} => Served(Op)
  /\ \A k \in 1..(pos - 1) :
       /\ Served(ops[k])
       /\ IF ops[k].kind = "validation" THEN stages[ops[k].id] \in {"PASS", "FAIL"}
          ELSE stages[ops[k].id] # "FAIL"

\* A result other than an exception is a PASS of all operations, or the verdict of
\* one of them, the only one recorded that did not pass; a FAIL is a validation's
\* and a validation's failure a FAIL; and every reference up to there was served.
\* run_regression.py's failing_stage and expected_failure rest on this (see
\* DesignPipeline).
ResultIsAttributed ==
  result \in Statuses =>
    \/ /\ result = "PASS"
       /\ \A k \in 1..Len(ops) : stages[ops[k].id] = "PASS" /\ Served(ops[k])
    \/ \E k \in 1..Len(ops) :
         /\ Recorded = 1..k
         /\ \A j \in 1..(k - 1) : stages[ops[j].id] = "PASS"
         /\ \A j \in 1..k : Served(ops[j])
         /\ result = stages[ops[k].id] /\ result # "PASS"
         /\ result = "FAIL" <=> ops[k].kind = "validation"

\* A stage, once recorded, is final, and what it produced is not replaced under
\* a later consumer: ids key the dicts, so this rests on validate_pipelines
\* refusing a duplicate id.
StagesAreFinal ==
  [][\A o \in OpIds : stages[o] # Unrecorded =>
       /\ stages'[o] = stages[o]
       /\ artifacts'[o] = artifacts[o]
       /\ runs'[o] = runs[o]]_vars

\* run_pipeline implements the contract its callers rely on.
Contract == INSTANCE PipelineContract WITH
  Verdict <- Statuses, Exception <- Exceptions, size <- Len(ops),
  verdicts <- [k \in 1..(pos - 1) |-> stages[ops[k].id]],
  outcome <- result

ImplementsContract == Contract!Spec

\* A step takes the engine to a later operation, or to a later phase of the same one,
\* or to a later run of the same simulation, and never past the end of the pipeline
\* or of the operation's runs: over pipelines of any length it runs out of steps.
Phase == [validate |-> 0, dispatch |-> 1, tool |-> 2, compile |-> 2, run |-> 3,
          return |-> 4, done |-> 5]
Advance ==
  /\ ops' = ops
  /\ \/ pos' > pos
     \/ pos' = pos /\ Phase[pc'] > Phase[pc]
     \/ pos' = pos /\ pc' = "run" /\ pc = "run" /\ run' > run
WithinBounds ==
  /\ pos \in 1..(Len(ops) + 1)
  /\ pc = "run" => run \in 1..(Len(Op.runs) + 1)
StepsRunOut == []WithinBounds /\ [][Advance]_vars

\* Every run of a pipeline comes to an end.
Terminates == <>(pc = "done")

\* docs/running.md: a failure that is not recognised is CRASH, never bucketed away
\* quietly; a PASS and a CLEAN_REJECT are what the runner lets pass.
CrashesAreNotBucketedAway ==
  result \in {"PASS", "CLEAN_REJECT"} =>
    \A o \in OpIds, r \in RunIds : runs[o][r] # "CRASH"

=============================================================================
