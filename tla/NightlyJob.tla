----------------------------- MODULE NightlyJob -----------------------------
(***************************************************************************)
(* The job `regression` of .github/workflows/nightly.yml, from the unit    *)
(* tests to the remembered fingerprint, with scripts/run_ctest_suites.py:  *)
(* which steps run after which failures, what each leaves in reports/ for  *)
(* the page that report.py publishes, and what the job finally remembers.  *)
(*                                                                         *)
(* The checkout is clean, so a report is this night's or missing.  A step  *)
(* runs only when all before it succeeded (an `if` that names no status    *)
(* function keeps the implicit success()); the page and the upload of the  *)
(* reports run under `if: always()`.  A step may also be killed, and then  *)
(* fails with whatever it had written; a kill of the last one, which saves *)
(* the fingerprint, is a lost runner of NightlyGate.                       *)
(***************************************************************************)
EXTENDS Sequences, Reports

CONSTANTS
  Repos,         \* repositories.yaml, in its order
  CuratedRuns,   \* what the curated corpus may come to: design -> entry
  ExternalRuns   \* what the external suites may come to: file -> entry

ASSUME JobAssumption ==
  /\ Repos \in Seq(STRING)
  /\ \A designs \in CuratedRuns :
       /\ IsFiniteSet(DOMAIN designs)
       /\ \A d \in DOMAIN designs : designs[d].status \in Verdicts
  /\ \A files \in ExternalRuns :
       /\ IsFiniteSet(DOMAIN files)
       /\ \A f \in DOMAIN files :
            /\ files[f].status \in ExternalStatuses
            /\ files[f].expected \in ExternalStatuses \cup {"none"}

VARIABLES
  step,        \* the step that comes up
  status,      \* job.status: "success" until a step fails
  key,         \* the fingerprint the job `changes` handed over, or "none"
  suites,      \* what ctest said of the repositories done so far
  curated,     \* reports/curated-report.json
  external,    \* reports/external-report.json
  agrees,      \* tests.test_correspondence: "not run", "yes", "no"
  page,        \* what the published summary shows of each report
  remembered   \* the fingerprint that was saved, or "none"

vars == <<step, status, key, suites, curated, external, agrees, page, remembered>>

Fingerprints == {"none", "hash"}
Endings == {"passed", "failed", "killed"}

Following ==
  [build |-> "ctest", ctest |-> "curated", curated |-> "external",
   external |-> "publish", publish |-> "upload", upload |-> "remember",
   remember |-> "done"]

\* A report file: none, cut off while it was written, or whole.
File(state, of) == [file |-> state, of |-> of]
Missing == File("none", << >>)
Torn == File("torn", << >>)

\* The summary before anything is on it.
Unpublished == [curated |-> "nothing", external |-> "nothing"]

-----------------------------------------------------------------------------
Init ==
  /\ step = "build"
  /\ status = "success"
  /\ key \in Fingerprints
  /\ suites = << >>
  /\ curated = Missing /\ external = Missing
  /\ agrees = "not run"
  /\ page = Unpublished
  /\ remembered = "none"

\* A step fails the job or leaves its status, and the next comes up.
Succeed == step' = Following[step] /\ UNCHANGED status
Fail == step' = Following[step] /\ status' = "failure"

\* Dependencies, unit tests and the toolchain.
Build ==
  /\ step = "build"
  /\ Succeed \/ Fail
  /\ UNCHANGED <<key, suites, curated, external, agrees, page, remembered>>

\* A step without a status function, after a failure.
Skip ==
  /\ step \in {"ctest", "curated", "external"}
  /\ status = "failure"
  /\ Succeed
  /\ UNCHANGED <<key, suites, curated, external, agrees, page, remembered>>

\* MUTANT: the loop is left at the first suite that fails.
Suite_Break ==
  /\ step = "ctest" /\ status = "success"
  /\ Len(suites) < Len(Repos)
  /\ \/ suites' = Append(suites, "passed") /\ UNCHANGED <<step, status>>
     \/ suites' = Append(suites, "failed") /\ Fail
  /\ UNCHANGED <<key, curated, external, agrees, page, remembered>>

\* ctest of the next repository, whatever became of those before; only a kill
\* of the step leaves the loop.
Suite ==
  /\ step = "ctest" /\ status = "success"
  /\ Len(suites) < Len(Repos)
  /\ \E said \in Endings :
       /\ suites' = Append(suites, said)
       /\ IF said = "killed" THEN Fail ELSE UNCHANGED <<step, status>>
  /\ UNCHANGED <<key, curated, external, agrees, page, remembered>>

\* MUTANT: the exit status is that of the last suite.
CTestEnds_Last ==
  /\ step = "ctest" /\ status = "success"
  /\ Len(suites) = Len(Repos)
  /\ IF suites = << >> \/ suites[Len(suites)] = "passed" THEN Succeed ELSE Fail
  /\ UNCHANGED <<key, suites, curated, external, agrees, page, remembered>>

CTestEnds ==
  /\ step = "ctest" /\ status = "success"
  /\ Len(suites) = Len(Repos)
  /\ IF \A k \in DOMAIN suites : suites[k] = "passed" THEN Succeed ELSE Fail
  /\ UNCHANGED <<key, suites, curated, external, agrees, page, remembered>>

\* What a runner that writes its report to the end can leave.
Whole(runs) == [file : {"whole"}, of : runs]

\* run_regression.py, and only after its exit status 0 (`bash -e`) the unit test
\* test_correspondence, which reads the report.  The step fails over any report:
\* the runner exits 1, raises or is killed, before the report, in it or after it.
Curated ==
  /\ step = "curated" /\ status = "success"
  /\ curated' \in {Missing, Torn} \cup Whole(CuratedRuns)
  /\ \/ Fail /\ UNCHANGED agrees
     \/ /\ curated'.file = "whole" /\ CuratedExit(curated'.of) = 0
        /\ \/ agrees' = "yes" /\ Succeed
           \/ agrees' = "no" /\ Fail
  /\ UNCHANGED <<key, suites, external, page, remembered>>

\* run_external_regression.py, likewise.
External ==
  /\ step = "external" /\ status = "success"
  /\ external' \in {Missing, Torn} \cup Whole(ExternalRuns)
  /\ \/ Fail
     \/ external'.file = "whole" /\ ExternalExit(external'.of) = 0 /\ Succeed
  /\ UNCHANGED <<key, suites, curated, agrees, page, remembered>>

Section(report) == IF report.file = "none" THEN "not run" ELSE "rendered"

\* report.py: a file that is missing is "not run this time", one that is not JSON
\* a traceback before the one print.
Publish ==
  /\ step = "publish"
  /\ \/ Fail /\ UNCHANGED page
     \/ /\ "torn" \notin {curated.file, external.file}
        /\ page' = [curated |-> Section(curated), external |-> Section(external)]
        /\ Succeed \/ Fail
  /\ UNCHANGED <<key, suites, curated, external, agrees, remembered>>

\* The reports as artifacts of the run; what is missing is only warned of.
Upload ==
  /\ step = "upload"
  /\ Succeed \/ Fail
  /\ UNCHANGED <<key, suites, curated, external, agrees, page, remembered>>

\* MUTANT: remembered under `if: always()`.
Remember_Always ==
  /\ step = "remember" /\ remembered' = key
  /\ Succeed
  /\ UNCHANGED <<key, suites, curated, external, agrees, page>>

Remember ==
  /\ step = "remember"
  /\ remembered' = IF status = "success" THEN key ELSE "none"
  /\ Succeed
  /\ UNCHANGED <<key, suites, curated, external, agrees, page>>

Next ==
  \/ Build \/ Skip \/ Suite \/ CTestEnds \/ Curated \/ External
  \/ Publish \/ Upload \/ Remember

Spec == Init /\ [][Next]_vars

-----------------------------------------------------------------------------
(* Properties. *)

Sections == {"nothing", "not run", "rendered"}

TypeOK ==
  /\ step \in DOMAIN Following \cup {"done"}
  /\ status \in {"success", "failure"}
  /\ key \in Fingerprints /\ remembered \in Fingerprints
  /\ suites \in Seq(Endings)
  /\ \/ curated \in {Missing, Torn}
     \/ curated.file = "whole" /\ curated.of \in CuratedRuns
  /\ \/ external \in {Missing, Torn}
     \/ external.file = "whole" /\ external.of \in ExternalRuns
  /\ agrees \in {"not run", "yes", "no"}
  /\ page \in [curated : Sections, external : Sections]

Before(s) == step \in
  CASE s = "ctest" -> {"build"}
    [] s = "curated" -> {"build", "ctest"}
    [] s = "external" -> {"build", "ctest", "curated"}
    [] s = "publish" -> {"build", "ctest", "curated", "external"}
    [] s = "upload" -> {"build", "ctest", "curated", "external", "publish"}
    [] s = "remember" -> {"build", "ctest", "curated", "external", "publish", "upload"}

SuitesPassed == Len(suites) = Len(Repos) /\ \A k \in DOMAIN suites : suites[k] = "passed"
CuratedPassed == curated.file = "whole" /\ CuratedExit(curated.of) = 0 /\ agrees = "yes"
ExternalPassed == external.file = "whole" /\ ExternalExit(external.of) = 0

\* What has succeeded while the job has: everything up to the step it is at.
SuccessSoFar ==
  status = "success" =>
    /\ ~Before("curated") => SuitesPassed
    /\ ~Before("external") => CuratedPassed
    /\ ~Before("publish") => ExternalPassed
    /\ ~Before("upload") => page = [curated |-> "rendered", external |-> "rendered"]

\* Every repository has had its turn once the curated corpus comes up after it,
\* unless the step was killed; a report is there only if all steps before it
\* succeeded; and a page is of the reports.
Leavings ==
  /\ Len(suites) <= Len(Repos)
  /\ suites # << >> /\ ~Before("curated") =>
       Len(suites) = Len(Repos) \/ suites[Len(suites)] = "killed"
  /\ step = "build" \/ (step = "ctest" /\ status = "failure") => suites = << >>
  /\ Before("external") => curated = Missing
  /\ curated # Missing => SuitesPassed
  /\ Before("publish") => external = Missing
  /\ external # Missing => SuitesPassed /\ CuratedPassed
  /\ page # Unpublished =>
       /\ ~Before("upload") /\ "torn" \notin {curated.file, external.file}
       /\ page = [curated |-> Section(curated), external |-> Section(external)]
  /\ remembered # "none" => status = "success" /\ remembered = key /\ step = "done"

JobInv == TypeOK /\ SuccessSoFar /\ Leavings

\* The culprits a reader finds on the page.
CuratedCulprit ==
  \E a \in RenderCurated(curated.of).anomalies : a.status \in Failing
ExternalCulprit ==
  \E l \in RenderExternal(external.of).listed :
    l.verdict = "REGRESSION" \/ (l.verdict = "NEW" /\ l.status = "CRASH")

\* A fingerprint is remembered only after every repository's suite passed, no
\* design of the corpus crashed, hung, came out wrong or passed though it declares
\* a failure, its faults were found again, no external file is worse than its
\* baseline or a new crash, and all of it was published.  A design that is cleanly
\* rejected is let pass, even one that declares another stage (CuratedRunner's
\* OtherStageFails): the exit status does not know it.
RememberedIsTested ==
  remembered # "none" =>
    /\ remembered = key
    /\ SuitesPassed
    /\ CuratedPassed
    /\ \A d \in DOMAIN curated.of : curated.of[d].status \in {"PASS", "XFAIL", "CLEAN_REJECT"}
    /\ external.file = "whole"
    /\ \A f \in DOMAIN external.of : LET file == external.of[f] IN
         IF file.expected = "none" THEN file.status # "CRASH"
         ELSE Severity[file.status] <= Severity[file.expected]
    /\ page = [curated |-> "rendered", external |-> "rendered"]

\* A page that renders both reports and lists nothing that fails.
CleanPage ==
  /\ page = [curated |-> "rendered", external |-> "rendered"]
  /\ ~CuratedCulprit /\ ~ExternalCulprit

\* The page tells whether the tools were found good, though report.py decides
\* nothing itself: a published page is clean exactly if every suite passed and
\* both runners found nothing, so a red job under a clean page is one that came
\* apart after its tests (an external runner killed after its report, a failed
\* upload); a green job has one; and each rendered section lists a culprit exactly
\* if its runner comes to exit status 1.
PageTellsTheVerdict ==
  /\ page # Unpublished =>
       (CleanPage <=> SuitesPassed /\ CuratedPassed /\ ExternalPassed)
  /\ ~Before("upload") /\ status = "success" => CleanPage
  /\ page.curated = "rendered" => (CuratedCulprit <=> CuratedExit(curated.of) = 1)
  /\ page.external = "rendered" => (ExternalCulprit <=> ExternalExit(external.of) = 1)

SumOfRows(table) == MapThenSumSet(LAMBDA g : table.rows[g].total, DOMAIN table.rows)
Undecided(designs) == {d \in DOMAIN designs : designs[d].status \in {"XFAIL", "XPASS"}}

\* The numbers of the page account for everything that ran: each design is in
\* one row, and the TOTAL row has all but the designs that declare a failure
\* (report.py's totals know five statuses, its rows and the runner's own totals
\* seven); each file is in one row and is a match or listed; and a crash or a
\* timeout that the baseline tolerates still shows in the row of its suite.
PageCountsEverything ==
  /\ curated.file = "whole" =>
       LET designs == curated.of
           table == RenderCurated(designs).table IN
       /\ SumOfRows(table) = Cardinality(DOMAIN designs)
       /\ Console(designs).total = Cardinality(DOMAIN designs)
       /\ table.total.total + Cardinality(Undecided(designs)) = Cardinality(DOMAIN designs)
  /\ external.file = "whole" =>
       LET files == external.of
           rendered == RenderExternal(files) IN
       /\ SumOfRows(rendered.table) = Cardinality(DOMAIN files)
       /\ rendered.table.total.total = Cardinality(DOMAIN files)
       /\ rendered.matches + Cardinality(rendered.listed) = Cardinality(DOMAIN files)
       /\ \A f \in Stuck(files) :
            rendered.table.rows[files[f].group].shown[files[f].status] > 0

-----------------------------------------------------------------------------
(* NightlyGate takes all of this for two steps of one slot, Test and Save.   *)

GatePhase ==
  IF step = "done" \/ (step = "remember" /\ status = "failure") THEN "done"
  ELSE IF step = "remember" THEN "save" ELSE "test"
GateLast ==
  IF Before("remember") THEN "none" ELSE IF status = "success" THEN "green" ELSE "red"
Slot == {"job"}
At(commit) == [p \in {"self"} |-> commit]
Key == At(IF key = "none" THEN 1 ELSE 0)
GateGreen == IF GateLast = "green" THEN {[key |-> Key, built |-> At(0)]} ELSE {}
GateCache == IF remembered = "none" THEN {} ELSE {At(0)}

Gate == INSTANCE NightlyGate WITH
  Repos <- {"self"}, Self <- "self", Slots <- Slot, MaxCommits <- 0, MaxFaults <- 0,
  heads <- At(0), faults <- 0, rewound <- FALSE, attempted <- {At(0)},
  phase <- [s \in Slot |-> GatePhase],
  seen <- [s \in Slot |-> IF GatePhase = "done" THEN At(1) ELSE Key],
  built <- [s \in Slot |-> At(IF GatePhase = "done" THEN 1 ELSE 0)],
  last <- GateLast, green <- GateGreen, cache <- GateCache

\* The job implements what NightlyGate assumes of it: one verdict, green or red,
\* for all its steps, and a fingerprint saved after green only.
ImplementsGate == [][Gate!Test("job") \/ Gate!Save("job")]_(Gate!vars)

=============================================================================
