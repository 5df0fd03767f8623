---------------------------- MODULE CuratedRunner ----------------------------
(***************************************************************************)
(* scripts/run_regression.py and scripts/report.py: sessions of the        *)
(* curated runner in one checkout.  A session clears the work directory,   *)
(* runs every selected design through its pipeline, writes one JSON report *)
(* and exits.  It may die anywhere; the work directory and the report are  *)
(* what the next session, and report.py, find.                             *)
(*                                                                         *)
(* A pipeline is only its outcome: what PipelineContract promises of       *)
(* run_pipeline, a status with its failing stage, or an exception.         *)
(***************************************************************************)
EXTENDS Corpus, Reports

CONSTANTS
  Filters,      \* the names an --only may match; EntryNames without it
  MaxSessions   \* BOUND on the sessions run in the checkout

ASSUME RunnerAssumption == MaxSessions \in Nat

VARIABLES
  checkout,  \* the corpus and the manifests the session started on
  only,      \* the names its --only matches
  found,     \* how many entries of the corpus discovery has dealt with
  session,   \* number of the current, or of the last, session
  pc,        \* where its main() is; "idle" when no session runs
  selected,  \* the designs of the session, in order
  results,   \* main's `results`: an entry per design that has finished
  work,      \* directory -> whose files are in it: [session, design] pairs
  report,    \* the file reports/curated-report.json
  exit,      \* how the last session ended
  summary    \* what report.py last printed

inputs == <<checkout, only, found>>
vars == <<inputs, session, pc, selected, results, work, report, exit, summary>>

Designs == UNION {Range(m.corpus) : m \in Checkouts}
Dirs == {WorkDir(e) : e \in Designs}

-----------------------------------------------------------------------------
\* overall_status and failing_stage of a pipeline that returned.
Outcomes ==
  {[status |-> "PASS", stage |-> NoName]}
    \cup [status : Failures, stage : OpIds]

\* MUTANT: a declared failure absorbs a failure at any stage.
Resolve_AnyStage(design, outcome) ==
  IF Declared(design) = NoName THEN outcome.status
  ELSE IF outcome.status = "PASS" THEN "XPASS" ELSE "XFAIL"

\* run_design's verdict: the expected_failure key turns a PASS into XPASS and a
\* failure at the declared stage into XFAIL, and covers nothing else.
Resolve(design, outcome) ==
  IF Declared(design) = NoName THEN outcome.status
  ELSE IF outcome.status = "PASS" THEN "XPASS"
  ELSE IF outcome.stage = Declared(design) THEN "XFAIL"
  ELSE outcome.status

Entries == [design : Designs, outcome : Outcomes, verdict : Verdicts, session : Nat]

NoReport == [file |-> "none", session |-> 0, entries |-> << >>]
Torn == [file |-> "torn", session |-> 0, entries |-> << >>]
Whole(entries) == [file |-> "whole", session |-> session, entries |-> entries]

ExitCode ==
  IF \E k \in DOMAIN results : results[k].verdict \in Failing THEN "1" ELSE "0"

Current == selected[Len(results) + 1]
Found == checkout.corpus[found + 1]
AllFound == found = Len(checkout.corpus)

-----------------------------------------------------------------------------
Init ==
  /\ checkout \in Checkouts
  /\ only \in Filters
  /\ found = 0
  /\ session = 0
  /\ pc = "idle"
  /\ selected = << >>
  /\ results = << >>
  /\ work = [d \in Dirs |-> {}]
  /\ report = NoReport
  /\ exit = "none"
  /\ summary = [shown |-> "nothing", session |-> 0]

\* MUTANT: `results` outlives the session.
Start_KeepResults ==
  /\ pc = "idle" /\ session < MaxSessions
  /\ session' = session + 1 /\ checkout' \in Checkouts /\ only' \in Filters
  /\ found' = 0 /\ selected' = << >> /\ pc' = "start" /\ exit' = "running"
  /\ UNCHANGED <<results, work, report, summary>>

\* The checkout may be another commit than the last session's.
Start ==
  /\ pc = "idle"
  /\ session < MaxSessions
  /\ session' = session + 1
  /\ checkout' \in Checkouts
  /\ only' \in Filters
  /\ found' = 0
  /\ selected' = << >>
  /\ results' = << >>
  /\ pc' = "start"
  /\ exit' = "running"
  /\ UNCHANGED <<work, report, summary>>

End(how) ==
  /\ pc' = "idle"
  /\ exit' = how
  /\ UNCHANGED <<inputs, session, selected, results, summary>>

Validate ==
  /\ pc = "start"
  /\ ValidManifests(checkout)
  /\ pc' = "discover"
  /\ UNCHANGED <<inputs, session, selected, results, work, report, exit, summary>>

\* MUTANT: an entry that does not validate is skipped.
Discover_SkipMalformed ==
  /\ pc = "discover" /\ ~AllFound
  /\ found' = found + 1
  /\ selected' = IF IsDesign(Found) /\ ~Malformed(Found) /\ Found.name \in only
                 THEN Append(selected, Found) ELSE selected
  /\ UNCHANGED <<checkout, only, session, pc, results, work, report, exit, summary>>

\* discover_designs comes to the next entry; --only, which is applied to the whole
\* list afterwards, keeps the same designs.
Discover ==
  /\ pc = "discover"
  /\ ~AllFound
  /\ ~Malformed(Found)
  /\ found' = found + 1
  /\ selected' = IF IsDesign(Found) /\ Found.name \in only
                 THEN Append(selected, Found) ELSE selected
  /\ UNCHANGED <<checkout, only, session, pc, results, work, report, exit, summary>>

\* A manifest or an entry that does not validate, or no design left: SystemExit
\* or ManifestError before anything is touched.
Refuse ==
  /\ \/ pc = "start" /\ ~ValidManifests(checkout)
     \/ pc = "discover" /\ ~AllFound /\ Malformed(Found)
     \/ pc = "discover" /\ AllFound /\ selected = << >>
  /\ End("raised")
  /\ UNCHANGED <<work, report>>

Discovered == pc = "discover" /\ AllFound /\ selected # << >>

\* MUTANT: the work root is created when missing, never cleared.
ClearWork_MkdirOnly ==
  /\ Discovered
  /\ pc' = "next"
  /\ UNCHANGED <<inputs, session, selected, results, work, report, exit, summary>>

\* shutil.rmtree(work_root), then mkdir.
ClearWork ==
  /\ Discovered
  /\ work' = [d \in Dirs |-> {}]
  /\ pc' = "next"
  /\ UNCHANGED <<inputs, session, selected, results, report, exit, summary>>

\* The pipeline of the next design begins: its directory may hold files from now on.
BeginDesign ==
  /\ pc = "next"
  /\ Len(results) < Len(selected)
  /\ work' = [work EXCEPT
       ![WorkDir(Current)] = @ \cup {[session |-> session, design |-> Current]}]
  /\ pc' = "design"
  /\ UNCHANGED <<inputs, session, selected, results, report, exit, summary>>

\* MUTANT: the result is not kept, and the design is run again.
EndDesign_Repeat ==
  /\ pc = "design"
  /\ pc' = "next"
  /\ UNCHANGED <<inputs, session, selected, results, work, report, exit, summary>>

EndDesign ==
  /\ pc = "design"
  /\ \E outcome \in Outcomes :
       /\ Possible(checkout, Current, outcome)
       /\ results' = Append(results,
            [design |-> Current, outcome |-> outcome,
             verdict |-> Resolve(Current, outcome), session |-> session])
  /\ pc' = "next"
  /\ UNCHANGED <<inputs, session, selected, work, report, exit, summary>>

\* Any exception of a pipeline leaves main(): a tool that is not installed, or a
\* reference that does not resolve.  The results so far are lost and no report is
\* written.
DesignRaises ==
  /\ pc = "design"
  /\ End("raised")
  /\ UNCHANGED <<work, report>>

\* write_text opens the file for writing, which truncates it, ...
OpenReport ==
  /\ pc = "next"
  /\ Len(results) = Len(selected)
  /\ report' = Torn
  /\ pc' = "write"
  /\ UNCHANGED <<inputs, session, selected, results, work, exit, summary>>

\* ... and then fills it with the serialized results.
WriteReport ==
  /\ pc = "write"
  /\ report' = Whole(results)
  /\ pc' = "exit"
  /\ UNCHANGED <<inputs, session, selected, results, work, exit, summary>>

\* MUTANT: an exception while the report is written is swallowed.
Exit_Swallow ==
  /\ pc \in {"write", "exit"}
  /\ End(ExitCode)
  /\ UNCHANGED <<work, report>>

Exit ==
  /\ pc = "exit"
  /\ End(ExitCode)
  /\ UNCHANGED <<work, report>>

\* A signal, a cancelled job or an I/O error, at any point; rmtree may then have
\* removed some of the directories only.
Die ==
  /\ pc # "idle"
  /\ End("died")
  /\ \E removed \in IF Discovered THEN SUBSET Dirs ELSE {{}} :
       work' = [d \in Dirs |-> IF d \in removed THEN {} ELSE work[d]]
  /\ UNCHANGED report

\* report.py, run whatever happened: no file is "not run this time", a file that
\* is not JSON is a traceback, any other is rendered.
Render ==
  /\ pc = "idle"
  /\ summary' = [shown |-> CASE report.file = "none" -> "not run"
                             [] report.file = "torn" -> "traceback"
                             [] OTHER -> "results",
                 session |-> report.session]
  /\ UNCHANGED <<inputs, session, pc, selected, results, work, report, exit>>

Step ==
  \/ Validate \/ Discover \/ Refuse \/ ClearWork
  \/ BeginDesign \/ EndDesign \/ DesignRaises
  \/ OpenReport \/ WriteReport \/ Exit

Next == Start \/ Step \/ Die \/ Render

Spec == Init /\ [][Next]_vars

\* A running session takes its next step: main() is a loop over a finite list,
\* and run_pipeline returns or raises (PipelineEngine's Terminates).
FairSpec == Spec /\ WF_vars(Step)

-----------------------------------------------------------------------------
(* Properties. *)

TypeOK ==
  /\ checkout \in Checkouts
  /\ only \in Filters
  /\ found \in 0..Len(checkout.corpus)
  /\ session \in 0..MaxSessions
  /\ pc \in {"idle", "start", "discover", "next", "design", "write", "exit"}
  /\ selected \in Seq(Designs)
  /\ results \in Seq(Entries)
  /\ work \in [Dirs -> SUBSET [session : Nat, design : Designs]]
  /\ report \in [file : {"none", "torn", "whole"}, session : Nat, entries : Seq(Entries)]
  /\ exit \in {"none", "running", "raised", "died", "0", "1"}
  /\ summary \in [shown : {"nothing", "not run", "traceback", "results"}, session : Nat]

Verilogless(e) == e.files \cap Verilog = {} /\ (e.kind = "dir" => e.sources = {})

\* Discovery has let every entry so far through, and has kept those that hold a
\* design; nothing runs before it has dealt with them all.
Selection ==
  /\ \A i \in 1..found :
       LET e == checkout.corpus[i] IN
       /\ ~Malformed(e)
       /\ e.name \in only /\ ~e.hidden /\ ~Verilogless(e) =>
            \E k \in DOMAIN selected : selected[k] = e
  /\ \A k \in DOMAIN selected : IsDesign(selected[k]) /\ selected[k].name \in only
  /\ pc = "start" => found = 0 /\ selected = << >> /\ results = << >>
  /\ pc \in {"next", "design", "write", "exit"} \/ exit \in {"0", "1"} =>
       AllFound /\ ValidManifests(checkout)
  /\ pc = "discover" => ValidManifests(checkout) /\ results = << >>
  /\ Len(selected) <= found

\* The results are those of a prefix of the selection, in its order, of this
\* session only, each resolved as run_design does.
ResultsOfSession ==
  /\ Len(results) <= Len(selected)
  /\ pc = "design" => Len(results) < Len(selected)
  /\ pc \in {"write", "exit"} => Len(results) = Len(selected)
  /\ \A k \in DOMAIN results :
       /\ results[k].design = selected[k]
       /\ results[k].session = session
       /\ results[k].verdict = Resolve(selected[k], results[k].outcome)
       /\ Possible(checkout, selected[k], results[k].outcome)

\* A whole report holds the entries of the session it is of; a session that is
\* still running its designs has not written one.
ReportEntries ==
  /\ \/ report \in {NoReport, Torn}
     \/ report.file = "whole" /\ report.session \in 1..session
  /\ pc \in {"start", "discover", "next", "design"} => report.session < session
  /\ pc # "idle" => session > 0
  /\ report.file = "whole" =>
       \A k \in DOMAIN report.entries : report.entries[k].session = report.session
  /\ report.file = "whole" /\ report.session = session =>
       report.entries = results /\ Len(results) = Len(selected)
  /\ pc = "exit" => report = Whole(results)
  /\ pc = "write" => report = Torn
  /\ exit = "running" <=> pc # "idle"
  /\ exit \in {"0", "1"} =>
       /\ report = Whole(results)
       /\ Len(results) = Len(selected)
       /\ exit = ExitCode

\* Once the work root is cleared, only this session's files are under it.
WorkOfSession ==
  pc \in {"next", "design", "write", "exit"} \/ exit \in {"0", "1"} =>
    \A d \in Dirs : \A file \in work[d] :
      file.session = session /\ WorkDir(file.design) = d

RunnerInv == TypeOK /\ Selection /\ ResultsOfSession /\ ReportEntries /\ WorkOfSession

\* A session that exits 0 ran every selected design, and each one passed without
\* declaring a failure, with nothing missing that its pipeline refers to, or failed
\* at the stage it declares, or was rejected cleanly by a tool: no crash, mismatch
\* or timeout is absorbed at another stage, no repaired design goes unnoticed and
\* no unresolved reference passes for a check that held.
GreenExit ==
  exit = "0" =>
    /\ Len(results) = Len(selected)
    /\ \A k \in DOMAIN selected :
         LET declared == Declared(selected[k])
             outcome == results[k].outcome IN
         \/ /\ outcome.status = "PASS" /\ declared = NoName
            /\ Complete(checkout, selected[k])
         \/ outcome.status # "PASS" /\ outcome.stage = declared
         \/ outcome.status = "CLEAN_REJECT"

\* No design is lost on the way to a green session: every visible entry of the
\* corpus that --only matches, and that holds Verilog or lists its sources, has been
\* run and is in the report, and no entry is malformed, --only or not.
NothingVanishes ==
  exit = "0" =>
    \A i \in DOMAIN checkout.corpus :
      LET e == checkout.corpus[i] IN
      /\ ~Malformed(e)
      /\ e.name \in only /\ ~e.hidden /\ ~Verilogless(e) =>
           \E k \in DOMAIN report.entries : report.entries[k].design = e

\* A report that can be read holds one session, whole: an entry per selected
\* design, never a mixture with an earlier session nor the first part of one.
ReportOfOneSession ==
  report.file = "whole" =>
    /\ \A k \in DOMAIN report.entries : report.entries[k].session = report.session
    /\ report.session = session =>
         /\ Len(report.entries) = Len(selected)
         /\ \A k \in DOMAIN selected : report.entries[k].design = selected[k]

\* What report.py renders after a session that ran to its end is that session:
\* never a torn file, an earlier night's results, or "not run this time".
FinishedIsRendered ==
  [][summary' # summary /\ exit \in {"0", "1"} =>
       summary' = [shown |-> "results", session |-> session]]_vars

\* While a design's pipeline runs, its directory holds files of this session
\* only: a tool that exits 0 and writes nothing cannot pass on an artifact that
\* an earlier session, perhaps one that died, has left.
FreshArtifacts ==
  pc = "design" =>
    \A file \in work[WorkDir(Current)] :
      file.session = session /\ WorkDir(file.design) = WorkDir(Current)

\* tests/test_correspondence.py looks a fault of the report up again in the files
\* under the work root: after a session that ran to its end they are the files
\* the report is about, though an aborted one clears them and keeps the report.
CorrespondenceSeesOneSession ==
  exit \in {"0", "1"} =>
    \A d \in Dirs : \A file \in work[d] : file.session = report.session

\* Every session comes to an end.
SessionsEnd == (pc # "idle") ~> (pc = "idle")

\* A bound on the steps a session has left: one to validate, one per entry, two per
\* design, one to clear the work directory, two for the report and one to exit.
Left ==
  CASE pc = "idle"     -> 0
    [] pc = "start"    -> 5 + 3 * Len(checkout.corpus)
    [] pc = "discover" -> 4 + 3 * (Len(checkout.corpus) - found) + 2 * Len(selected)
    [] pc = "next"     -> 3 + 2 * (Len(selected) - Len(results))
    [] pc = "design"   -> 2 + 2 * (Len(selected) - Len(results))
    [] pc = "write"    -> 2
    [] pc = "exit"     -> 1

\* main() is a loop over a finite list: no entry is looked at twice and no design is
\* run again, so a session that is not killed takes at most 5 + 3n steps over a
\* corpus of n entries.
StepsRunOut ==
  /\ [](Left \in 0..(5 + 3 * Len(checkout.corpus)))
  /\ [][Step => Left' < Left]_vars

\* docs/adding-a-design.md, the table of outcomes: a design that declares an
\* expected failure and fails at a different stage makes the runner exit 1.
OtherStageFails ==
  exit = "0" =>
    \A k \in DOMAIN results :
      LET declared == Declared(results[k].design)
          outcome == results[k].outcome IN
      declared # NoName /\ outcome.status # "PASS" => outcome.stage = declared

-----------------------------------------------------------------------------
(* NightlyJob takes a session in a clean checkout for its step Curated.      *)

JobRuns ==
  LET sizes == UNION {0..Len(m.corpus) : m \in Checkouts} IN
  UNION {[1..n -> [status : Verdicts]] : n \in sizes}
Ended == session = 1 /\ pc = "idle"
Listed(entries) == [k \in DOMAIN entries |-> [status |-> entries[k].verdict]]

Job == INSTANCE NightlyJob WITH
  Repos <- << >>, ExternalRuns <- {},
  CuratedRuns <- JobRuns,
  step <- IF Ended THEN "external" ELSE "curated",
  status <- IF Ended /\ exit # "0" THEN "failure" ELSE "success",
  curated <- [file |-> IF Ended THEN report.file ELSE "none",
              of |-> IF Ended THEN Listed(report.entries) ELSE << >>],
  agrees <- IF Ended /\ exit = "0" THEN "yes" ELSE "not run",
  external <- [file |-> "none", of |-> << >>],
  page <- [curated |-> "nothing", external |-> "nothing"],
  key <- "none", suites <- << >>, remembered <- "none"

\* The first session of a checkout, with all its steps, its deaths and whatever it
\* leaves, is one step Curated of the job: no report, a torn one or one it did not
\* live to answer for, and a failure; or a report and the exit status that follows
\* from what it says.
SessionIsTheJobsStep == [][pc # "idle" => Job!Curated]_(Job!vars)

=============================================================================
