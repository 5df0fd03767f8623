---------------------------- MODULE ExternalRunner ----------------------------
(***************************************************************************)
(* scripts/run_external_regression.py over the pinned repositories: their  *)
(* cached checkouts, the two timeouts, the classification of every file    *)
(* and the comparison with the reviewed baselines.  Sessions follow one    *)
(* another over the cache and the work directory they leave, may die       *)
(* anywhere, each may be asked for a part of the suites only, and each may *)
(* find other pins and other baselines in the manifests.                   *)
(***************************************************************************)
EXTENDS Reports

CONSTANTS
  NumKeys,    \* the manifest's top-level keys, a repository each, in its order
  NumSuites,  \* all their suites, in the manifest's order
  KeyOf,      \* suite -> its top-level key
  Revisions,
  Pins,       \* what the manifest may pin: key -> commit
  Files,
  SuiteOf,    \* file -> its suite
  Rank,       \* file -> its place in the sorted list
  Stem,       \* file -> its name without directory and extension
  Tree,       \* commit -> its files
  Excluded,   \* files the manifest excludes
  Requests,   \* what --suite, --suite-name and --only may select
  Baselines,  \* manifests/expectations: file -> status or "none"
  Runs        \* how verilog2hif may end, were it never cut short

Keys == 1..NumKeys
Suites == 1..NumSuites
Lefts == {"none", "empty", "whole"}

ASSUME ExternalAssumption ==
  /\ NumKeys \in Nat /\ NumSuites \in Nat
  /\ KeyOf \in [Suites -> Keys]
  /\ \A s, t \in Suites : s < t => KeyOf[s] <= KeyOf[t]
  /\ SuiteOf \in [Files -> Suites]
  /\ Rank \in [Files -> Nat]
  /\ \A f, g \in Files : Rank[f] = Rank[g] => f = g
  /\ Pins \subseteq [Keys -> Revisions]
  /\ Tree \in [Revisions -> SUBSET Files]
  /\ Requests \subseteq [keys : SUBSET Keys, suites : SUBSET Suites, files : SUBSET Files]
  /\ Baselines \subseteq [Files -> ExternalStatuses \cup {"none"}]
  /\ Runs \subseteq [end : {"zero", "reject", "crash"},
                     at : {"early", "late", "never"}, left : Lefts]
  /\ "none" \notin Revisions

VARIABLES
  pc,        \* where main() is
  pin,       \* the refs of the manifest
  baseline,  \* the expectations
  request,   \* the keys, suites and files the options select
  checkout,  \* external/.cache: key -> the HEAD of its repository, and its files
  broken,    \* history: key -> an rm -rf of its checkout has begun and not ended
  work,      \* suite and stem -> the .hif.xml in that work directory
  key,       \* the key the outer loop is at, 0 before the first
  suite,     \* the suite the inner loop has come to, 0 before the first
  results,   \* file classified in this session -> its result
  exit,      \* exit status, or how the session ended
  report,    \* external-report.json
  fresh      \* history: the session found no report

inputs == <<pin, baseline, request, fresh>>
vars == <<inputs, pc, checkout, broken, work, key, suite, results, exit, report>>

-----------------------------------------------------------------------------
\* MUTANT: the short probe for every file that has a baseline.
Probed_Baselined(f) == baseline[f] # "none"

\* Only a known TIMEOUT gets the short timeout.
Probed(f) == baseline[f] = "TIMEOUT"

\* classify(), of a run cut at its timeout over the artifact it finds then.
Classify(run, probed, found) ==
  IF run.at = "never" \/ (run.at = "late" /\ probed) THEN "TIMEOUT"
  ELSE IF run.end = "zero" THEN IF found # "none" THEN "PASS" ELSE "CRASH"
  ELSE IF run.end = "reject" THEN "CLEAN_REJECT" ELSE "CRASH"

\* compare_to_expectations() and the exit status.
Verdict(f) == Compare(results[f].status, baseline[f])

\* MUTANT: only a regression fails the run.
ExitCode_NewCrash == IF \E f \in DOMAIN results : Verdict(f) = "REGRESSION" THEN 1 ELSE 0

ExitCode ==
  IF \E f \in DOMAIN results :
       \/ Verdict(f) = "REGRESSION"
       \/ Verdict(f) = "NEW" /\ results[f].status = "CRASH"
  THEN 1 ELSE 0

Selected == {s \in request.suites : KeyOf[s] \in request.keys}

\* The files a suite would classify, those of the suite the loop has come to, and
\* the one that comes up.
Asked ==
  {f \in request.files \ Excluded : f \in checkout[KeyOf[SuiteOf[f]]].files}
Listed == {f \in Asked : SuiteOf[f] = suite}
Due(f) ==
  /\ f \in Listed \ DOMAIN results
  /\ \A g \in Listed \ DOMAIN results : Rank[f] <= Rank[g]

\* The loops skip what is not selected.
NextKey(k) == k \in request.keys /\ k > key /\ \A l \in request.keys : l > key => k <= l
LaterSuites == {s \in Selected : KeyOf[s] = key /\ s > suite}

NoArtifacts == [place \in Suites \X {Stem[f] : f \in Files} |-> "none"]
NoReport == [file |-> "none", of |-> {}]
Torn == [file |-> "torn", of |-> {}]
Written == [file |-> "whole", pin |-> pin, of |-> DOMAIN results]

Init ==
  /\ pc = "idle"
  /\ pin \in Pins /\ baseline \in Baselines /\ request \in Requests
  /\ checkout = [k \in Keys |-> [head |-> "none", files |-> {}]]
  /\ broken = [k \in Keys |-> FALSE]
  /\ work = NoArtifacts
  /\ key = 0 /\ suite = 0
  /\ results = << >>
  /\ exit = "none"
  /\ report = NoReport
  /\ fresh = TRUE

\* Reads the manifests; every tool has been found.
Start ==
  /\ pc = "idle"
  /\ pc' = "clear"
  /\ pin' \in Pins /\ baseline' \in Baselines /\ request' \in Requests
  /\ key' = 0 /\ suite' = 0
  /\ results' = << >>
  /\ exit' = "running"
  /\ fresh' = (report = NoReport)
  /\ UNCHANGED <<checkout, broken, work, report>>

\* MUTANT: the work directory is kept when it exists.
ClearWork_Keep ==
  /\ pc = "clear" /\ pc' = "keys"
  /\ UNCHANGED <<inputs, checkout, broken, work, key, suite, results, exit, report>>

ClearWork ==
  /\ pc = "clear"
  /\ pc' = "keys"
  /\ work' = NoArtifacts
  /\ UNCHANGED <<inputs, checkout, broken, key, suite, results, exit, report>>

\* MUTANT: the dicts of results are made anew for every key.
EnterKey_Reset ==
  /\ pc = "keys" /\ pc' = "fetch" /\ NextKey(key') /\ results' = << >>
  /\ UNCHANGED <<inputs, checkout, broken, work, suite, exit, report>>

EnterKey ==
  /\ pc = "keys"
  /\ pc' = "fetch"
  /\ \E k \in Keys : NextKey(k) /\ key' = k
  /\ UNCHANGED <<inputs, checkout, broken, work, suite, results, exit, report>>

\* fetch_ref: reuse a checkout whose HEAD is the pin, remove any other.
Reuse ==
  /\ pc = "fetch"
  /\ checkout[key].head = pin[key]
  /\ pc' = "suites"
  /\ UNCHANGED <<inputs, checkout, broken, work, key, suite, results, exit, report>>

Discard ==
  /\ pc = "fetch"
  /\ checkout[key].head # pin[key]
  /\ pc' = "remove"
  /\ broken' = [broken EXCEPT ![key] = TRUE]
  /\ UNCHANGED <<inputs, checkout, work, key, suite, results, exit, report>>

\* rm -rf, one thing after another.
Remove ==
  /\ pc = "remove"
  /\ \/ \E f \in checkout[key].files :
          checkout' = [checkout EXCEPT ![key].files = @ \ {f}]
     \/ checkout[key].head # "none" /\ checkout' = [checkout EXCEPT ![key].head = "none"]
  /\ UNCHANGED <<inputs, pc, broken, work, key, suite, results, exit, report>>

\* MUTANT: the repository is fetched into what is there.
Removed_Over ==
  /\ pc = "remove" /\ pc' = "checkout" /\ broken' = [broken EXCEPT ![key] = FALSE]
  /\ checkout' = [checkout EXCEPT ![key].head = "none"]
  /\ UNCHANGED <<inputs, work, key, suite, results, exit, report>>

\* Nothing is left; init, remote, fetch.
Removed ==
  /\ pc = "remove"
  /\ checkout[key] = [head |-> "none", files |-> {}]
  /\ pc' = "checkout"
  /\ broken' = [broken EXCEPT ![key] = FALSE]
  /\ UNCHANGED <<inputs, checkout, work, key, suite, results, exit, report>>

\* git checkout writes the files, then moves HEAD.
CheckoutFile ==
  /\ pc = "checkout"
  /\ \E f \in Tree[pin[key]] \ checkout[key].files :
       checkout' = [checkout EXCEPT ![key].files = @ \cup {f}]
  /\ UNCHANGED <<inputs, pc, broken, work, key, suite, results, exit, report>>

CheckedOut ==
  /\ pc = "checkout"
  /\ Tree[pin[key]] \subseteq checkout[key].files
  /\ checkout' = [checkout EXCEPT ![key].head = pin[key]]
  /\ pc' = "suites"
  /\ UNCHANGED <<inputs, broken, work, key, suite, results, exit, report>>

End(how) == pc' = "idle" /\ exit' = how

\* run_suite: the next suite's directory is there, or SystemExit loses the results
\* of all suites before it.
EnterSuite ==
  /\ pc = "suites"
  /\ Listed \subseteq DOMAIN results
  /\ \E s \in LaterSuites :
       /\ \A t \in LaterSuites : s <= t
       /\ suite' = s
       /\ IF \E f \in checkout[key].files : SuiteOf[f] = s
          THEN UNCHANGED <<pc, exit>>
          ELSE End("died")
  /\ UNCHANGED <<inputs, checkout, broken, work, key, results, report>>

\* classify_file: files of one stem share a work directory, and the tool may leave
\* there what it finds.
ClassifyFile ==
  /\ pc = "suites"
  /\ \E f \in Files, run \in Runs :
       /\ Due(f)
       /\ LET place == <<suite, Stem[f]>>
              found == IF run.left = "none" THEN work[place] ELSE run.left
          IN  /\ work' = [work EXCEPT ![place] = found]
              /\ results' = [g \in DOMAIN results \cup {f} |->
                   IF g = f THEN [status |-> Classify(run, Probed(f), found), run |-> run]
                   ELSE results[g]]
  /\ UNCHANGED <<inputs, pc, checkout, broken, key, suite, exit, report>>

\* The key's suites are done.
LeaveKey ==
  /\ pc = "suites"
  /\ LaterSuites = {}
  /\ Listed \subseteq DOMAIN results
  /\ pc' = "keys"
  /\ UNCHANGED <<inputs, checkout, broken, work, key, suite, results, exit, report>>

\* All keys done: write_text opens the report, which cuts off what was there, and
\* then fills it.
OpenReport ==
  /\ pc = "keys"
  /\ \A k \in request.keys : k <= key
  /\ pc' = "write"
  /\ report' = Torn
  /\ UNCHANGED <<inputs, checkout, broken, work, key, suite, results, exit>>

WriteReport ==
  /\ pc = "write"
  /\ pc' = "exit"
  /\ report' = Written
  /\ UNCHANGED <<inputs, checkout, broken, work, key, suite, results, exit>>

\* The summary is printed, then the exit status decided.
Exit ==
  /\ pc = "exit"
  /\ End(IF ExitCode = 0 THEN "green" ELSE "red")
  /\ UNCHANGED <<inputs, checkout, broken, work, key, suite, results, report>>

\* A git or rm that fails, or a kill.
Die ==
  /\ pc # "idle"
  /\ End("died")
  /\ UNCHANGED <<inputs, checkout, broken, work, key, suite, results, report>>

Next ==
  \/ Start \/ ClearWork \/ EnterKey \/ Reuse \/ Discard \/ Remove \/ Removed
  \/ CheckoutFile \/ CheckedOut \/ EnterSuite \/ ClassifyFile \/ LeaveKey
  \/ OpenReport \/ WriteReport \/ Exit \/ Die

Spec == Init /\ [][Next]_vars

-----------------------------------------------------------------------------
(* Properties. *)

UniqueStems ==
  \A f, g \in Files : SuiteOf[f] = SuiteOf[g] /\ Stem[f] = Stem[g] => f = g

\* What a file's own run deserves: no timeout but the full one, no artifact but
\* its own.
Deserved(run) == Classify(run, FALSE, run.left)

TypeOK ==
  /\ pc \in {"idle", "clear", "keys", "fetch", "remove", "checkout", "suites",
             "write", "exit"}
  /\ pin \in Pins /\ baseline \in Baselines /\ request \in Requests
  /\ checkout \in [Keys -> [head : Revisions \cup {"none"}, files : SUBSET Files]]
  /\ broken \in [Keys -> BOOLEAN]
  /\ work \in [Suites \X {Stem[f] : f \in Files} -> Lefts]
  /\ key \in Keys \cup {0}
  /\ suite \in Suites \cup {0}
  /\ DOMAIN results \subseteq Files
  /\ \A f \in DOMAIN results :
       results[f] \in [status : ExternalStatuses, run : Runs]
  /\ exit \in {"none", "running", "green", "red", "died"}
  /\ \/ report \in {NoReport, Torn}
     \/ report \in [file : {"whole"}, pin : Pins, of : SUBSET Files]
  /\ fresh \in BOOLEAN

\* The fetch of a key; between two keys, or past the last.
Fetching == {"fetch", "remove", "checkout"}
Past == {"keys", "write", "exit"}

\* The keys whose fetch this session has behind it.
Fetched == {k \in request.keys : k < key \/ (k = key /\ pc \in Past \cup {"suites"})}

\* While files are fetched no HEAD is there to be taken for a finished checkout,
\* and what one key's fetch does leaves the checkouts of the others alone.
CheckoutInv ==
  /\ pc \in Fetching \cup {"suites"} => key \in request.keys
  /\ pc = "remove" => broken[key]
  /\ pc = "checkout" =>
       /\ ~broken[key]
       /\ checkout[key].head = "none"
       /\ checkout[key].files \subseteq Tree[pin[key]]
  /\ pc # "idle" => \A k \in Fetched : checkout[k].head = pin[k]
  /\ \A k \in Keys : ~broken[k] /\ checkout[k].head # "none" =>
       checkout[k].files = Tree[checkout[k].head]

\* The suites that this session is done with.
Over(s) ==
  /\ s \in Selected
  /\ KeyOf[s] < key \/ (KeyOf[s] = key /\ (pc \in Past \/ s < suite))

\* A file is judged by its own run, and the exit status by the files.
Judged ==
  /\ pc = "clear" => DOMAIN results = {} /\ suite = 0 /\ key = 0
  /\ exit \in {"green", "red"} => pc = "idle"
  /\ exit = "green" => ExitCode = 0
  /\ exit = "red" => ExitCode = 1
  /\ UniqueStems => \A f \in DOMAIN results :
       results[f].status = Classify(results[f].run, Probed(f), results[f].run.left)

\* What is read as a report after an exit status is this session's, whole; and a
\* session that found none has written none before its end.
Reported ==
  /\ pc = "write" => report = Torn
  /\ pc = "exit" \/ exit \in {"green", "red"} => report = Written
  /\ fresh /\ pc \notin {"idle", "write", "exit"} => report = NoReport

\* The keys and their suites are done one after the other, so no result is of a
\* key whose checkout may still change, and an artifact is left by a file of its
\* stem that this session has classified.
Progress ==
  pc \notin {"idle", "clear"} =>
    /\ pc \in {"write", "exit"} => \A k \in request.keys : k <= key
    /\ suite # 0 => /\ suite \in Selected /\ KeyOf[suite] <= key
                    /\ pc \in Fetching => KeyOf[suite] < key
    /\ \A f \in DOMAIN results :
         f \in Asked /\ SuiteOf[f] \in Selected /\ SuiteOf[f] <= suite
    /\ \A f \in Asked : Over(SuiteOf[f]) => f \in DOMAIN results
    /\ \A s \in Suites, f \in Files : work[<<s, Stem[f]>>] # "none" =>
         \E g \in DOMAIN results : SuiteOf[g] = s /\ Stem[g] = Stem[f]

ExternalInv == TypeOK /\ CheckoutInv /\ Judged /\ Reported /\ Progress

\* A checkout that is reused, or that a session which died has left, holds exactly
\* the files of its commit, and keeps them while the later keys are fetched; the
\* one exception is an interrupted rm -rf.
CheckoutIsTheCommit ==
  pc # "idle" =>
    \A k \in Fetched : ~broken[k] => checkout[k].files = Tree[pin[k]]

\* A green run hides nothing: every file that verilog2hif, left to itself, handles
\* worse than the baseline, or crashes on without one, fails the run; save what a
\* known TIMEOUT does after the short probe.
GreenIsEarned ==
  exit = "green" /\ UniqueStems =>
    \A f \in DOMAIN results :
      LET run == results[f].run IN
      IF baseline[f] = "none" THEN Deserved(run) # "CRASH"
      ELSE \/ Severity[Deserved(run)] <= Severity[baseline[f]]
           \/ baseline[f] = "TIMEOUT" /\ run.at = "late"

\* A red run is not a false alarm: some file deserves worse than its baseline.
RedIsReal ==
  exit = "red" /\ UniqueStems =>
    \E f \in DOMAIN results :
      LET run == results[f].run IN
      IF baseline[f] = "none" THEN Deserved(run) = "CRASH"
      ELSE Severity[Deserved(run)] > Severity[baseline[f]]

\* A whole report tells of every file of the pinned commits that was asked for and is
\* not excluded, and of no other: no key's results displace another's.
ReportIsComplete ==
  [][report' # report /\ report'.file = "whole" =>
       /\ report'.pin = pin
       /\ \A f \in Files : LET k == KeyOf[SuiteOf[f]] IN
            ~broken[k] =>
              (f \in report'.of <=>
                 /\ SuiteOf[f] \in Selected
                 /\ f \in (Tree[pin[k]] \cap request.files) \ Excluded)]_vars

-----------------------------------------------------------------------------
(* NightlyJob takes a session that finds no report for its step External.    *)

Ended == pc = "idle" /\ exit # "none"
JobFiles == [f \in DOMAIN results |->
               [status |-> results[f].status, expected |-> baseline[f]]]

Job == INSTANCE NightlyJob WITH
  Repos <- << >>, CuratedRuns <- {},
  ExternalRuns <- UNION {
    [of -> [status : ExternalStatuses, expected : ExternalStatuses \cup {"none"}]] :
      of \in SUBSET Files},
  step <- IF Ended THEN "publish" ELSE "external",
  status <- IF Ended /\ exit # "green" THEN "failure" ELSE "success",
  external <- [file |-> IF Ended THEN report.file ELSE "none",
               of |-> IF Ended /\ report.file = "whole" THEN JobFiles ELSE << >>],
  curated <- [file |-> "whole", of |-> << >>], agrees <- "yes",
  page <- [curated |-> "nothing", external |-> "nothing"],
  key <- "none", suites <- << >>, remembered <- "none"

\* A session that finds no report, whatever it fetches, classifies and dies of, is
\* one step External of the job: no report, a torn one or one it did not live to
\* answer for, and a failure; or a report of the files it classified and the exit
\* status that NightlyJob computes from them.
SessionIsTheJobsStep == [][pc # "idle" /\ fresh => Job!External]_(Job!vars)

-----------------------------------------------------------------------------
(* A session comes to its end: its loops always have a next element, and no  *)
(* step takes it back.                                                       *)

\* Where the loops over keys, files and suites are not done, one key, file or suite
\* is next and no other: nothing that was asked for is stepped over, and the loop
\* never finds itself without a successor, whatever the options leave out.
NeverStuck ==
  /\ pc = "keys" /\ (\E k \in request.keys : k > key) =>
       \E k \in Keys : NextKey(k) /\ \A l \in Keys : NextKey(l) => l = k
  /\ pc = "suites" /\ ~(Listed \subseteq DOMAIN results) =>
       \E f \in Files : Due(f) /\ \A g \in Files : Due(g) => g = f
  /\ pc = "suites" /\ LaterSuites # {} =>
       \E s \in LaterSuites : \A t \in LaterSuites : s <= t

\* A session that does not end goes to a later key, or to a later stage of the same
\* one; it removes or checks out something more of that key's repository, or comes
\* to a later suite, or to a result more, and never loses a result it has.
Stage == [idle |-> 0, clear |-> 0, fetch |-> 1, remove |-> 2, checkout |-> 3,
          suites |-> 4, keys |-> 5, write |-> 6, exit |-> 7]
MoreDone ==
  \/ /\ pc = "remove"
     /\ \/ /\ checkout'[key].files \subseteq checkout[key].files
           /\ checkout'[key].files # checkout[key].files
        \/ /\ checkout'[key].files = checkout[key].files
           /\ checkout[key].head # "none" /\ checkout'[key].head = "none"
  \/ /\ pc = "checkout"
     /\ checkout[key].files \subseteq checkout'[key].files
     /\ checkout'[key].files # checkout[key].files
  \/ /\ pc = "suites"
     /\ suite' > suite \/ DOMAIN results' # DOMAIN results
Forward ==
  /\ inputs' = inputs /\ DOMAIN results \subseteq DOMAIN results'
  /\ \/ key' > key
     \/ key' = key /\ Stage[pc'] > Stage[pc]
     \/ key' = key /\ pc' = pc /\ MoreDone
NeverBack == [][pc # "idle" /\ pc' # "idle" => Forward]_vars

=============================================================================
