-------------------------- MODULE NightlyJob_proofs --------------------------
(***************************************************************************)
(* Proofs about NightlyJob, for any repositories and whatever the corpus   *)
(* and the external suites come to: a remembered night has passed every    *)
(* step, the page tells what the tests found and counts all that ran, and  *)
(* NightlyGate's Test and Save are all the job does.                       *)
(***************************************************************************)
EXTENDS NightlyJob, FiniteSetTheorems, SequenceTheorems, TLAPS

LEMMA ReportFiles ==
  /\ Missing.file = "none" /\ Torn.file = "torn" /\ Missing # Torn
  /\ \A d : File("whole", d).file = "whole" /\ File("whole", d).of = d
  /\ \A d : File("whole", d) # Missing
<1>1. Missing.file = "none" /\ Torn.file = "torn"
  BY DEF Missing, Torn, File
<1>2. \A d : File("whole", d).file = "whole" /\ File("whole", d).of = d
  BY DEF File
<1> QED BY <1>1, <1>2

LEMMA BeforeIs ==
  /\ Before("curated") <=> step \in {"build", "ctest"}
  /\ Before("external") <=> step \in {"build", "ctest", "curated"}
  /\ Before("publish") <=> step \in {"build", "ctest", "curated", "external"}
  /\ Before("upload") <=> step \in {"build", "ctest", "curated", "external", "publish"}
  /\ Before("remember") <=>
       step \in {"build", "ctest", "curated", "external", "publish", "upload"}
BY DEF Before

LEMMA BeforeNext ==
  /\ Before("curated")' <=> step' \in {"build", "ctest"}
  /\ Before("external")' <=> step' \in {"build", "ctest", "curated"}
  /\ Before("publish")' <=> step' \in {"build", "ctest", "curated", "external"}
  /\ Before("upload")' <=> step' \in {"build", "ctest", "curated", "external", "publish"}
  /\ Before("remember")' <=>
       step' \in {"build", "ctest", "curated", "external", "publish", "upload"}
BY DEF Before

LEMMA Exits ==
  /\ \A designs : CuratedExit(designs) \in {0, 1}
  /\ \A files : ExternalExit(files) \in {0, 1}
BY DEF CuratedExit, ExternalExit

LEMMA Lengths ==
  /\ Len(Repos) \in Nat
  /\ << >> \in Seq(Endings) /\ Len(<< >>) = 0
  /\ suites \in Seq(Endings) => Len(suites) \in Nat /\ DOMAIN suites = 1..Len(suites)
<1>1. Len(Repos) \in Nat
  BY JobAssumption
<1>2. << >> \in Seq(Endings) /\ Len(<< >>) = 0
  BY EmptySeq
<1> QED BY <1>1, <1>2

LEMMA InitInv == Init => JobInv
<1> SUFFICES ASSUME Init PROVE JobInv
  OBVIOUS
<1>1. TypeOK
  <2>1. page \in [curated : Sections, external : Sections]
    BY DEF Init, Unpublished, Sections
  <2>2. suites \in Seq(Endings)
    BY Lengths DEF Init
  <2>3. step \in DOMAIN Following \cup {"done"}
    BY DEF Init, Following
  <2> QED BY <2>1, <2>2, <2>3 DEF Init, TypeOK, Fingerprints
<1>2. SuccessSoFar
  BY BeforeIs DEF Init, SuccessSoFar
<1>3. Leavings
  <2>1. Len(suites) <= Len(Repos)
    <3>1. Len(suites) = 0
      BY Lengths DEF Init
    <3>2. Len(Repos) \in Nat
      BY Lengths
    <3> QED BY <3>1, <3>2
  <2>2. Before("external") /\ Before("publish") /\ Before("remember") /\ Before("curated")
    BY BeforeIs DEF Init
  <2>3. external.file = "none" /\ curated = Missing /\ external = Missing
    BY ReportFiles DEF Init
  <2> QED BY <2>1, <2>2, <2>3 DEF Init, Leavings
<1> QED BY <1>1, <1>2, <1>3 DEF JobInv

LEMMA BuildStep == JobInv /\ Build => JobInv'
<1> SUFFICES ASSUME JobInv, Build PROVE JobInv'
  OBVIOUS
<1>1. step = "build" /\ step' = "ctest" /\ status' \in {"success", "failure"}
  BY DEF Build, Succeed, Fail, Following, JobInv, TypeOK
<1>2. TypeOK'
  BY <1>1 DEF Build, JobInv, TypeOK, Following
<1>3. SuccessSoFar'
  BY <1>1, BeforeNext DEF SuccessSoFar
<1>4. Leavings'
  BY <1>1, BeforeIs, BeforeNext, ReportFiles DEF Build, JobInv, Leavings, Section
<1> QED BY <1>2, <1>3, <1>4 DEF JobInv

LEMMA SkipStep == JobInv /\ Skip => JobInv'
<1> SUFFICES ASSUME JobInv, Skip PROVE JobInv'
  OBVIOUS
<1>1. \/ step = "ctest" /\ step' = "curated"
      \/ step = "curated" /\ step' = "external"
      \/ step = "external" /\ step' = "publish"
  BY DEF Skip, Succeed, Following
<1>2. status = "failure" /\ status' = "failure"
  BY DEF Skip, Succeed
<1>3. UNCHANGED <<key, suites, curated, external, agrees, page, remembered>>
  BY DEF Skip
<1>4. TypeOK'
  BY <1>1, <1>2, <1>3 DEF JobInv, TypeOK, Following
<1>5. SuccessSoFar'
  BY <1>2 DEF SuccessSoFar
<1>6. Leavings'
  BY <1>1, <1>2, <1>3, BeforeIs, BeforeNext
     DEF JobInv, Leavings, SuitesPassed, CuratedPassed, Section
<1> QED BY <1>4, <1>5, <1>6 DEF JobInv

LEMMA SuiteStep == JobInv /\ Suite => JobInv'
<1> SUFFICES ASSUME JobInv, Suite PROVE JobInv'
  OBVIOUS
<1>1. PICK said \in Endings :
        /\ suites' = Append(suites, said)
        /\ IF said = "killed" THEN Fail ELSE UNCHANGED <<step, status>>
  BY DEF Suite
<1>2. /\ suites \in Seq(Endings) /\ suites' \in Seq(Endings)
      /\ Len(suites') = Len(suites) + 1 /\ suites'[Len(suites')] = said
  <2>1. suites \in Seq(Endings)
    BY DEF JobInv, TypeOK
  <2> QED BY <1>1, <2>1, AppendProperties
<1>3. Len(suites') <= Len(Repos)
  BY <1>2, Lengths DEF Suite
<1>4. /\ step = "ctest" /\ status = "success"
      /\ UNCHANGED <<key, curated, external, agrees, page, remembered>>
  BY DEF Suite
<1>5. \/ step' = "ctest" /\ status' = "success"
      \/ step' = "curated" /\ status' = "failure" /\ suites'[Len(suites')] = "killed"
  BY <1>1, <1>2, <1>4 DEF Fail, Following
<1>6. TypeOK'
  BY <1>2, <1>4, <1>5 DEF JobInv, TypeOK, Following
<1>7. SuccessSoFar'
  BY <1>5, BeforeNext DEF SuccessSoFar
<1>8. Leavings'
  BY <1>3, <1>4, <1>5, BeforeIs, BeforeNext, ReportFiles DEF JobInv, Leavings, Section
<1> QED BY <1>6, <1>7, <1>8 DEF JobInv

LEMMA CTestStep == JobInv /\ CTestEnds => JobInv'
<1> SUFFICES ASSUME JobInv, CTestEnds PROVE JobInv'
  OBVIOUS
<1>1. /\ step = "ctest" /\ step' = "curated"
      /\ Len(suites) = Len(Repos)
      /\ UNCHANGED <<key, suites, curated, external, agrees, page, remembered>>
  BY DEF CTestEnds, Succeed, Fail, Following
<1>2. status' \in {"success", "failure"} /\ (status' = "success" => SuitesPassed)
  BY <1>1 DEF CTestEnds, Succeed, Fail, SuitesPassed
<1>3. TypeOK'
  BY <1>1, <1>2 DEF JobInv, TypeOK, Following
<1>4. SuccessSoFar'
  BY <1>1, <1>2, BeforeNext DEF SuccessSoFar, SuitesPassed
<1>5. Leavings'
  BY <1>1, BeforeIs, BeforeNext, ReportFiles DEF JobInv, Leavings, Section
<1> QED BY <1>3, <1>4, <1>5 DEF JobInv

LEMMA CuratedStep == JobInv /\ Curated => JobInv'
<1> SUFFICES ASSUME JobInv, Curated PROVE JobInv'
  OBVIOUS
<1>1. /\ step = "curated" /\ step' = "external" /\ status = "success"
      /\ UNCHANGED <<key, suites, external, page, remembered>>
  BY DEF Curated, Succeed, Fail, Following
<1>2. SuitesPassed /\ external = Missing
  BY <1>1, BeforeIs DEF JobInv, SuccessSoFar, Leavings
<1>3. status' \in {"success", "failure"} /\ agrees' \in {"not run", "yes", "no"}
  BY DEF Curated, Succeed, Fail, JobInv, TypeOK
<1>4. \/ curated' \in {Missing, Torn}
      \/ curated' \in Whole(CuratedRuns)
  BY DEF Curated
<1>5. \/ curated' \in {Missing, Torn}
      \/ curated'.file = "whole" /\ curated'.of \in CuratedRuns
  BY <1>4 DEF Whole
<1>6. status' = "success" => CuratedPassed'
  <2> SUFFICES ASSUME status' = "success" PROVE CuratedPassed'
    OBVIOUS
  <2>1. /\ curated'.file = "whole"
        /\ CuratedExit(curated'.of) = 0 /\ agrees' = "yes"
    BY DEF Curated, Succeed, Fail
  <2> QED BY <2>1 DEF CuratedPassed
<1>7. TypeOK'
  BY <1>1, <1>3, <1>5 DEF JobInv, TypeOK, Following
<1>8. SuccessSoFar'
  BY <1>1, <1>2, <1>6, BeforeNext DEF SuccessSoFar, SuitesPassed
<1>9. Leavings'
  BY <1>1, <1>2, BeforeIs, BeforeNext, ReportFiles
     DEF JobInv, Leavings, SuitesPassed, Section
<1> QED BY <1>7, <1>8, <1>9 DEF JobInv

LEMMA ExternalStep == JobInv /\ External => JobInv'
<1> SUFFICES ASSUME JobInv, External PROVE JobInv'
  OBVIOUS
<1>1. /\ step = "external" /\ step' = "publish" /\ status = "success"
      /\ UNCHANGED <<key, suites, curated, agrees, page, remembered>>
  BY DEF External, Succeed, Fail, Following
<1>2. SuitesPassed /\ CuratedPassed
  BY <1>1, BeforeIs DEF JobInv, SuccessSoFar
<1>3. status' \in {"success", "failure"}
  BY DEF External, Succeed, Fail
<1>4. \/ external' \in {Missing, Torn}
      \/ external' \in Whole(ExternalRuns)
  BY DEF External
<1>5. \/ external' \in {Missing, Torn}
      \/ external'.file = "whole" /\ external'.of \in ExternalRuns
  BY <1>4 DEF Whole
<1>6. status' = "success" => ExternalPassed'
  BY DEF External, Succeed, Fail, ExternalPassed
<1>7. TypeOK'
  BY <1>1, <1>3, <1>5 DEF JobInv, TypeOK, Following
<1>8. SuccessSoFar'
  BY <1>1, <1>2, <1>6, BeforeNext DEF SuccessSoFar, SuitesPassed, CuratedPassed
<1>9. Leavings'
  BY <1>1, <1>2, BeforeIs, BeforeNext, ReportFiles
     DEF JobInv, Leavings, SuitesPassed, CuratedPassed, Section
<1> QED BY <1>7, <1>8, <1>9 DEF JobInv

LEMMA PublishStep == JobInv /\ Publish => JobInv'
<1> SUFFICES ASSUME JobInv, Publish PROVE JobInv'
  OBVIOUS
<1>1. /\ step = "publish" /\ step' = "upload"
      /\ UNCHANGED <<key, suites, curated, external, agrees, remembered>>
  BY DEF Publish, Succeed, Fail, Following
<1>2. \/ status' = "failure" /\ page' = page
      \/ /\ status' \in {status, "failure"}
         /\ "torn" \notin {curated.file, external.file}
         /\ page' = [curated |-> Section(curated), external |-> Section(external)]
  BY DEF Publish, Succeed, Fail
<1>3. page = Unpublished
  BY <1>1, BeforeIs DEF JobInv, Leavings
<1>4. status' = "success" =>
        page' = [curated |-> "rendered", external |-> "rendered"]
  <2>1. status = "success" => CuratedPassed /\ ExternalPassed
    BY <1>1, BeforeIs DEF JobInv, SuccessSoFar
  <2> QED BY <1>2, <2>1 DEF CuratedPassed, ExternalPassed, Section
<1>5. page' \in [curated : Sections, external : Sections]
  <2>1. \A report : Section(report) \in Sections
    BY DEF Section, Sections
  <2>2. Unpublished \in [curated : Sections, external : Sections]
    BY DEF Unpublished, Sections
  <2> QED BY <1>2, <1>3, <2>1, <2>2
<1>6. status' \in {"success", "failure"}
  BY <1>2 DEF JobInv, TypeOK
<1>7. TypeOK'
  BY <1>1, <1>5, <1>6 DEF JobInv, TypeOK, Following
<1>8. SuccessSoFar'
  BY <1>1, <1>2, <1>4, BeforeIs, BeforeNext
     DEF JobInv, SuccessSoFar, SuitesPassed, CuratedPassed, ExternalPassed
<1>9. Leavings'
  BY <1>1, <1>2, <1>3, BeforeIs, BeforeNext, ReportFiles
     DEF JobInv, Leavings, SuitesPassed, CuratedPassed, Section
<1> QED BY <1>7, <1>8, <1>9 DEF JobInv

LEMMA UploadStep == JobInv /\ Upload => JobInv'
<1> SUFFICES ASSUME JobInv, Upload PROVE JobInv'
  OBVIOUS
<1>1. /\ step = "upload" /\ step' = "remember" /\ status' \in {status, "failure"}
      /\ UNCHANGED <<key, suites, curated, external, agrees, page, remembered>>
  BY DEF Upload, Succeed, Fail, Following
<1>2. TypeOK'
  BY <1>1 DEF JobInv, TypeOK, Following
<1>3. SuccessSoFar'
  BY <1>1, BeforeIs, BeforeNext
     DEF JobInv, SuccessSoFar, SuitesPassed, CuratedPassed, ExternalPassed
<1>4. Leavings'
  BY <1>1, BeforeIs, BeforeNext DEF JobInv, Leavings, SuitesPassed, CuratedPassed, Section
<1> QED BY <1>2, <1>3, <1>4 DEF JobInv

LEMMA RememberStep == JobInv /\ Remember => JobInv'
<1> SUFFICES ASSUME JobInv, Remember PROVE JobInv'
  OBVIOUS
<1>1. /\ step = "remember" /\ step' = "done"
      /\ remembered' = IF status = "success" THEN key ELSE "none"
      /\ UNCHANGED <<status, key, suites, curated, external, agrees, page>>
  BY DEF Remember, Succeed, Following
<1>2. TypeOK'
  BY <1>1 DEF JobInv, TypeOK, Following, Fingerprints
<1>3. SuccessSoFar'
  BY <1>1, BeforeIs, BeforeNext
     DEF JobInv, SuccessSoFar, SuitesPassed, CuratedPassed, ExternalPassed
<1>4. Leavings'
  BY <1>1, BeforeIs, BeforeNext DEF JobInv, Leavings, SuitesPassed, CuratedPassed, Section
<1> QED BY <1>2, <1>3, <1>4 DEF JobInv

\* The job's invariant: what has succeeded, and what every step has left.
THEOREM JobInvariant == Spec => []JobInv
<1>1. JobInv /\ UNCHANGED vars => JobInv'
  BY DEF vars, JobInv, TypeOK, SuccessSoFar, Leavings, Before,
         SuitesPassed, CuratedPassed, ExternalPassed, Section
<1>2. JobInv /\ [Next]_vars => JobInv'
  BY <1>1, BuildStep, SkipStep, SuiteStep, CTestStep, CuratedStep, ExternalStep,
     PublishStep, UploadStep, RememberStep DEF Next
<1> QED BY InitInv, <1>2, PTL DEF Spec

-----------------------------------------------------------------------------
LEMMA CuratedGreen ==
  ASSUME NEW designs \in CuratedRuns, CuratedExit(designs) = 0
  PROVE  \A d \in DOMAIN designs : designs[d].status \in {"PASS", "XFAIL", "CLEAN_REJECT"}
BY JobAssumption DEF CuratedExit, Failing, Verdicts, Failures

LEMMA ExternalGreen ==
  ASSUME NEW files \in ExternalRuns, ExternalExit(files) = 0
  PROVE  \A f \in DOMAIN files : LET file == files[f] IN
           IF file.expected = "none" THEN file.status # "CRASH"
           ELSE Severity[file.status] <= Severity[file.expected]
<1> SUFFICES ASSUME NEW f \in DOMAIN files
             PROVE  IF files[f].expected = "none" THEN files[f].status # "CRASH"
                    ELSE Severity[files[f].status] <= Severity[files[f].expected]
  BY Zenon
<1>1. /\ files[f].status \in ExternalStatuses
      /\ files[f].expected \in ExternalStatuses \cup {"none"}
  BY JobAssumption
<1>2. \A s \in ExternalStatuses : Severity[s] \in Nat
  BY DEF ExternalStatuses, StatusCols, Failures, Severity
<1>3. /\ Compared(files, f) # "REGRESSION"
      /\ ~(Compared(files, f) = "NEW" /\ files[f].status = "CRASH")
  BY DEF ExternalExit
<1> QED BY <1>1, <1>2, <1>3 DEF Compared, Compare

\* RememberedIsTested, of every night: a fingerprint is remembered only after
\* every step has succeeded, and what that says of the tools (of a design that is
\* cleanly rejected, nothing).
THEOREM RememberedNightsAreTested == Spec => []RememberedIsTested
<1>1. ASSUME JobInv, remembered # "none" PROVE RememberedIsTested
  <2>1. status = "success" /\ remembered = key /\ step = "done"
    BY <1>1 DEF JobInv, Leavings
  <2>2. /\ SuitesPassed /\ CuratedPassed /\ ExternalPassed
        /\ page = [curated |-> "rendered", external |-> "rendered"]
    BY <1>1, <2>1, BeforeIs DEF JobInv, SuccessSoFar
  <2>3. curated.of \in CuratedRuns /\ external.of \in ExternalRuns
    BY <1>1, <2>2, ReportFiles DEF JobInv, TypeOK, CuratedPassed, ExternalPassed
  <2>4. \A d \in DOMAIN curated.of :
          curated.of[d].status \in {"PASS", "XFAIL", "CLEAN_REJECT"}
    BY <2>2, <2>3, CuratedGreen DEF CuratedPassed
  <2>5. \A f \in DOMAIN external.of : LET file == external.of[f] IN
          IF file.expected = "none" THEN file.status # "CRASH"
          ELSE Severity[file.status] <= Severity[file.expected]
    BY <2>2, <2>3, ExternalGreen, Zenon DEF ExternalPassed
  <2> QED BY <2>1, <2>2, <2>4, <2>5, Zenon DEF RememberedIsTested, ExternalPassed
<1>2. JobInv => RememberedIsTested
  BY <1>1 DEF RememberedIsTested
<1> QED BY JobInvariant, <1>2, PTL

LEMMA Culprits ==
  /\ CuratedCulprit <=> CuratedExit(curated.of) = 1
  /\ ExternalCulprit <=> ExternalExit(external.of) = 1
<1>1. CuratedCulprit <=> \E d \in DOMAIN curated.of : curated.of[d].status \in Failing
  <2> DEFINE designs == curated.of
             entry(d) == [design |-> d, status |-> designs[d].status]
  <2>1. RenderCurated(designs).anomalies =
          {entry(d) : d \in {e \in DOMAIN designs : designs[e].status # "PASS"}}
    BY DEF RenderCurated
  <2>2. \A d : entry(d).status = designs[d].status
    OBVIOUS
  <2> HIDE DEF entry
  <2> QED BY <2>1, <2>2 DEF CuratedCulprit, Failing
<1>2. ExternalCulprit <=>
        \E f \in DOMAIN external.of :
          \/ Compared(external.of, f) = "REGRESSION"
          \/ Compared(external.of, f) = "NEW" /\ external.of[f].status = "CRASH"
  <2> DEFINE files == external.of
             line(f) ==
               [file |-> f, verdict |-> Compared(files, f), status |-> files[f].status]
  <2>1. RenderExternal(files).listed =
          {line(f) : f \in {g \in DOMAIN files : Compared(files, g) # "MATCH"}}
    BY DEF RenderExternal
  <2>2. \A f : line(f).verdict = Compared(files, f) /\ line(f).status = files[f].status
    OBVIOUS
  <2> HIDE DEF line
  <2> QED BY <2>1, <2>2 DEF ExternalCulprit
<1> QED BY <1>1, <1>2 DEF CuratedExit, ExternalExit

\* PageTellsTheVerdict, of every night: a published page is clean exactly if the
\* suites passed and both runners found nothing, and a green job's page is clean.
THEOREM ThePageTellsTheVerdict == Spec => []PageTellsTheVerdict
<1>1. ASSUME JobInv PROVE PageTellsTheVerdict
  <2>1. page # Unpublished =>
          page = [curated |-> Section(curated), external |-> Section(external)]
    BY <1>1 DEF JobInv, Leavings
  <2>2. /\ page.curated = "rendered" => page # Unpublished /\ curated.file # "none"
        /\ page.external = "rendered" => page # Unpublished /\ external.file # "none"
    <3>1. Unpublished.curated # "rendered" /\ Unpublished.external # "rendered"
      BY DEF Unpublished
    <3>2. \A report : Section(report) = "rendered" => report.file # "none"
      BY DEF Section
    <3> QED BY <2>1, <3>1, <3>2
  <2>3. ASSUME page # Unpublished, CleanPage
        PROVE  SuitesPassed /\ CuratedPassed /\ ExternalPassed
    <3>1. external.file = "whole" /\ external # Missing
      BY <1>1, <2>2, <2>3, ReportFiles DEF CleanPage, JobInv, TypeOK, Leavings
    <3>2. SuitesPassed /\ CuratedPassed
      BY <1>1, <3>1 DEF JobInv, Leavings
    <3> QED BY <2>3, <3>1, <3>2, Culprits, Exits DEF CleanPage, ExternalPassed
  <2>4. ASSUME page # Unpublished, CuratedPassed, ExternalPassed
        PROVE  CleanPage
    <3>1. page = [curated |-> "rendered", external |-> "rendered"]
      BY <2>1, <2>4 DEF CuratedPassed, ExternalPassed, Section
    <3> QED BY <2>4, <3>1, Culprits DEF CleanPage, CuratedPassed, ExternalPassed
  <2>5. ASSUME ~Before("upload"), status = "success"
        PROVE  CleanPage
    <3>1. /\ page = [curated |-> "rendered", external |-> "rendered"]
          /\ CuratedPassed /\ ExternalPassed
      BY <1>1, <2>5, BeforeIs DEF JobInv, SuccessSoFar
    <3> QED BY <2>4, <3>1 DEF Unpublished
  <2> QED BY <2>3, <2>4, <2>5, Culprits DEF PageTellsTheVerdict
<1>2. JobInv => PageTellsTheVerdict
  BY <1>1
<1> QED BY JobInvariant, <1>2, PTL

-----------------------------------------------------------------------------
(* The numbers of the page.  A sum over a table is a sum of sizes of parts   *)
(* of the entries, and so the size of what the parts cover.                  *)

\* The partial sums of MapThenSumSet, which takes the elements of a set in the
\* order in which CHOOSE picks them from what is left.
Pick(s) == CHOOSE x \in s : TRUE
PartialSums(S, w, sums) ==
  sums = [s \in SUBSET S |-> IF s = {} THEN 0 ELSE w[Pick(s)] + sums[s \ {Pick(s)}]]

\* Two ways to add the same weights agree: a smallest set on which they differ
\* cannot be.
LEMMA SumsAreUnique ==
  ASSUME NEW S, IsFiniteSet(S), NEW w, NEW a, NEW b,
         PartialSums(S, w, a), PartialSums(S, w, b)
  PROVE  a = b
<1> DEFINE less == StrictSubsetOrdering(S)
           differ == {s \in SUBSET S : a[s] # b[s]}
<1>1. IsWellFoundedOn(less, SUBSET S)
  BY FS_StrictSubsetOrderingWellFounded, FS_FiniteSubsetsOfFinite
<1>2. ASSUME differ # {} PROVE FALSE
  <2>1. PICK s \in differ : \A t \in differ : <<t, s>> \notin less
    <3> HIDE DEF less
    <3> QED BY <1>1, <1>2, WFMin
  <2>2. CASE s = {}
    BY <2>1, <2>2 DEF PartialSums
  <2>3. CASE s # {}
    <3> DEFINE rest == s \ {Pick(s)}
    <3>1. Pick(s) \in s
      BY <2>3 DEF Pick
    <3>2. rest \in SUBSET S /\ <<rest, s>> \in less
      BY <2>1, <3>1 DEF StrictSubsetOrdering
    <3>3. a[rest] = b[rest]
      BY <2>1, <3>2
    <3>4. a[s] = w[Pick(s)] + a[rest] /\ b[s] = w[Pick(s)] + b[rest]
      BY <2>1, <2>3 DEF PartialSums
    <3> QED BY <2>1, <3>3, <3>4
  <2> QED BY <2>2, <2>3
<1>3. \A s \in SUBSET S : a[s] = b[s]
  BY <1>2
<1>4. a = [s \in SUBSET S |-> a[s]] /\ b = [s \in SUBSET S |-> b[s]]
  BY DEF PartialSums
<1> QED BY <1>3, <1>4

\* The sizes of disjoint finite sets add up to the size of their union.
Parts(S, P) ==
  /\ IsFiniteSet(UNION {P[x] : x \in S})
  /\ \A x, y \in S : x # y => P[x] \cap P[y] = {}
Union(P, s) == UNION {P[x] : x \in s}

LEMMA SizesAddUp ==
  ASSUME NEW S, NEW P, Parts(S, P),
         NEW w, \A x \in S : w[x] = Cardinality(P[x])
  PROVE  PartialSums(S, w, [s \in SUBSET S |-> Cardinality(Union(P, s))])
<1> DEFINE sizes == [s \in SUBSET S |-> Cardinality(Union(P, s))]
<1>1. sizes[{}] = 0
  <2>1. Union(P, {}) = {}
    BY DEF Union
  <2> QED BY <2>1, FS_EmptySet
<1>2. ASSUME NEW s \in SUBSET S, s # {}
      PROVE  sizes[s] = w[Pick(s)] + sizes[s \ {Pick(s)}]
  <2> DEFINE rest == s \ {Pick(s)}
  <2>1. Pick(s) \in s
    BY <1>2 DEF Pick
  <2>2. Union(P, s) = P[Pick(s)] \cup Union(P, rest)
    BY <2>1 DEF Union
  <2>3. P[Pick(s)] \cap Union(P, rest) = {}
    <3>1. \A x \in rest : P[Pick(s)] \cap P[x] = {}
      BY <2>1 DEF Parts
    <3> QED BY <3>1 DEF Union
  <2>4. IsFiniteSet(P[Pick(s)]) /\ IsFiniteSet(Union(P, rest))
    <3>1. P[Pick(s)] \subseteq UNION {P[x] : x \in S}
      BY <2>1
    <3>2. Union(P, rest) \subseteq UNION {P[x] : x \in S}
      BY DEF Union
    <3> QED BY <3>1, <3>2, FS_Subset DEF Parts
  <2>5. Cardinality(Union(P, s)) = Cardinality(P[Pick(s)]) + Cardinality(Union(P, rest))
    <3>1. Cardinality(P[Pick(s)] \cap Union(P, rest)) = 0
      BY <2>3, FS_EmptySet
    <3>2. /\ Cardinality(P[Pick(s)]) \in Nat /\ Cardinality(Union(P, rest)) \in Nat
      BY <2>4, FS_CardinalityType
    <3>3. Cardinality(P[Pick(s)] \cup Union(P, rest)) =
            Cardinality(P[Pick(s)]) + Cardinality(Union(P, rest))
              - Cardinality(P[Pick(s)] \cap Union(P, rest))
      BY <2>4, FS_Union
    <3> QED BY <2>2, <3>1, <3>2, <3>3
  <2>6. w[Pick(s)] = Cardinality(P[Pick(s)])
    BY <2>1
  <2> QED BY <2>5, <2>6
<1>3. sizes = [s \in SUBSET S |->
                 IF s = {} THEN 0 ELSE w[Pick(s)] + sizes[s \ {Pick(s)}]]
  <2> HIDE DEF sizes
  <2>1. sizes = [s \in SUBSET S |-> sizes[s]]
    BY DEF sizes
  <2> QED BY <1>1, <1>2, <2>1
<1> QED BY <1>3 DEF PartialSums

LEMMA RowSumCounts ==
  ASSUME NEW row, IsFiniteSet(DOMAIN row), NEW P, Parts(DOMAIN row, P),
         \A x \in DOMAIN row : row[x] = Cardinality(P[x])
  PROVE  RowSum(row) = Cardinality(Union(P, DOMAIN row))
<1> DEFINE S == DOMAIN row
           sizes == [s \in SUBSET S |-> Cardinality(Union(P, s))]
           sum == CHOOSE sums : sums = [s \in SUBSET S |-> IF s = {} THEN 0
             ELSE row[CHOOSE x \in s : TRUE] + sums[s \ {CHOOSE x \in s : TRUE}]]
<1>1. PartialSums(S, row, sizes)
  BY SizesAddUp
<1>2. PartialSums(S, row, sum)
  BY <1>1 DEF PartialSums, Pick
<1>3. sum = sizes
  <2> HIDE DEF sum, sizes
  <2> QED BY <1>1, <1>2, SumsAreUnique
<1>4. RowSum(row) = sum[S]
  BY DEF RowSum, MapThenSumSet, MapThenFoldSet
<1>5. sizes[S] = Cardinality(Union(P, S))
  OBVIOUS
<1> QED BY <1>3, <1>4, <1>5

\* The other two sums of the page are sums of a row: the column of a table, and
\* the totals of its rows.
LEMMA ColumnIsARow ==
  ASSUME NEW summary, NEW s
  PROVE  ColumnSum(summary, s) =
           RowSum([g \in DOMAIN summary |->
                     IF s \in DOMAIN summary[g] THEN summary[g][s] ELSE 0])
<1> DEFINE S == DOMAIN summary
           w == [g \in S |-> IF s \in DOMAIN summary[g] THEN summary[g][s] ELSE 0]
           AddW(sums) == [t \in SUBSET S |-> IF t = {} THEN 0
             ELSE w[CHOOSE x \in t : TRUE] + sums[t \ {CHOOSE x \in t : TRUE}]]
           AddC(sums) == [t \in SUBSET S |-> IF t = {} THEN 0
             ELSE (IF s \in DOMAIN summary[CHOOSE x \in t : TRUE]
                   THEN summary[CHOOSE x \in t : TRUE][s] ELSE 0)
                  + sums[t \ {CHOOSE x \in t : TRUE}]]
<1>1. \A sums : AddW(sums) = AddC(sums)
  OBVIOUS
<1>2. (CHOOSE sums : sums = AddW(sums)) = (CHOOSE sums : sums = AddC(sums))
  <2> HIDE DEF AddW, AddC
  <2> QED BY <1>1, Zenon
<1>3. ColumnSum(summary, s) = (CHOOSE sums : sums = AddC(sums))[S]
  BY DEF ColumnSum, MapThenSumSet, MapThenFoldSet
<1>4. RowSum(w) = (CHOOSE sums : sums = AddW(sums))[S]
  <2>1. DOMAIN w = S
    OBVIOUS
  <2> HIDE DEF w
  <2> QED BY <2>1 DEF RowSum, MapThenSumSet, MapThenFoldSet
<1> QED BY <1>2, <1>3, <1>4

LEMMA RowTotalsAreARow ==
  ASSUME NEW table
  PROVE  SumOfRows(table) = RowSum([g \in DOMAIN table.rows |-> table.rows[g].total])
<1> DEFINE S == DOMAIN table.rows
           w == [g \in S |-> table.rows[g].total]
           AddW(sums) == [t \in SUBSET S |-> IF t = {} THEN 0
             ELSE w[CHOOSE x \in t : TRUE] + sums[t \ {CHOOSE x \in t : TRUE}]]
           AddT(sums) == [t \in SUBSET S |-> IF t = {} THEN 0
             ELSE table.rows[CHOOSE x \in t : TRUE].total + sums[t \ {CHOOSE x \in t : TRUE}]]
<1>1. \A sums : AddW(sums) = AddT(sums)
  OBVIOUS
<1>2. (CHOOSE sums : sums = AddW(sums)) = (CHOOSE sums : sums = AddT(sums))
  <2> HIDE DEF AddW, AddT
  <2> QED BY <1>1, Zenon
<1>3. SumOfRows(table) = (CHOOSE sums : sums = AddT(sums))[S]
  BY DEF SumOfRows, MapThenSumSet, MapThenFoldSet
<1>4. RowSum(w) = (CHOOSE sums : sums = AddW(sums))[S]
  <2>1. DOMAIN w = S
    OBVIOUS
  <2> HIDE DEF w
  <2> QED BY <2>1 DEF RowSum, MapThenSumSet, MapThenFoldSet
<1> QED BY <1>2, <1>3, <1>4

-----------------------------------------------------------------------------
(* What the counters of a report count.                                      *)

Holding(entries, g, s) ==
  {e \in DOMAIN entries : entries[e].group = g /\ entries[e].status = s}
Within(entries, cols) == {e \in DOMAIN entries : entries[e].status \in cols}

LEMMA CountsAre ==
  ASSUME NEW entries, NEW statuses
  PROVE  LET summary == Counts(entries, statuses) IN
         /\ DOMAIN summary = {entries[e].group : e \in DOMAIN entries}
         /\ \A g \in DOMAIN summary :
              /\ DOMAIN summary[g] = statuses
              /\ \A s \in statuses : summary[g][s] = Cardinality(Holding(entries, g, s))
BY DEF Counts, Holding

\* A sum over parts of the entries counts the entries that the parts cover.
LEMMA SumCountsEntries ==
  ASSUME NEW entries, IsFiniteSet(DOMAIN entries), NEW covered \in SUBSET DOMAIN entries,
         NEW row, IsFiniteSet(DOMAIN row), NEW P,
         \A x \in DOMAIN row : row[x] = Cardinality(P[x]),
         \A x, y \in DOMAIN row : x # y => P[x] \cap P[y] = {},
         Union(P, DOMAIN row) = covered
  PROVE  RowSum(row) = Cardinality(covered)
<1>1. IsFiniteSet(covered)
  BY FS_Subset
<1>2. Parts(DOMAIN row, P)
  BY <1>1 DEF Parts, Union
<1> QED BY <1>2, RowSumCounts

LEMMA GroupsAreFinite ==
  ASSUME NEW entries, IsFiniteSet(DOMAIN entries), NEW statuses
  PROVE  IsFiniteSet(DOMAIN Counts(entries, statuses))
<1> DEFINE S == DOMAIN Counts(entries, statuses)
           f == [e \in DOMAIN entries |-> entries[e].group]
<1>1. S = {entries[e].group : e \in DOMAIN entries}
  BY CountsAre
<1>2. f \in Surjection(DOMAIN entries, S)
  BY <1>1 DEF Surjection
<1> QED BY <1>2, FS_Surjection

LEMMA RowCounts ==
  ASSUME NEW entries, IsFiniteSet(DOMAIN entries), NEW statuses, IsFiniteSet(statuses),
         \A e \in DOMAIN entries : entries[e].status \in statuses,
         NEW g \in DOMAIN Counts(entries, statuses)
  PROVE  RowSum(Counts(entries, statuses)[g]) =
           Cardinality({e \in DOMAIN entries : entries[e].group = g})
<1> DEFINE row == Counts(entries, statuses)[g]
           P == [s \in statuses |-> Holding(entries, g, s)]
           covered == {e \in DOMAIN entries : entries[e].group = g}
<1>1. DOMAIN row = statuses /\ \A s \in DOMAIN row : row[s] = Cardinality(P[s])
  BY CountsAre
<1>2. \A x, y \in DOMAIN row : x # y => P[x] \cap P[y] = {}
  BY <1>1 DEF Holding
<1>3. Union(P, statuses) = covered
  <2>1. \A e : e \in covered <=> e \in DOMAIN entries /\ \E s \in statuses : e \in P[s]
    BY DEF Holding
  <2>2. \A s \in statuses : P[s] \subseteq DOMAIN entries
    BY DEF Holding
  <2> HIDE DEF P, covered
  <2> QED BY <2>1, <2>2 DEF Union
<1> HIDE DEF row, P
<1> QED BY <1>1, <1>2, <1>3, SumCountsEntries DEF row

LEMMA ColumnCounts ==
  ASSUME NEW entries, IsFiniteSet(DOMAIN entries), NEW statuses,
         \A e \in DOMAIN entries : entries[e].status \in statuses, NEW s
  PROVE  ColumnSum(Counts(entries, statuses), s) =
           Cardinality({e \in DOMAIN entries : entries[e].status = s})
<1> DEFINE summary == Counts(entries, statuses)
           S == DOMAIN summary
           column == [g \in S |-> IF s \in DOMAIN summary[g] THEN summary[g][s] ELSE 0]
           P == [g \in S |-> Holding(entries, g, s)]
           covered == {e \in DOMAIN entries : entries[e].status = s}
<1>1. S = {entries[e].group : e \in DOMAIN entries}
  BY CountsAre
<1>2. \A g \in S : column[g] = Cardinality(P[g])
  <2> SUFFICES ASSUME NEW g \in S PROVE column[g] = Cardinality(P[g])
    OBVIOUS
  <2>1. CASE s \in statuses
    BY <2>1, CountsAre
  <2>2. CASE s \notin statuses
    <3>1. Holding(entries, g, s) = {}
      BY <2>2 DEF Holding
    <3>2. column[g] = 0
      BY <2>2, CountsAre
    <3> QED BY <3>1, <3>2, FS_EmptySet
  <2> QED BY <2>1, <2>2
<1>3. \A x, y \in S : x # y => P[x] \cap P[y] = {}
  BY DEF Holding
<1>4. Union(P, S) = covered
  <2>1. \A e : e \in covered <=> e \in DOMAIN entries /\ \E g \in S : e \in P[g]
    BY <1>1 DEF Holding
  <2>2. \A g \in S : P[g] \subseteq DOMAIN entries
    BY DEF Holding
  <2> HIDE DEF P, covered, S
  <2> QED BY <2>1, <2>2 DEF Union
<1>5. IsFiniteSet(S)
  BY GroupsAreFinite
<1>6. DOMAIN column = S /\ covered \in SUBSET DOMAIN entries
  OBVIOUS
<1>7. RowSum(column) = Cardinality(covered)
  <2> HIDE DEF column, P, S, covered
  <2> QED BY <1>2, <1>3, <1>4, <1>5, <1>6, SumCountsEntries
<1> QED BY <1>7, ColumnIsARow

\* The row of totals over any columns counts the entries with those statuses.
LEMMA TotalsCount ==
  ASSUME NEW entries, IsFiniteSet(DOMAIN entries), NEW statuses,
         \A e \in DOMAIN entries : entries[e].status \in statuses,
         NEW cols, IsFiniteSet(cols)
  PROVE  RowSum([s \in cols |-> ColumnSum(Counts(entries, statuses), s)]) =
           Cardinality(Within(entries, cols))
<1> DEFINE row == [s \in cols |-> ColumnSum(Counts(entries, statuses), s)]
           P == [s \in cols |-> {e \in DOMAIN entries : entries[e].status = s}]
<1>1. \A s \in cols : row[s] = Cardinality(P[s])
  BY ColumnCounts
<1>2. Union(P, cols) = Within(entries, cols)
  BY DEF Union, Within
<1>3. Within(entries, cols) \in SUBSET DOMAIN entries
  BY DEF Within
<1>4. DOMAIN row = cols /\ \A x, y \in cols : x # y => P[x] \cap P[y] = {}
  OBVIOUS
<1>5. RowSum(row) = Cardinality(Within(entries, cols))
  <2> HIDE DEF row, P
  <2> QED BY <1>1, <1>2, <1>3, <1>4, SumCountsEntries
<1> QED BY <1>5

\* The rows of a table count each entry once.
LEMMA RowsCountAll ==
  ASSUME NEW entries, IsFiniteSet(DOMAIN entries), NEW statuses, IsFiniteSet(statuses),
         \A e \in DOMAIN entries : entries[e].status \in statuses
  PROVE  SumOfRows(Table(Counts(entries, statuses))) = Cardinality(DOMAIN entries)
<1> DEFINE summary == Counts(entries, statuses)
           S == DOMAIN summary
           P == [g \in S |-> {e \in DOMAIN entries : entries[e].group = g}]
           table == Table(summary)
           totals == [g \in S |-> table.rows[g].total]
<1>1. DOMAIN table.rows = S /\ \A g \in S : table.rows[g].total = RowSum(summary[g])
  BY DEF Table, Row
<1>2. \A g \in S : totals[g] = Cardinality(P[g])
  BY <1>1, RowCounts
<1>3. Union(P, S) = DOMAIN entries
  <2>1. S = {entries[e].group : e \in DOMAIN entries}
    BY CountsAre
  <2>2. \A e : e \in DOMAIN entries <=> \E g \in S : e \in P[g]
    BY <2>1
  <2> HIDE DEF P, S
  <2> QED BY <2>2 DEF Union
<1>4. IsFiniteSet(S)
  BY GroupsAreFinite
<1>5. DOMAIN totals = S /\ \A x, y \in S : x # y => P[x] \cap P[y] = {}
  OBVIOUS
<1>6. SumOfRows(table) = RowSum(totals)
  BY <1>1, RowTotalsAreARow
<1>7. RowSum(totals) = Cardinality(DOMAIN entries)
  <2> HIDE DEF totals, P, S
  <2> QED BY <1>2, <1>3, <1>4, <1>5, SumCountsEntries
<1> QED BY <1>6, <1>7

LEMMA StatusesAreFinite ==
  IsFiniteSet(Verdicts) /\ IsFiniteSet(StatusCols) /\ IsFiniteSet(ExternalStatuses)
<1>1. /\ {} \cup {"CLEAN_REJECT"} \cup {"TIMEOUT"} \cup {"FAIL"} \cup {"CRASH"} = Failures
      /\ Failures \cup {"PASS"} \cup {"XFAIL"} \cup {"XPASS"} = Verdicts
  BY DEF Verdicts, Failures
<1>2. IsFiniteSet(Failures)
  BY <1>1, FS_EmptySet, FS_AddElement
<1>3. IsFiniteSet(Verdicts)
  BY <1>1, <1>2, FS_AddElement
<1>4. StatusCols \in SUBSET Verdicts /\ ExternalStatuses \in SUBSET Verdicts
  BY DEF StatusCols, ExternalStatuses, Verdicts, Failures
<1> QED BY <1>3, <1>4, FS_Subset

\* The entries with a status of one set and those without add up.
LEMMA WithinAndWithout ==
  ASSUME NEW entries, IsFiniteSet(DOMAIN entries), NEW A \in SUBSET DOMAIN entries
  PROVE  Cardinality(A) + Cardinality(DOMAIN entries \ A) = Cardinality(DOMAIN entries)
<1> DEFINE B == DOMAIN entries \ A
<1>1. IsFiniteSet(A) /\ IsFiniteSet(B)
  <2>1. B \in SUBSET DOMAIN entries
    OBVIOUS
  <2> QED BY <2>1, FS_Subset
<1>2. Cardinality(A) \in Nat /\ Cardinality(B) \in Nat
  BY <1>1, FS_CardinalityType
<1>3. Cardinality(A \cup B) = Cardinality(A) + Cardinality(B) - Cardinality(A \cap B)
  BY <1>1, FS_Union
<1>4. A \cup B = DOMAIN entries /\ A \cap B = {}
  OBVIOUS
<1> QED BY <1>2, <1>3, <1>4, FS_EmptySet

\* What the page and the console of the curated runner count.
LEMMA CuratedCounts ==
  ASSUME NEW designs \in CuratedRuns
  PROVE  LET table == RenderCurated(designs).table IN
         /\ SumOfRows(table) = Cardinality(DOMAIN designs)
         /\ Console(designs).total = Cardinality(DOMAIN designs)
         /\ table.total.total + Cardinality(Undecided(designs)) = Cardinality(DOMAIN designs)
<1> DEFINE summary == Counts(designs, Verdicts)
           table == RenderCurated(designs).table
<1>1. /\ IsFiniteSet(DOMAIN designs)
      /\ \A d \in DOMAIN designs : designs[d].status \in Verdicts
  BY JobAssumption
<1>2. table = Table(summary)
  BY DEF RenderCurated
<1>3. SumOfRows(table) = Cardinality(DOMAIN designs)
  BY <1>1, <1>2, StatusesAreFinite, RowsCountAll
<1>4. Console(designs).total = Cardinality(DOMAIN designs)
  <2>1. Console(designs).total = RowSum([s \in Verdicts |-> ColumnSum(summary, s)])
    BY DEF Console, GrandTotal
  <2>2. @ = Cardinality(Within(designs, Verdicts))
    BY <1>1, StatusesAreFinite, TotalsCount
  <2>3. Within(designs, Verdicts) = DOMAIN designs
    BY <1>1 DEF Within
  <2> QED BY <2>1, <2>2, <2>3
<1>5. table.total.total = Cardinality(Within(designs, StatusCols))
  <2>1. table.total.total = RowSum([s \in StatusCols |-> ColumnSum(summary, s)])
    BY <1>2 DEF Table, Row, TotalsRow
  <2> QED BY <2>1, <1>1, StatusesAreFinite, TotalsCount
<1>6. Undecided(designs) = DOMAIN designs \ Within(designs, StatusCols)
  BY <1>1 DEF Undecided, Within, StatusCols, Verdicts, Failures
<1>7. Within(designs, StatusCols) \in SUBSET DOMAIN designs
  BY DEF Within
<1> QED BY <1>1, <1>3, <1>4, <1>5, <1>6, <1>7, WithinAndWithout

\* What the page counts of the external suites.
LEMMA ExternalCounts ==
  ASSUME NEW files \in ExternalRuns
  PROVE  LET rendered == RenderExternal(files) IN
         /\ SumOfRows(rendered.table) = Cardinality(DOMAIN files)
         /\ rendered.table.total.total = Cardinality(DOMAIN files)
         /\ rendered.matches + Cardinality(rendered.listed) = Cardinality(DOMAIN files)
         /\ \A f \in Stuck(files) :
              rendered.table.rows[files[f].group].shown[files[f].status] > 0
<1> DEFINE summary == Counts(files, ExternalStatuses)
           rendered == RenderExternal(files)
<1>1. /\ IsFiniteSet(DOMAIN files)
      /\ \A f \in DOMAIN files : files[f].status \in ExternalStatuses
  BY JobAssumption
<1>2. rendered.table = Table(summary)
  BY DEF RenderExternal
<1>3. SumOfRows(rendered.table) = Cardinality(DOMAIN files)
  BY <1>1, <1>2, StatusesAreFinite, RowsCountAll
<1>4. rendered.table.total.total = Cardinality(DOMAIN files)
  <2>1. rendered.table.total.total = RowSum([s \in StatusCols |-> ColumnSum(summary, s)])
    BY <1>2 DEF Table, Row, TotalsRow
  <2>2. @ = Cardinality(Within(files, StatusCols))
    BY <1>1, StatusesAreFinite, TotalsCount
  <2>3. Within(files, StatusCols) = DOMAIN files
    BY <1>1 DEF Within, ExternalStatuses
  <2> QED BY <2>1, <2>2, <2>3
<1>5. rendered.matches + Cardinality(rendered.listed) = Cardinality(DOMAIN files)
  <2> DEFINE matching == {f \in DOMAIN files : Compared(files, f) = "MATCH"}
             others == {f \in DOMAIN files : Compared(files, f) # "MATCH"}
             line == [f \in others |-> [file |-> f, verdict |-> Compared(files, f),
                                        status |-> files[f].status]]
  <2>1. rendered.matches = Cardinality(matching)
    BY DEF RenderExternal
  <2>2. rendered.listed = {line[f] : f \in others}
    BY DEF RenderExternal
  <2>3. \A f, g \in others : f # g => line[f] # line[g]
    <3>1. \A f \in others : line[f].file = f
      OBVIOUS
    <3> QED BY <3>1
  <2>4. line \in Bijection(others, rendered.listed)
    <3>1. DOMAIN line = others
      OBVIOUS
    <3>2. line \in [others -> rendered.listed]
      <4>1. line = [f \in others |-> line[f]]
        OBVIOUS
      <4> HIDE DEF line, others
      <4> QED BY <2>2, <4>1
    <3> HIDE DEF line, others, rendered
    <3> QED BY <2>2, <2>3, <3>2 DEF Bijection, Injection, Surjection, IsInjective
  <2>5. IsFiniteSet(others)
    <3>1. others \in SUBSET DOMAIN files
      OBVIOUS
    <3> QED BY <1>1, <3>1, FS_Subset
  <2>6. Cardinality(rendered.listed) = Cardinality(others)
    <3> HIDE DEF line, others, rendered
    <3> QED BY <2>4, <2>5, FS_Bijection DEF ExistsBijection
  <2>7. others = DOMAIN files \ matching /\ matching \in SUBSET DOMAIN files
    OBVIOUS
  <2> QED BY <1>1, <2>1, <2>6, <2>7, WithinAndWithout
<1>6. ASSUME NEW f \in Stuck(files)
      PROVE  rendered.table.rows[files[f].group].shown[files[f].status] > 0
  <2> DEFINE g == files[f].group
             s == files[f].status
  <2>1. f \in DOMAIN files /\ s \in {"CRASH", "TIMEOUT"}
    BY DEF Stuck
  <2>2. g \in DOMAIN summary /\ s \in ExternalStatuses /\ s \in ShownCols
    <3>1. DOMAIN summary = {files[e].group : e \in DOMAIN files}
      BY CountsAre
    <3>2. s \in ExternalStatuses /\ s \in ShownCols
      BY <2>1 DEF ExternalStatuses, StatusCols, Failures, ShownCols
    <3>3. g \in DOMAIN summary
      BY <2>1, <3>1
    <3> QED BY <3>2, <3>3
  <2>3. rendered.table.rows[g].shown[s] = summary[g][s]
    BY <1>2, <2>2 DEF Table, Row
  <2>4. summary[g][s] = Cardinality(Holding(files, g, s))
    BY <2>2, CountsAre
  <2>5. f \in Holding(files, g, s) /\ Holding(files, g, s) \in SUBSET DOMAIN files
    BY <2>1 DEF Holding
  <2>6. Cardinality(Holding(files, g, s)) > 0
    <3>1. IsFiniteSet(Holding(files, g, s))
      BY <1>1, <2>5, FS_Subset
    <3> QED BY <2>5, <3>1, FS_EmptySet, FS_CardinalityType
  <2> QED BY <2>3, <2>4, <2>6
<1> QED BY <1>3, <1>4, <1>5, <1>6

\* PageCountsEverything, of every night and of any number of designs and files:
\* the numbers of the page account for everything that ran.
THEOREM ThePageCountsEverything == Spec => []PageCountsEverything
<1>1. ASSUME JobInv PROVE PageCountsEverything
  <2>1. curated.file = "whole" => curated.of \in CuratedRuns
    BY <1>1, ReportFiles DEF JobInv, TypeOK
  <2>2. external.file = "whole" => external.of \in ExternalRuns
    BY <1>1, ReportFiles DEF JobInv, TypeOK
  <2> QED BY <2>1, <2>2, CuratedCounts, ExternalCounts DEF PageCountsEverything
<1>2. JobInv => PageCountsEverything
  BY <1>1
<1> QED BY JobInvariant, <1>2, PTL

-----------------------------------------------------------------------------
(* NightlyGate's view of the job moves twice at most. *)

LEMMA GateView ==
  /\ step \in {"build", "ctest", "curated", "external", "publish", "upload"} =>
       GatePhase = "test" /\ GateLast = "none"
  /\ step = "remember" /\ status = "success" => GatePhase = "save" /\ GateLast = "green"
  /\ step = "remember" /\ status = "failure" => GatePhase = "done" /\ GateLast = "red"
  /\ step = "done" => GatePhase = "done"
  /\ step = "done" /\ status = "success" => GateLast = "green"
  /\ step = "done" /\ status = "failure" => GateLast = "red"
BY BeforeIs DEF GatePhase, GateLast

LEMMA GateViewNext ==
  /\ step' \in {"build", "ctest", "curated", "external", "publish", "upload"} =>
       GatePhase' = "test" /\ GateLast' = "none"
  /\ step' = "remember" /\ status' = "success" => GatePhase' = "save" /\ GateLast' = "green"
  /\ step' = "remember" /\ status' = "failure" => GatePhase' = "done" /\ GateLast' = "red"
  /\ step' = "done" => GatePhase' = "done"
  /\ step' = "done" /\ status' = "success" => GateLast' = "green"
  /\ step' = "done" /\ status' = "failure" => GateLast' = "red"
BY BeforeNext DEF GatePhase, GateLast

\* What NightlyGate sees is a function of these four.
LEMMA GateStutters ==
  ASSUME UNCHANGED <<GatePhase, GateLast, key, remembered>>
  PROVE  UNCHANGED Gate!vars
BY DEF Gate!vars, Key, GateGreen, GateCache

LEMMA GateForgets ==
  ASSUME GatePhase' = "done"
  PROVE  Gate!Forget("job")
<1>1. Gate!Nothing = At(1)
  BY DEF Gate!Nothing, Gate!Unread, At
<1>2. [s \in Slot |-> GatePhase]' = [s \in Slot |-> "done"]
  OBVIOUS
<1>3. [s \in Slot |-> IF GatePhase = "done" THEN At(1) ELSE Key]' = [s \in Slot |-> At(1)]
  OBVIOUS
<1>4. [s \in Slot |-> At(IF GatePhase = "done" THEN 1 ELSE 0)]' = [s \in Slot |-> At(1)]
  OBVIOUS
<1>5. [s \in Slot |-> GatePhase]' = [[s \in Slot |-> GatePhase] EXCEPT !["job"] = "done"]
  BY <1>2 DEF Slot
<1>6. [s \in Slot |-> IF GatePhase = "done" THEN At(1) ELSE Key]' =
        [[s \in Slot |-> IF GatePhase = "done" THEN At(1) ELSE Key] EXCEPT !["job"] = At(1)]
  BY <1>3 DEF Slot
<1>7. [s \in Slot |-> At(IF GatePhase = "done" THEN 1 ELSE 0)]' =
        [[s \in Slot |-> At(IF GatePhase = "done" THEN 1 ELSE 0)] EXCEPT !["job"] = At(1)]
  BY <1>4 DEF Slot
<1> QED BY <1>1, <1>5, <1>6, <1>7, Zenon DEF Gate!Forget

LEMMA QuietSteps ==
  ASSUME JobInv, Build \/ Skip \/ Suite \/ CTestEnds \/ Curated \/ External \/ Publish
  PROVE  UNCHANGED Gate!vars
<1>1. /\ step \in {"build", "ctest", "curated", "external", "publish"}
      /\ step' \in {"ctest", "curated", "external", "publish", "upload"}
      /\ UNCHANGED <<key, remembered>>
  BY DEF Build, Skip, Suite, CTestEnds, Curated, External, Publish,
         Succeed, Fail, Following
<1> QED BY <1>1, GateView, GateViewNext, GateStutters

LEMMA UploadTests ==
  ASSUME JobInv, Upload
  PROVE  Gate!Test("job")
<1>1. /\ step = "upload" /\ step' = "remember"
      /\ status' \in {"success", "failure"}
      /\ UNCHANGED <<key, remembered>>
  BY DEF Upload, Succeed, Fail, Following, JobInv, TypeOK
<1>2. GatePhase = "test" /\ GateLast = "none" /\ GateGreen = {}
  BY <1>1, GateView DEF GateGreen
<1>3. UNCHANGED <<Key, GateCache>>
  BY <1>1 DEF Key, GateCache
<1>4. CASE status' = "success"
  <2>1. GatePhase' = "save" /\ GateLast' = "green"
    BY <1>1, <1>4, GateViewNext
  <2>2. GateGreen' = {[key |-> Key, built |-> At(0)]}
    BY <2>1, <1>3 DEF GateGreen
  <2> QED BY <1>2, <1>3, <2>1, <2>2 DEF Gate!Test, Slot
<1>5. CASE status' = "failure"
  <2>1. GatePhase' = "done" /\ GateLast' = "red" /\ GateGreen' = {}
    BY <1>1, <1>5, GateViewNext DEF GateGreen
  <2> QED BY <1>2, <1>3, <2>1, GateForgets DEF Gate!Test, Slot
<1> QED BY <1>1, <1>4, <1>5

LEMMA RememberSaves ==
  ASSUME JobInv, Remember
  PROVE  Gate!Save("job") \/ UNCHANGED Gate!vars
<1>1. /\ step = "remember" /\ step' = "done"
      /\ remembered' = IF status = "success" THEN key ELSE "none"
      /\ UNCHANGED <<status, key>>
  BY DEF Remember, Succeed, Following
<1>2. remembered = "none" /\ status \in {"success", "failure"}
  BY <1>1 DEF JobInv, TypeOK, Leavings
<1>3. GatePhase' = "done" /\ GateLast' = GateLast
  BY <1>1, <1>2, GateView, GateViewNext
<1>4. CASE status = "failure"
  BY <1>1, <1>2, <1>3, <1>4, GateView, GateStutters
<1>5. CASE status = "success"
  <2>1. GatePhase = "save"
    BY <1>1, <1>5, GateView
  <2>2. Gate!Complete(Key) <=> key # "none"
    BY DEF Gate!Complete, Gate!Unread, Key, At
  <2>3. GateCache = {} /\ GateCache' = IF key = "none" THEN {} ELSE {At(0)}
    BY <1>1, <1>2, <1>5 DEF GateCache
  <2>4. key # "none" => Key = At(0)
    BY DEF Key
  <2>5. GateCache' = IF Gate!Complete(Key) THEN GateCache \cup {Key} ELSE GateCache
    BY <2>2, <2>3, <2>4
  <2>6. UNCHANGED <<Key, GateGreen>>
    BY <1>1, <1>3 DEF Key, GateGreen
  <2> QED BY <1>3, <2>1, <2>5, <2>6, GateForgets DEF Gate!Save, Gate!Key, Slot
<1> QED BY <1>2, <1>4, <1>5

\* ImplementsGate, of every night: all the job does is what NightlyGate's Test
\* and Save do of it.
THEOREM TheJobImplementsTheGate == Spec => ImplementsGate
<1>1. JobInv /\ UNCHANGED vars => UNCHANGED Gate!vars
  BY GateStutters DEF vars, GatePhase, GateLast, Before
<1>2. JobInv /\ [Next]_vars => [Gate!Test("job") \/ Gate!Save("job")]_(Gate!vars)
  BY <1>1, QuietSteps, UploadTests, RememberSaves DEF Next
<1> QED BY JobInvariant, <1>2, PTL DEF Spec, ImplementsGate
=============================================================================
