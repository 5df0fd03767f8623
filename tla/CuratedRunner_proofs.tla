------------------------ MODULE CuratedRunner_proofs ------------------------
(***************************************************************************)
(* Proofs about CuratedRunner, for every corpus, every choice of designs   *)
(* and any number of sessions that may die anywhere: the inductive         *)
(* invariant RunnerInv, and what follows from it.                          *)
(***************************************************************************)
EXTENDS CuratedRunner, TLAPS

\* A pipeline that fails names its failing stage; one that passes has none.
\* A verdict is one of the seven statuses, and one that does not fail the run
\* is accounted for.
LEMMA ResolveSound ==
  ASSUME NEW design \in Designs, NEW outcome \in Outcomes
  PROVE  /\ Resolve(design, outcome) \in Verdicts
         /\ Resolve(design, outcome) \notin Failing =>
              \/ outcome.status = "PASS" /\ Declared(design) = NoName
              \/ outcome.status # "PASS" /\ outcome.stage = Declared(design)
              \/ outcome.status = "CLEAN_REJECT"
<1>1. outcome.status \in Failures \cup {"PASS"}
  BY DEF Outcomes
<1> QED BY <1>1 DEF Resolve, Verdicts, Failures, Failing

\* A visible entry that holds Verilog, or lists its sources, is a design.
LEMMA HoldingIsDesign ==
  ASSUME NEW e, ~e.hidden, ~Verilogless(e)
  PROVE  IsDesign(e)
BY DEF Verilogless, IsDesign, Considered, Sources

\* What the typing of the state says of lengths and sessions.
LEMMA Typing ==
  ASSUME RunnerInv
  PROVE  /\ session \in Nat
         /\ checkout \in Checkouts /\ checkout.corpus \in Seq(Entry)
         /\ Len(checkout.corpus) \in Nat /\ found \in 0..Len(checkout.corpus)
         /\ DOMAIN checkout.corpus = 1..Len(checkout.corpus)
         /\ selected \in Seq(Designs) /\ Len(selected) \in Nat
         /\ results \in Seq(Entries) /\ Len(results) \in Nat
         /\ DOMAIN results = 1..Len(results) /\ DOMAIN selected = 1..Len(selected)
         /\ work \in [Dirs -> SUBSET [session : Nat, design : Designs]]
         /\ report.session \in Nat
<1>1. session \in 0..MaxSessions
  BY DEF RunnerInv, TypeOK
<1>2. session \in Nat
  BY <1>1, RunnerAssumption
<1>3. /\ selected \in Seq(Designs) /\ results \in Seq(Entries)
      /\ work \in [Dirs -> SUBSET [session : Nat, design : Designs]]
      /\ report.session \in Nat
  BY DEF RunnerInv, TypeOK
<1>4. checkout \in Checkouts /\ found \in 0..Len(checkout.corpus)
  BY DEF RunnerInv, TypeOK
<1>5. checkout.corpus \in Seq(Entry)
  BY <1>4, CorpusAssumption
<1> QED BY <1>2, <1>3, <1>4, <1>5

\* The entry discovery comes to next.
LEMMA NextEntry ==
  ASSUME RunnerInv, ~AllFound
  PROVE  /\ found + 1 \in 1..Len(checkout.corpus)
         /\ Found \in Designs
<1>1. found + 1 \in 1..Len(checkout.corpus)
  BY Typing DEF AllFound
<1>2. Found \in Range(checkout.corpus)
  BY <1>1, Typing DEF Found, Range
<1> QED BY <1>1, <1>2, Typing DEF Designs

\* The design whose turn it is.
LEMMA CurrentDesign ==
  ASSUME RunnerInv, Len(results) < Len(selected)
  PROVE  /\ Len(results) + 1 \in 1..Len(selected)
         /\ Current \in Designs
         /\ WorkDir(Current) \in Dirs
<1>1. Len(results) + 1 \in 1..Len(selected)
  BY Typing
<1>2. Current \in Designs
  BY <1>1, Typing DEF Current
<1> QED BY <1>1, <1>2 DEF Dirs

\* What discovery has found stays found until the next session.
LEMMA SelectionStays ==
  ASSUME Selection, UNCHANGED <<inputs, selected>>,
         pc' = "start" => pc = "start" /\ results' = results,
         pc' \in {"next", "design", "write", "exit"} \/ exit' \in {"0", "1"} =>
           AllFound /\ ValidManifests(checkout),
         pc' = "discover" => ValidManifests(checkout) /\ results' = << >>
  PROVE  Selection'
<1>1. /\ checkout' = checkout /\ only' = only /\ found' = found
      /\ selected' = selected
  BY DEF inputs
<1>2. AllFound' <=> AllFound
  BY <1>1 DEF AllFound
<1> QED BY <1>1, <1>2 DEF Selection

LEMMA InitInv == Init => RunnerInv
<1> SUFFICES ASSUME Init PROVE RunnerInv
  OBVIOUS
<1>1. TypeOK
  <2>1. found \in 0..Len(checkout.corpus)
      BY CorpusAssumption DEF Init
  <2> QED BY <2>1, RunnerAssumption DEF Init, TypeOK, NoReport
<1>5. Selection
  BY DEF Init, Selection
<1>2. ResultsOfSession
  BY DEF Init, ResultsOfSession
<1>3. ReportEntries
  BY DEF Init, ReportEntries, NoReport
<1>4. WorkOfSession
  BY DEF Init, WorkOfSession
<1> QED BY <1>1, <1>2, <1>3, <1>4, <1>5 DEF RunnerInv

LEMMA StartStep == RunnerInv /\ Start => RunnerInv'
<1> SUFFICES ASSUME RunnerInv, Start PROVE RunnerInv'
  OBVIOUS
<1>1. /\ session' = session + 1 /\ session' \in 0..MaxSessions
      /\ report.session \in Nat /\ report.session <= session
      /\ report.session < session'
  <2>1. session \in 0..MaxSessions /\ report.session \in Nat
      BY DEF RunnerInv, TypeOK
  <2>2. report.session <= session
      BY <2>1, RunnerAssumption DEF RunnerInv, ReportEntries, NoReport, Torn
  <2> QED BY <2>1, <2>2, RunnerAssumption DEF Start
<1>2. /\ selected' \in Seq(Designs) /\ Len(selected') = 0 /\ DOMAIN selected' = {}
      /\ found' \in 0..Len(checkout'.corpus)
  BY CorpusAssumption DEF Start
<1>3. results' = << >> /\ results' \in Seq(Entries) /\ Len(results') = 0
      /\ DOMAIN results' = {}
  BY DEF Start
<1>4. TypeOK'
  BY <1>1, <1>2, <1>3 DEF RunnerInv, TypeOK, Start
<1>5. ResultsOfSession'
  BY <1>2, <1>3 DEF ResultsOfSession, Start
<1>6. ReportEntries'
  BY <1>1 DEF RunnerInv, ReportEntries, Start
<1>7. WorkOfSession'
  BY DEF WorkOfSession, Start
<1>8. Selection'
  BY <1>2 DEF Selection, Start
<1> QED BY <1>4, <1>5, <1>6, <1>7, <1>8 DEF RunnerInv

LEMMA ValidateStep == RunnerInv /\ Validate => RunnerInv'
<1> SUFFICES ASSUME RunnerInv, Validate PROVE RunnerInv'
  OBVIOUS
<1> USE DEF inputs, RunnerInv, Validate
<1>1. TypeOK'
  BY DEF TypeOK
<1>2. Selection'
  BY SelectionStays DEF Selection, ReportEntries
<1>3. ResultsOfSession'
  BY DEF ResultsOfSession
<1>4. ReportEntries'
  BY DEF ReportEntries
<1>5. WorkOfSession'
  BY DEF WorkOfSession
<1> QED BY <1>1, <1>2, <1>3, <1>4, <1>5

\* One entry more has been let through, and is kept if it is one of the session's.
LEMMA DiscoverStep == RunnerInv /\ Discover => RunnerInv'
<1> SUFFICES ASSUME RunnerInv, Discover PROVE RunnerInv'
  OBVIOUS
<1> USE DEF RunnerInv
<1> DEFINE kept == IsDesign(Found) /\ Found.name \in only
<1>1. /\ found + 1 \in 1..Len(checkout.corpus) /\ Found \in Designs
      /\ found' = found + 1 /\ found' \in 0..Len(checkout.corpus)
      /\ ~Malformed(Found) /\ Found = checkout.corpus[found + 1]
      /\ checkout' = checkout /\ only' = only /\ pc = "discover" /\ pc' = "discover"
  BY NextEntry, Typing DEF Discover, Found
<1>2. /\ ~kept => selected' = selected
      /\ kept => selected' = Append(selected, Found)
  BY DEF Discover
<1>3. /\ selected' \in Seq(Designs)
      /\ \A k \in DOMAIN selected : k \in DOMAIN selected' /\ selected'[k] = selected[k]
      /\ \A k \in DOMAIN selected' : k \in DOMAIN selected \/ (kept /\ selected'[k] = Found)
      /\ kept => \E k \in DOMAIN selected' : selected'[k] = Found
  <2>1. CASE ~kept
      BY <2>1, <1>2, Typing
  <2>2. CASE kept
    <3> HIDE DEF kept
    <3>3. selected' = Append(selected, Found) /\ Found \in Designs
        BY <2>2, <1>1, <1>2
    <3>4. selected \in Seq(Designs)
        BY Typing
    <3>1. /\ selected' \in Seq(Designs)
          /\ Len(selected') = Len(selected) + 1
          /\ DOMAIN selected' = 1..(Len(selected) + 1)
          /\ \A k \in 1..Len(selected) : selected'[k] = selected[k]
          /\ selected'[Len(selected) + 1] = Found
        BY <3>3, <3>4
    <3>2. /\ Len(selected) + 1 \in DOMAIN selected'
          /\ \A k \in DOMAIN selected' : k \in 1..Len(selected) \/ k = Len(selected) + 1
        BY <3>1, Typing
    <3> QED BY <2>2, <3>1, <3>2, Typing
  <2> QED BY <2>1, <2>2
<1>4. results = << >> /\ results' = << >> /\ exit' = exit /\ exit = "running"
  BY DEF Discover, Selection, ReportEntries
<1>5. TypeOK'
  BY <1>1, <1>3 DEF TypeOK, Discover
<1>6. Selection'
  <2>1. ASSUME NEW i \in 1..found'
        PROVE  LET e == checkout.corpus[i] IN
               /\ ~Malformed(e)
               /\ e.name \in only /\ ~e.hidden /\ ~Verilogless(e) =>
                    \E k \in DOMAIN selected' : selected'[k] = e
    <3>1. i \in 1..found \/ i = found + 1
        BY <1>1, Typing
    <3>2. CASE i \in 1..found
        BY <3>2, <1>3 DEF Selection
    <3>3. CASE i = found + 1
        BY <3>3, <1>1, <1>3, HoldingIsDesign
    <3> QED BY <3>1, <3>2, <3>3
  <2>2. \A k \in DOMAIN selected' :
           IsDesign(selected'[k]) /\ selected'[k].name \in only
      BY <1>3 DEF Selection
  <2>3. ValidManifests(checkout)
      BY <1>1 DEF Selection
  <2>4. Len(selected') <= found'
    <3>1. Len(selected) <= found
        BY DEF Selection
    <3>2. Len(selected') \in {Len(selected), Len(selected) + 1}
        BY <1>1, <1>2, Typing
    <3> QED BY <3>1, <3>2, <1>1, Typing
  <2> QED BY <2>1, <2>2, <2>3, <2>4, <1>1, <1>4 DEF Selection
<1>7. ResultsOfSession'
  <2>1. Len(selected') \in Nat
      BY <1>3
  <2> QED BY <1>1, <1>4, <2>1 DEF ResultsOfSession
<1>8. ReportEntries'
  <2>1. report.session < session /\ report.session \in Nat
      BY <1>1, Typing DEF ReportEntries
  <2> QED BY <2>1, <1>1, <1>4 DEF ReportEntries, Discover
<1>9. WorkOfSession'
  BY <1>1, <1>4 DEF WorkOfSession
<1> QED BY <1>5, <1>6, <1>7, <1>8, <1>9

LEMMA RefuseStep == RunnerInv /\ Refuse => RunnerInv'
<1> SUFFICES ASSUME RunnerInv, Refuse PROVE RunnerInv'
  OBVIOUS
<1> USE DEF inputs, RunnerInv, Refuse, End
<1>1. TypeOK'
  BY DEF TypeOK
<1>2. ResultsOfSession'
  BY DEF ResultsOfSession
<1>3. ReportEntries'
  <2>1. report.session < session /\ report.session \in Nat
      BY Typing DEF ReportEntries
  <2> QED BY <2>1 DEF ReportEntries
<1>4. WorkOfSession'
  BY DEF WorkOfSession
<1>20. Selection'
  BY SelectionStays, Typing DEF Selection, AllFound, Discovered, ReportEntries
<1> QED BY <1>20, <1>1, <1>2, <1>3, <1>4

LEMMA ClearWorkStep == RunnerInv /\ ClearWork => RunnerInv'
<1> SUFFICES ASSUME RunnerInv, ClearWork PROVE RunnerInv'
  OBVIOUS
<1> USE DEF inputs, RunnerInv, ClearWork, Discovered
<1>1. TypeOK'
  BY DEF TypeOK
<1>2. ResultsOfSession'
  BY DEF ResultsOfSession
<1>3. ReportEntries'
  BY DEF ReportEntries
<1>4. WorkOfSession'
  BY DEF WorkOfSession
<1>20. Selection'
  BY SelectionStays, Typing DEF Selection, AllFound, Discovered, ReportEntries
<1> QED BY <1>20, <1>1, <1>2, <1>3, <1>4

LEMMA BeginDesignStep == RunnerInv /\ BeginDesign => RunnerInv'
<1> SUFFICES ASSUME RunnerInv, BeginDesign PROVE RunnerInv'
  OBVIOUS
<1> USE DEF inputs, RunnerInv
<1>1. Current \in Designs /\ WorkDir(Current) \in Dirs
  BY CurrentDesign DEF BeginDesign
<1> DEFINE file == [session |-> session, design |-> Current]
<1>2. /\ file \in [session : Nat, design : Designs]
      /\ work' = [work EXCEPT ![WorkDir(Current)] = @ \cup {file}]
  BY <1>1, Typing DEF BeginDesign
<1>3. file.session = session /\ file.design = Current
  OBVIOUS
<1> HIDE DEF file
<1>4. TypeOK'
  <2>1. work' \in [Dirs -> SUBSET [session : Nat, design : Designs]]
      BY <1>1, <1>2, Typing
  <2> QED BY <2>1 DEF TypeOK, BeginDesign
<1>5. ResultsOfSession'
  BY DEF ResultsOfSession, BeginDesign
<1>6. ReportEntries'
  BY DEF ReportEntries, BeginDesign
<1>7. WorkOfSession'
  <2> SUFFICES ASSUME NEW d \in Dirs, NEW f \in work'[d]
               PROVE  f.session = session /\ WorkDir(f.design) = d
      BY DEF WorkOfSession, BeginDesign
  <2>1. f \in work[d] \/ (d = WorkDir(Current) /\ f = file)
      BY <1>1, <1>2, Typing
  <2>2. CASE f \in work[d]
      BY <2>2 DEF WorkOfSession, BeginDesign
  <2>3. CASE d = WorkDir(Current) /\ f = file
      BY <2>3, <1>3
  <2> QED BY <2>1, <2>2, <2>3
<1>20. Selection'
  BY SelectionStays, Typing DEF Selection, AllFound, Discovered, ReportEntries, BeginDesign
<1> QED BY <1>20, <1>4, <1>5, <1>6, <1>7

LEMMA EndDesignStep == RunnerInv /\ EndDesign => RunnerInv'
<1> SUFFICES ASSUME RunnerInv, EndDesign PROVE RunnerInv'
  OBVIOUS
<1> USE DEF inputs, RunnerInv
<1>1. /\ Len(results) + 1 \in 1..Len(selected) /\ Current \in Designs
      /\ Len(results) < Len(selected)
  BY CurrentDesign DEF EndDesign, ResultsOfSession
<1>2. PICK outcome \in Outcomes :
        results' = Append(results,
          [design |-> Current, outcome |-> outcome,
           verdict |-> Resolve(Current, outcome), session |-> session])
  BY DEF EndDesign
<1> DEFINE entry == [design |-> Current, outcome |-> outcome,
                     verdict |-> Resolve(Current, outcome), session |-> session]
<1>3. Resolve(Current, outcome) \in Verdicts
  BY <1>1, ResolveSound
<1>4. entry \in Entries
  BY <1>1, <1>3, Typing DEF Entries
<1>5. /\ entry.design = Current /\ entry.session = session
      /\ entry.verdict = Resolve(Current, entry.outcome)
  OBVIOUS
<1>6. results' = Append(results, entry)
  BY <1>2
<1> HIDE DEF entry
<1>7. results' \in Seq(Entries)
  BY <1>4, <1>6, Typing
<1>8. /\ Len(results') = Len(results) + 1
      /\ \A k \in 1..Len(results) : results'[k] = results[k]
      /\ results'[Len(results) + 1] = entry
  BY <1>4, <1>6, Typing
<1>9. /\ DOMAIN results = 1..Len(results) /\ DOMAIN results' = 1..Len(results')
      /\ \A k \in DOMAIN results' : k \in DOMAIN results \/ k = Len(results) + 1
  BY <1>7, <1>8, Typing
<1>10. TypeOK'
  BY <1>7 DEF TypeOK, EndDesign
<1>11. ResultsOfSession'
  <2>1. Len(results') <= Len(selected)
      BY <1>1, <1>8, Typing
  <2>2. ASSUME NEW k \in DOMAIN results'
        PROVE  /\ results'[k].design = selected[k]
               /\ results'[k].session = session
               /\ results'[k].verdict = Resolve(selected[k], results'[k].outcome)
    <3>1. CASE k \in DOMAIN results
        BY <3>1, <1>8, <1>9 DEF ResultsOfSession
    <3>2. CASE k = Len(results) + 1
      <4>1. results'[k] = entry
          BY <3>2, <1>8
      <4>2. selected[k] = Current
          BY <3>2 DEF Current
      <4> QED BY <4>1, <4>2, <1>5
    <3> QED BY <3>1, <3>2, <1>9
  <2> QED BY <2>1, <2>2 DEF ResultsOfSession, EndDesign
<1>12. ReportEntries'
  <2>1. report.session < session
      BY DEF ReportEntries, EndDesign
  <2>2. report.session # session
      BY <2>1, Typing
  <2> QED BY <2>2 DEF ReportEntries, EndDesign
<1>13. WorkOfSession'
  BY DEF WorkOfSession, EndDesign
<1>20. Selection'
  BY SelectionStays, Typing DEF Selection, AllFound, Discovered, ReportEntries, EndDesign
<1> QED BY <1>20, <1>10, <1>11, <1>12, <1>13

LEMMA DesignRaisesStep == RunnerInv /\ DesignRaises => RunnerInv'
<1> SUFFICES ASSUME RunnerInv, DesignRaises PROVE RunnerInv'
  OBVIOUS
<1> USE DEF inputs, RunnerInv, DesignRaises, End
<1>1. TypeOK'
  BY DEF TypeOK
<1>2. ResultsOfSession'
  BY DEF ResultsOfSession
<1>3. ReportEntries'
  BY DEF ReportEntries
<1>4. WorkOfSession'
  BY DEF WorkOfSession
<1>20. Selection'
  BY SelectionStays, Typing DEF Selection, AllFound, Discovered, ReportEntries
<1> QED BY <1>20, <1>1, <1>2, <1>3, <1>4

LEMMA OpenReportStep == RunnerInv /\ OpenReport => RunnerInv'
<1> SUFFICES ASSUME RunnerInv, OpenReport PROVE RunnerInv'
  OBVIOUS
<1> USE DEF inputs, RunnerInv
<1>1. /\ report' = Torn /\ Torn.file = "torn" /\ Torn.session = 0
      /\ Torn \in [file : {"none", "torn", "whole"}, session : Nat,
                   entries : Seq(Entries)]
  BY DEF OpenReport, Torn
<1>2. TypeOK'
  BY <1>1 DEF TypeOK, OpenReport
<1>3. ResultsOfSession'
  BY DEF ResultsOfSession, OpenReport
<1>4. ReportEntries'
  <2>1. report'.file = "torn" /\ report'.session <= session'
      BY <1>1, Typing DEF OpenReport
  <2> QED BY <1>1, <2>1 DEF ReportEntries, OpenReport, Torn
<1>5. WorkOfSession'
  BY DEF WorkOfSession, OpenReport
<1>20. Selection'
  BY SelectionStays, Typing DEF Selection, AllFound, Discovered, ReportEntries, OpenReport
<1> QED BY <1>20, <1>2, <1>3, <1>4, <1>5

LEMMA WriteReportStep == RunnerInv /\ WriteReport => RunnerInv'
<1> SUFFICES ASSUME RunnerInv, WriteReport PROVE RunnerInv'
  OBVIOUS
<1> USE DEF inputs, RunnerInv
<1>1. /\ report' = Whole(results) /\ report'.file = "whole"
      /\ report'.session = session /\ report'.entries = results
      /\ report' \in [file : {"none", "torn", "whole"}, session : Nat,
                      entries : Seq(Entries)]
  BY Typing DEF WriteReport, Whole
<1>2. TypeOK'
  BY <1>1 DEF TypeOK, WriteReport
<1>3. ResultsOfSession'
  BY DEF ResultsOfSession, WriteReport
<1>4. ReportEntries'
  <2>1. \A k \in DOMAIN results : results[k].session = session
      BY DEF ResultsOfSession
  <2>2. report' = Whole(results)' /\ session' = session /\ session \in 1..session
      BY <1>1, Typing DEF Whole, WriteReport, ReportEntries
  <2>3. Len(results) = Len(selected)
      BY DEF ResultsOfSession, WriteReport
  <2> QED BY <1>1, <2>1, <2>2, <2>3 DEF ReportEntries, WriteReport
<1>5. WorkOfSession'
  BY DEF WorkOfSession, WriteReport
<1>20. Selection'
  BY SelectionStays, Typing DEF Selection, AllFound, Discovered, ReportEntries, WriteReport
<1> QED BY <1>20, <1>2, <1>3, <1>4, <1>5

LEMMA ExitStep == RunnerInv /\ Exit => RunnerInv'
<1> SUFFICES ASSUME RunnerInv, Exit PROVE RunnerInv'
  OBVIOUS
<1> USE DEF inputs, RunnerInv, Exit, End
<1>1. TypeOK'
  BY DEF TypeOK, ExitCode
<1>2. ResultsOfSession'
  BY DEF ResultsOfSession
<1>3. ReportEntries'
  BY DEF ReportEntries, ResultsOfSession, Whole, ExitCode
<1>4. WorkOfSession'
  BY DEF WorkOfSession
<1>20. Selection'
  BY SelectionStays, Typing DEF Selection, AllFound, Discovered, ReportEntries
<1> QED BY <1>20, <1>1, <1>2, <1>3, <1>4

LEMMA DieStep == RunnerInv /\ Die => RunnerInv'
<1> SUFFICES ASSUME RunnerInv, Die PROVE RunnerInv'
  OBVIOUS
<1> USE DEF inputs, RunnerInv, Die, End
<1>1. work' \in [Dirs -> SUBSET [session : Nat, design : Designs]]
  BY Typing
<1>2. TypeOK'
  BY <1>1 DEF TypeOK
<1>3. ResultsOfSession'
  BY DEF ResultsOfSession
<1>4. ReportEntries'
  BY DEF ReportEntries
<1>5. WorkOfSession'
  BY DEF WorkOfSession
<1>20. Selection'
  BY SelectionStays, Typing DEF Selection, AllFound, Discovered, ReportEntries
<1> QED BY <1>20, <1>2, <1>3, <1>4, <1>5

LEMMA RenderStep == RunnerInv /\ Render => RunnerInv'
<1> SUFFICES ASSUME RunnerInv, Render PROVE RunnerInv'
  OBVIOUS
<1> USE DEF inputs, RunnerInv, Render
<1>1. TypeOK'
  BY DEF TypeOK
<1>2. ResultsOfSession'
  BY DEF ResultsOfSession
<1>3. ReportEntries'
  BY DEF ReportEntries, Whole, ExitCode
<1>4. WorkOfSession'
  BY DEF WorkOfSession
<1>20. Selection'
  BY SelectionStays, Typing DEF Selection, AllFound, Discovered, ReportEntries
<1> QED BY <1>20, <1>1, <1>2, <1>3, <1>4

LEMMA StutterStep == RunnerInv /\ UNCHANGED vars => RunnerInv'
<1> SUFFICES ASSUME RunnerInv, UNCHANGED vars PROVE RunnerInv'
  OBVIOUS
<1>1. TypeOK'
  BY DEF RunnerInv, TypeOK, vars, inputs
<1>5. Selection'
  BY SelectionStays DEF RunnerInv, Selection, vars, inputs, AllFound
<1>2. ResultsOfSession'
  BY DEF RunnerInv, ResultsOfSession, vars, inputs
<1>3. ReportEntries'
  BY DEF RunnerInv, ReportEntries, vars, Whole, ExitCode
<1>4. WorkOfSession'
  BY DEF RunnerInv, WorkOfSession, vars
<1> QED BY <1>1, <1>2, <1>3, <1>4, <1>5 DEF RunnerInv

\* The inductive invariant of the runner: results are those of a prefix of the
\* selection and of this session, the work directory is this session's once it
\* is cleared, and a report that can be read is one session's, whole.
THEOREM RunnerInvariant == Spec => []RunnerInv
<1>1. Init => RunnerInv
  BY InitInv
<1>2. RunnerInv /\ [Next]_vars => RunnerInv'
  BY StartStep, ValidateStep, DiscoverStep, RefuseStep, ClearWorkStep, BeginDesignStep, EndDesignStep,
     DesignRaisesStep, OpenReportStep, WriteReportStep, ExitStep, DieStep,
     RenderStep, StutterStep DEF Next, Step
<1> QED BY <1>1, <1>2, PTL DEF Spec

\* A session that exits 0 accounts for every selected design.
THEOREM GreenExitIsEarned == Spec => []GreenExit
<1>1. RunnerInv => GreenExit
  <2> SUFFICES ASSUME RunnerInv, exit = "0"
               PROVE  /\ Len(results) = Len(selected)
                      /\ \A k \in DOMAIN selected :
                           \/ /\ results[k].outcome.status = "PASS"
                              /\ Declared(selected[k]) = NoName
                              /\ Complete(checkout, selected[k])
                           \/ /\ results[k].outcome.status # "PASS"
                              /\ results[k].outcome.stage = Declared(selected[k])
                           \/ results[k].outcome.status = "CLEAN_REJECT"
      BY DEF GreenExit
  <2>1. Len(results) = Len(selected) /\ ExitCode = "0"
      BY DEF RunnerInv, ReportEntries
  <2>2. \A k \in DOMAIN results : results[k].verdict \notin Failing
      BY <2>1 DEF ExitCode
  <2>3. ASSUME NEW k \in DOMAIN selected
        PROVE  \/ /\ results[k].outcome.status = "PASS"
                  /\ Declared(selected[k]) = NoName
                  /\ Complete(checkout, selected[k])
               \/ /\ results[k].outcome.status # "PASS"
                  /\ results[k].outcome.stage = Declared(selected[k])
               \/ results[k].outcome.status = "CLEAN_REJECT"
    <3>1. k \in DOMAIN results /\ selected[k] \in Designs /\ results[k] \in Entries
        BY <2>1, Typing
    <3>2. results[k].outcome \in Outcomes
        BY <3>1 DEF Entries
    <3>3. Resolve(selected[k], results[k].outcome) \notin Failing
        BY <2>2, <3>1 DEF RunnerInv, ResultsOfSession
    <3>4. results[k].outcome.status = "PASS" => Complete(checkout, selected[k])
      <4>1. Possible(checkout, selected[k], results[k].outcome)
          BY <3>1 DEF RunnerInv, ResultsOfSession
      <4> QED BY <4>1 DEF Possible
    <3> QED BY <3>1, <3>2, <3>3, <3>4, ResolveSound
  <2> QED BY <2>1, <2>3
<1> QED BY <1>1, RunnerInvariant, PTL

\* A green session has run everything its corpus and its --only ask for.
THEOREM NoDesignVanishes == Spec => []NothingVanishes
<1>1. RunnerInv => NothingVanishes
  <2> SUFFICES ASSUME RunnerInv, exit = "0", NEW i \in DOMAIN checkout.corpus
               PROVE  LET e == checkout.corpus[i] IN
                      /\ ~Malformed(e)
                      /\ e.name \in only /\ ~e.hidden /\ ~Verilogless(e) =>
                           \E k \in DOMAIN report.entries : report.entries[k].design = e
      BY DEF NothingVanishes
  <2> DEFINE e == checkout.corpus[i]
  <2>1. i \in 1..found
      BY Typing DEF RunnerInv, Selection, AllFound
  <2>2. /\ ~Malformed(e)
        /\ e.name \in only /\ ~e.hidden /\ ~Verilogless(e) =>
             \E k \in DOMAIN selected : selected[k] = e
      BY <2>1 DEF RunnerInv, Selection
  <2>3. report.entries = results /\ Len(results) = Len(selected)
      BY DEF RunnerInv, ReportEntries, Whole
  <2>4. \A k \in DOMAIN selected :
           k \in DOMAIN report.entries /\ report.entries[k].design = selected[k]
      BY <2>3, Typing DEF RunnerInv, ResultsOfSession
  <2> QED BY <2>2, <2>4
<1> QED BY <1>1, RunnerInvariant, PTL

\* A report that can be read is one session's, whole.
THEOREM ReportsAreWhole == Spec => []ReportOfOneSession
<1>1. RunnerInv => ReportOfOneSession
  <2> SUFFICES ASSUME RunnerInv, report.file = "whole"
               PROVE  /\ \A k \in DOMAIN report.entries :
                           report.entries[k].session = report.session
                      /\ report.session = session =>
                           /\ Len(report.entries) = Len(selected)
                           /\ \A k \in DOMAIN selected :
                                report.entries[k].design = selected[k]
      BY DEF ReportOfOneSession
  <2>1. \A k \in DOMAIN report.entries : report.entries[k].session = report.session
      BY DEF RunnerInv, ReportEntries
  <2>2. ASSUME report.session = session
        PROVE  /\ Len(report.entries) = Len(selected)
               /\ \A k \in DOMAIN selected : report.entries[k].design = selected[k]
    <3>1. report.entries = results /\ Len(results) = Len(selected)
        BY <2>2 DEF RunnerInv, ReportEntries
    <3>2. \A k \in DOMAIN results : results[k].design = selected[k]
        BY DEF RunnerInv, ResultsOfSession
    <3> QED BY <3>1, <3>2, Typing
  <2> QED BY <2>1, <2>2
<1> QED BY <1>1, RunnerInvariant, PTL

\* What report.py renders after a finished session is that session.
THEOREM FinishedSessionsAreRendered == Spec => FinishedIsRendered
<1>1. RunnerInv /\ [Next]_vars =>
        [summary' # summary /\ exit \in {"0", "1"} =>
           summary' = [shown |-> "results", session |-> session]]_vars
  <2> SUFFICES ASSUME RunnerInv, Next, summary' # summary, exit \in {"0", "1"}
               PROVE  summary' = [shown |-> "results", session |-> session]
      OBVIOUS
  <2>1. Render
      BY DEF Next, Step, Start, Validate, Discover, Refuse, ClearWork, BeginDesign, EndDesign,
             DesignRaises, OpenReport, WriteReport, Exit, Die, End
  <2>2. report = Whole(results)
      BY DEF RunnerInv, ReportEntries
  <2> QED BY <2>1, <2>2 DEF Render, Whole
<1> QED BY <1>1, RunnerInvariant, PTL DEF Spec, FinishedIsRendered

\* A pipeline never finds an earlier session's files in its directory.
THEOREM ArtifactsAreFresh == Spec => []FreshArtifacts
<1>1. RunnerInv => FreshArtifacts
  <2> SUFFICES ASSUME RunnerInv, pc = "design"
               PROVE  \A file \in work[WorkDir(Current)] :
                        /\ file.session = session
                        /\ WorkDir(file.design) = WorkDir(Current)
      BY DEF FreshArtifacts
  <2>1. WorkDir(Current) \in Dirs
      BY CurrentDesign DEF RunnerInv, ResultsOfSession
  <2> QED BY <2>1 DEF RunnerInv, WorkOfSession
<1> QED BY <1>1, RunnerInvariant, PTL

\* The files under the work root are those the report is about.
THEOREM ReportAndWorkAgree == Spec => []CorrespondenceSeesOneSession
<1>1. RunnerInv => CorrespondenceSeesOneSession
  <2> SUFFICES ASSUME RunnerInv, exit \in {"0", "1"},
                      NEW d \in Dirs, NEW file \in work[d]
               PROVE  file.session = report.session
      BY DEF CorrespondenceSeesOneSession
  <2>1. report.session = session
      BY DEF RunnerInv, ReportEntries, Whole
  <2>2. file.session = session
      BY DEF RunnerInv, WorkOfSession
  <2> QED BY <2>1, <2>2
<1> QED BY <1>1, RunnerInvariant, PTL

-----------------------------------------------------------------------------
(* A session in a clean checkout is NightlyJob's step Curated.               *)

\* Not over before, nor after, the step: the job has seen nothing.
LEMMA RunningIsInvisible ==
  ASSUME ~Ended, ~Ended'
  PROVE  UNCHANGED Job!vars
BY DEF Job!vars

\* What the report of a finished session is to the job.
LEMMA ListedIsRun ==
  ASSUME RunnerInv
  PROVE  /\ Listed(results) \in JobRuns
         /\ Job!CuratedExit(Listed(results)) = IF ExitCode = "1" THEN 1 ELSE 0
<1>1. \A k \in DOMAIN results : results[k].verdict \in Verdicts
  <2> TAKE k \in DOMAIN results
  <2>1. results[k] \in Entries
    BY Typing
  <2> QED BY <2>1 DEF Entries
<1>2. DOMAIN results = 1..Len(results) /\ Len(results) \in 0..Len(checkout.corpus)
  BY Typing DEF RunnerInv, ResultsOfSession, Selection
<1>3. Listed(results) \in [1..Len(results) -> [status : Verdicts]]
  BY <1>1, <1>2 DEF Listed
<1>4. Listed(results) \in JobRuns
  BY <1>2, <1>3, Typing DEF JobRuns
<1>5. /\ DOMAIN Listed(results) = DOMAIN results
      /\ \A k \in DOMAIN results : Listed(results)[k].status = results[k].verdict
  BY DEF Listed
<1>6. Job!CuratedExit(Listed(results)) = IF ExitCode = "1" THEN 1 ELSE 0
  BY <1>5 DEF Job!CuratedExit, Job!Failing, Failing, ExitCode
<1> QED BY <1>4, <1>6

\* A session that ends without an exit status: a failure, whatever it had written.
LEMMA UnansweredFails ==
  ASSUME RunnerInv, session = 1, session' = session, pc # "idle", pc' = "idle",
         exit' \in {"raised", "died"}, report' = report,
         report \in {NoReport, Torn, Whole(results)}
  PROVE  Job!Curated
<1>1. ~Ended /\ Ended'
  BY DEF Ended
<1>2. CASE report \in {NoReport, Torn}
  <2>1. Listed(report'.entries) = << >>
    BY <1>2 DEF Listed, NoReport, Torn
  <2>2. report'.file \in {"none", "torn"}
    BY <1>2 DEF NoReport, Torn
  <2> QED BY <1>1, <2>1, <2>2
          DEF Job!Curated, Job!Fail, Job!Following, Job!Missing, Job!Torn, Job!File
<1>3. CASE report = Whole(results)
  <2>1. report'.file = "whole" /\ Listed(report'.entries) = Listed(results)
    BY <1>3 DEF Whole
  <2>2. Listed(results) \in JobRuns
    BY ListedIsRun
  <2> QED BY <1>1, <2>1, <2>2
          DEF Job!Curated, Job!Fail, Job!Following, Job!Whole
<1> QED BY <1>2, <1>3

\* A session that exits: its report, and the status that follows from it.
LEMMA ExitIsCurated ==
  ASSUME RunnerInv, Exit, session = 1
  PROVE  Job!Curated
<1>1. /\ ~Ended /\ Ended' /\ exit' = ExitCode /\ report' = report /\ results' = results
      /\ report = Whole(results) /\ ExitCode \in {"0", "1"}
  BY DEF Exit, End, Ended, RunnerInv, ReportEntries, ExitCode
<1>2. report'.file = "whole" /\ Listed(report'.entries) = Listed(results)
  BY <1>1 DEF Whole
<1>3. /\ Listed(results) \in JobRuns
      /\ Job!CuratedExit(Listed(results)) = IF ExitCode = "1" THEN 1 ELSE 0
  BY ListedIsRun
<1>4. CASE ExitCode = "1"
  BY <1>1, <1>2, <1>3, <1>4
     DEF Job!Curated, Job!Fail, Job!Following, Job!Whole
<1>5. CASE ExitCode = "0"
  BY <1>1, <1>2, <1>3, <1>5
     DEF Job!Curated, Job!Succeed, Job!Following, Job!Whole
<1> QED BY <1>1, <1>4, <1>5

\* Every session in a clean checkout is one step Curated of the nightly job.
THEOREM SessionsAreTheJobsStep == Spec => SessionIsTheJobsStep
<1>1. ASSUME RunnerInv, [Next]_vars, pc # "idle"
      PROVE  Job!Curated \/ UNCHANGED Job!vars
  <2>1. CASE pc' # "idle" \/ session' # 1
      BY <1>1, <2>1, RunningIsInvisible DEF Ended
  <2>2. CASE pc' = "idle" /\ session' = 1
    <3>1. \/ Refuse \/ DesignRaises \/ Exit \/ Die
        BY <1>1, <2>2 DEF Next, Step, Start, Validate, Discover, ClearWork, BeginDesign,
             EndDesign, OpenReport, WriteReport, Render, vars
    <3>2. session = 1
        BY <2>2, <3>1 DEF Refuse, DesignRaises, Exit, Die, End
    <3>3. CASE Exit
        BY <1>1, <3>2, <3>3, ExitIsCurated
    <3>4. CASE Refuse \/ DesignRaises \/ Die
      <4>1. /\ exit' \in {"raised", "died"} /\ report' = report
            /\ pc \in {"start", "discover", "next", "design", "write", "exit"}
          BY <1>1, <3>4 DEF Refuse, DesignRaises, Die, End, RunnerInv, TypeOK
      <4>2. report \in {NoReport, Torn, Whole(results)}
          BY <1>1, <3>2, <4>1, Typing DEF RunnerInv, ReportEntries
      <4> QED BY <1>1, <2>2, <3>2, <4>1, <4>2, UnansweredFails
    <3> QED BY <3>1, <3>3, <3>4
  <2> QED BY <2>1, <2>2
<1>2. RunnerInv /\ [Next]_vars => [pc # "idle" => Job!Curated]_(Job!vars)
  BY <1>1
<1> QED BY <1>2, RunnerInvariant, PTL DEF Spec, SessionIsTheJobsStep

-----------------------------------------------------------------------------
(* A session that is not killed runs out of steps: the part of SessionsEnd   *)
(* that needs no fairness.                                                   *)

\* The numbers that Left is made of.
LEMMA Lengths ==
  ASSUME RunnerInv
  PROVE  /\ Len(checkout.corpus) \in Nat /\ found \in 0..Len(checkout.corpus)
         /\ Len(selected) \in Nat /\ Len(selected) <= found
         /\ Len(results) \in Nat /\ Len(results) <= Len(selected)
         /\ pc = "design" => Len(results) < Len(selected)
         /\ pc \in {"start", "discover"} => Len(results) = 0
         /\ pc = "start" => found = 0 /\ Len(selected) = 0
BY Typing DEF RunnerInv, Selection, ResultsOfSession

LEMMA LeftIsBounded ==
  ASSUME RunnerInv
  PROVE  Left \in 0..(5 + 3 * Len(checkout.corpus))
<1>1. pc \in {"idle", "start", "discover", "next", "design", "write", "exit"}
  BY DEF RunnerInv, TypeOK
<1>2. PICK c \in Nat, f \in Nat, s \in Nat, r \in Nat :
        /\ c = Len(checkout.corpus) /\ f = found /\ s = Len(selected) /\ r = Len(results)
  BY Lengths
<1>3. f <= c /\ s <= f /\ r <= s
  BY <1>2, Lengths
<1> QED BY <1>1, <1>2, <1>3 DEF Left

\* An entry costs three steps, of which a design keeps two.
LEMMA EntryCosts ==
  ASSUME NEW c \in Nat, NEW f \in Nat, NEW s \in Nat, NEW n \in Nat, n <= s + 1
  PROVE  4 + 3 * (c - (f + 1)) + 2 * n < 4 + 3 * (c - f) + 2 * s
OBVIOUS

LEMMA StepsCount ==
  ASSUME RunnerInv, Step
  PROVE  Left' < Left
<1>1. PICK c \in Nat, f \in Nat, s \in Nat, r \in Nat :
        /\ c = Len(checkout.corpus) /\ f = found /\ s = Len(selected) /\ r = Len(results)
  BY Lengths
<1>2. /\ f <= c /\ s <= f /\ r <= s
      /\ pc = "design" => r < s
      /\ pc \in {"start", "discover"} => r = 0
      /\ pc = "start" => f = 0 /\ s = 0
  BY <1>1, Lengths
<1>3. CASE Validate
  BY <1>1, <1>2, <1>3 DEF Validate, inputs, Left
<1>4. CASE Discover
  <2>1. PICK n \in Nat : n = Len(selected') /\ n <= s + 1
    <3>1. selected \in Seq(Designs)
        BY Typing
    <3>2. CASE selected' = selected
        BY <1>1, <3>2
    <3>3. CASE selected' = Append(selected, Found)
        BY <1>1, <3>1, <3>3
    <3> QED BY <1>4, <3>2, <3>3 DEF Discover
  <2>3. Left = 4 + 3 * (c - f) + 2 * s
      BY <1>1, <1>4 DEF Discover, Left
  <2>4. Left' = 4 + 3 * (c - (f + 1)) + 2 * n
      BY <1>1, <1>4, <2>1 DEF Discover, Left
  <2>5. 4 + 3 * (c - (f + 1)) + 2 * n < 4 + 3 * (c - f) + 2 * s
      BY <1>1, <2>1, EntryCosts
  <2> QED BY <2>3, <2>4, <2>5
<1>5. CASE Refuse
  BY <1>1, <1>2, <1>5 DEF Refuse, End, inputs, Left
<1>6. CASE ClearWork
  BY <1>1, <1>2, <1>6 DEF ClearWork, Discovered, AllFound, inputs, Left
<1>7. CASE BeginDesign
  BY <1>1, <1>2, <1>7 DEF BeginDesign, inputs, Left
<1>8. CASE EndDesign
  <2>1. Len(results') = r + 1
    <3>1. results \in Seq(Entries)
        BY Typing
    <3>2. \E entry : results' = Append(results, entry)
        BY <1>8 DEF EndDesign
    <3> QED BY <1>1, <3>1, <3>2
  <2>2. Left = 2 + 2 * (s - r) /\ Left' = 3 + 2 * (s - (r + 1))
      BY <1>1, <1>8, <2>1 DEF EndDesign, Left
  <2> QED BY <1>1, <2>2
<1>9. CASE DesignRaises
  BY <1>1, <1>2, <1>9 DEF DesignRaises, End, Left
<1>10. CASE OpenReport
  BY <1>1, <1>2, <1>10 DEF OpenReport, Left
<1>11. CASE WriteReport
  BY <1>11 DEF WriteReport, Left
<1>12. CASE Exit
  BY <1>12 DEF Exit, End, Left
<1> QED BY <1>3, <1>4, <1>5, <1>6, <1>7, <1>8, <1>9, <1>10, <1>11, <1>12 DEF Step

\* No session goes on for ever, whatever its pipelines do and its corpus holds.
THEOREM SessionsRunOut == Spec => StepsRunOut
<1>1. RunnerInv => Left \in 0..(5 + 3 * Len(checkout.corpus))
  BY LeftIsBounded
<1>2. RunnerInv /\ [Next]_vars => [Step => Left' < Left]_vars
  BY StepsCount
<1> QED BY <1>1, <1>2, RunnerInvariant, PTL DEF Spec, StepsRunOut

=============================================================================
