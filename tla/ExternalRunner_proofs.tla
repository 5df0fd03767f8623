------------------------ MODULE ExternalRunner_proofs ------------------------
(***************************************************************************)
(* Proofs about ExternalRunner, for every history of pins, every layout of *)
(* suites and stems, every baseline and every behaviour of verilog2hif.    *)
(***************************************************************************)
EXTENDS ExternalRunner, WellFoundedInduction, TLAPS

\* A run of the tool gets one of the four statuses.
LEMMA ClassifySound ==
  ASSUME NEW run \in Runs, NEW probed \in BOOLEAN, NEW found
  PROVE  Classify(run, probed, found) \in ExternalStatuses
BY DEF Classify, ExternalStatuses, StatusCols, Failures

LEMMA NoArtifactsType ==
  /\ NoArtifacts \in [Suites \X {Stem[f] : f \in Files} -> Lefts]
  /\ \A s \in Suites, f \in Files : NoArtifacts[<<s, Stem[f]>>] = "none"
BY DEF NoArtifacts, Lefts

\* The constants, and what a well-typed state says of the loops.
LEMMA Typing ==
  ASSUME TypeOK
  PROVE  /\ request.keys \subseteq Keys /\ request.suites \subseteq Suites
         /\ request.files \subseteq Files
         /\ Keys \subseteq Nat /\ 0 \notin Keys /\ Suites \subseteq Nat /\ 0 \notin Suites
         /\ \A f \in Files : SuiteOf[f] \in Suites
         /\ \A s \in Suites : KeyOf[s] \in Keys
         /\ \A s, t \in Suites : s < t => KeyOf[s] <= KeyOf[t]
         /\ Selected \subseteq Suites /\ \A s \in Selected : KeyOf[s] \in request.keys
         /\ \A k \in Keys : pin[k] \in Revisions
         /\ Asked \subseteq Files
<1>1. request \in [keys : SUBSET Keys, suites : SUBSET Suites, files : SUBSET Files]
  BY ExternalAssumption DEF TypeOK
<1>2. Keys \subseteq Nat /\ 0 \notin Keys /\ Suites \subseteq Nat /\ 0 \notin Suites
  BY ExternalAssumption DEF Keys, Suites
<1>3. \A k \in Keys : pin[k] \in Revisions
  BY ExternalAssumption DEF TypeOK
<1>4. \A f \in Files : SuiteOf[f] \in Suites
  BY ExternalAssumption
<1>5. /\ \A s \in Suites : KeyOf[s] \in Keys
      /\ \A s, t \in Suites : s < t => KeyOf[s] <= KeyOf[t]
  BY ExternalAssumption
<1>6. Selected \subseteq Suites /\ \A s \in Selected : KeyOf[s] \in request.keys
  BY <1>1 DEF Selected
<1>7. Asked \subseteq Files
  BY <1>1 DEF Asked
<1> QED BY <1>1, <1>2, <1>3, <1>4, <1>5, <1>6, <1>7

LEMMA InitInv == Init => ExternalInv
<1> SUFFICES ASSUME Init PROVE ExternalInv
  OBVIOUS
<1>1. DOMAIN results = {}
  BY DEF Init
<1>2. TypeOK
  BY <1>1, NoArtifactsType DEF Init, TypeOK
<1>3. CheckoutInv
  BY DEF Init, CheckoutInv, Fetching
<1>4. Judged /\ Reported /\ Progress
  BY <1>1 DEF Init, Judged, Reported, Progress
<1> QED BY <1>2, <1>3, <1>4 DEF ExternalInv

-----------------------------------------------------------------------------
(* What a step within a session leaves alone. *)

LEMMA JudgedStays ==
  ASSUME Judged, UNCHANGED <<results, baseline>>, pc # "idle", pc' # "clear",
         exit' = exit \/ exit' = "died"
  PROVE  Judged'
BY DEF Judged, Probed, Classify

LEMMA ReportedStays ==
  ASSUME Judged, Reported, UNCHANGED <<report, fresh>>, exit' = exit \/ exit' = "died",
         pc \notin {"idle", "write", "exit"}, pc' \notin {"write", "exit"}
  PROVE  Reported'
BY DEF Judged, Reported

\* The end of a session leaves nothing of Progress to keep.
LEMMA EndedProgress == pc' = "idle" => Progress'
BY DEF Progress

LEMMA EndedCheckout ==
  ASSUME CheckoutInv, UNCHANGED <<checkout, broken>>, pc' = "idle"
  PROVE  CheckoutInv'
BY DEF CheckoutInv, Fetching

\* Past the last key, nothing that Progress speaks of changes.
LEMMA PastProgress ==
  ASSUME Progress, pc \in Past, pc' \in Past, \A k \in request.keys : k <= key,
         UNCHANGED <<request, checkout, key, suite, results, work>>
  PROVE  Progress'
<1>1. /\ Asked' = Asked /\ Selected' = Selected /\ pc' \notin Fetching
      /\ pc \notin {"idle", "clear"} /\ \A s : Over(s)' <=> Over(s)
  BY DEF Asked, Selected, Over, Past, Fetching
<1> QED BY <1>1 DEF Progress

\* The suites come in the order of their keys.
LEMMA EarlierKey ==
  ASSUME TypeOK, NEW s \in Suites, NEW t \in Suites, s <= t
  PROVE  KeyOf[s] <= KeyOf[t]
<1>1. CASE s = t
  BY <1>1, Typing
<1>2. CASE s # t
  BY <1>2, Typing
<1> QED BY <1>1, <1>2

\* The fetch of a key touches its own checkout only, of which there is no result.
LEMMA FetchProgress ==
  ASSUME TypeOK, Progress, pc \in Fetching, pc' \in Fetching \cup {"suites"},
         key \in Keys, UNCHANGED <<request, key, suite, results, work>>,
         \A k \in Keys \ {key} : checkout'[k] = checkout[k]
  PROVE  Progress'
<1>1. pc \notin {"idle", "clear"} /\ pc' \notin Past /\ Selected' = Selected
  BY DEF Fetching, Past, Selected
<1>2. ASSUME NEW s \in Suites, s <= suite, suite # 0
      PROVE  KeyOf[s] < key
  <2>1. suite \in Suites /\ KeyOf[suite] < key
    BY <1>1, <1>2 DEF TypeOK, Progress
  <2>2. KeyOf[s] <= KeyOf[suite]
    BY <1>2, <2>1, EarlierKey
  <2> QED BY <2>1, <2>2, Typing
<1>3. ASSUME NEW f \in Files, KeyOf[SuiteOf[f]] # key
      PROVE  f \in Asked' <=> f \in Asked
  BY <1>3, Typing DEF Asked
<1>4. \A f \in DOMAIN results' :
        f \in Asked' /\ SuiteOf[f] \in Selected' /\ SuiteOf[f] <= suite'
  <2> SUFFICES ASSUME NEW f \in DOMAIN results
               PROVE  f \in Asked' /\ SuiteOf[f] \in Selected /\ SuiteOf[f] <= suite
    BY <1>1
  <2>1. f \in Asked /\ SuiteOf[f] \in Selected /\ SuiteOf[f] <= suite
    BY <1>1 DEF Progress
  <2>2. f \in Files /\ SuiteOf[f] \in Suites /\ suite # 0
    BY <2>1, Typing DEF TypeOK
  <2>3. KeyOf[SuiteOf[f]] # key
    BY <1>2, <2>1, <2>2, Typing
  <2> QED BY <1>3, <2>1, <2>2, <2>3
<1>5. \A f \in Asked' : Over(SuiteOf[f])' => f \in DOMAIN results'
  <2> SUFFICES ASSUME NEW f \in Asked', Over(SuiteOf[f])' PROVE f \in DOMAIN results
    OBVIOUS
  <2>1. f \in Files /\ SuiteOf[f] \in Suites
    BY Typing DEF Asked
  <2>2. /\ SuiteOf[f] \in Selected
        /\ KeyOf[SuiteOf[f]] < key \/ (KeyOf[SuiteOf[f]] = key /\ SuiteOf[f] < suite)
    BY <1>1 DEF Over, Past
  <2>3. KeyOf[SuiteOf[f]] < key
    <3>1. CASE SuiteOf[f] < suite
      BY <1>2, <2>1, <3>1, Typing DEF TypeOK
    <3> QED BY <2>2, <3>1
  <2>4. f \in Asked /\ Over(SuiteOf[f])
    BY <1>3, <2>1, <2>2, <2>3, Typing DEF Over, Past
  <2> QED BY <1>1, <2>4 DEF Progress
<1>6. suite' # 0 => /\ suite' \in Selected' /\ KeyOf[suite'] <= key'
                    /\ pc' \in Fetching => KeyOf[suite'] < key'
  BY <1>1 DEF Progress
<1>7. \A s \in Suites, f \in Files : work'[<<s, Stem[f]>>] # "none" =>
        \E g \in DOMAIN results' : SuiteOf[g] = s /\ Stem[g] = Stem[f]
  BY <1>1 DEF Progress
<1> QED BY <1>1, <1>4, <1>5, <1>6, <1>7 DEF Progress, Past

\* The keys whose fetch is over are not fetched again.
LEMMA FetchedEarlier ==
  ASSUME TypeOK, pc \in Fetching, UNCHANGED <<request, key>>,
         NEW k \in Fetched', pc' \in Fetching \/ k # key
  PROVE  k \in Fetched /\ k # key /\ k \in Keys
BY Typing DEF Fetched, Fetching, TypeOK, Past
-----------------------------------------------------------------------------
(* A lemma per action: CheckoutInv by the keys it touches, Progress by the     *)
(* suites that are over after it.                                              *)

LEMMA StartInv == ASSUME ExternalInv, Start PROVE ExternalInv'
<1> USE DEF ExternalInv
<1>1. DOMAIN results' = {} /\ suite' = 0 /\ key' = 0 /\ pc' = "clear" /\ exit' = "running"
  BY DEF Start
<1>2. TypeOK'
  BY <1>1 DEF Start, TypeOK
<1>3. CheckoutInv'
  <2>1. Fetched' = {}
    BY <1>1, <1>2, Typing, ExternalAssumption DEF Fetched, TypeOK, Keys
  <2> QED BY <1>1, <2>1 DEF Start, CheckoutInv, Fetching
<1>4. Judged' /\ Progress'
  BY <1>1 DEF Judged, Progress
<1>5. Reported'
  BY <1>1 DEF Start, Reported
<1> QED BY <1>2, <1>3, <1>4, <1>5

LEMMA ClearWorkInv == ASSUME ExternalInv, ClearWork PROVE ExternalInv'
<1> USE DEF ExternalInv
<1>1. /\ pc = "clear" /\ pc' = "keys" /\ DOMAIN results = {} /\ suite = 0 /\ key = 0
      /\ work' = NoArtifacts /\ exit' = exit
      /\ UNCHANGED <<pin, baseline, request, fresh, checkout, broken, key, suite, results, report>>
  BY DEF ClearWork, inputs, Judged
<1>2. TypeOK'
  BY <1>1, NoArtifactsType DEF TypeOK
<1>3. CheckoutInv'
  <2>1. Fetched' = {}
    BY <1>1, Typing DEF Fetched, Past
  <2> QED BY <1>1, <2>1 DEF CheckoutInv, Fetching
<1>4. Judged' /\ Reported'
  BY <1>1, JudgedStays, ReportedStays
<1>5. Progress'
  <2>1. \A s \in Suites : ~Over(s)'
    BY <1>1, Typing DEF Over, Selected, Past
  <2>2. \A f \in Asked' : SuiteOf[f] \in Suites
    BY <1>1, Typing DEF Asked
  <2>3. \A s \in Suites, f \in Files : work'[<<s, Stem[f]>>] = "none"
    BY <1>1, NoArtifactsType
  <2> QED BY <1>1, <2>1, <2>2, <2>3 DEF Progress, Fetching
<1> QED BY <1>2, <1>3, <1>4, <1>5

\* The key that comes up is the first after the last: nothing between is selected.
LEMMA EnterKeyInv == ASSUME ExternalInv, EnterKey PROVE ExternalInv'
<1> USE DEF ExternalInv
<1>1. /\ pc = "keys" /\ pc' = "fetch" /\ exit' = exit
      /\ UNCHANGED <<pin, baseline, request, fresh, checkout, broken, work, suite, results, report>>
      /\ key' \in Keys /\ NextKey(key')
  BY DEF EnterKey, inputs
<1>2. /\ key' \in request.keys /\ key' > key /\ \A l \in request.keys : l > key => key' <= l
      /\ key \in Nat /\ key' \in Nat /\ request.keys \subseteq Nat
  BY <1>1, Typing DEF NextKey, TypeOK
<1>3. TypeOK'
  BY <1>1 DEF TypeOK
<1>4. CheckoutInv'
  <2>1. Fetched' \subseteq Fetched
    BY <1>1, <1>2 DEF Fetched, Past
  <2> QED BY <1>1, <1>2, <2>1 DEF CheckoutInv, Fetching
<1>5. Judged' /\ Reported'
  BY <1>1, JudgedStays, ReportedStays
<1>6. Progress'
  <2>1. Asked' = Asked /\ Selected' = Selected
    BY <1>1 DEF Asked, Selected
  <2>2. suite # 0 => /\ suite \in Selected /\ KeyOf[suite] <= key /\ KeyOf[suite] < key'
                     /\ KeyOf[suite] <= key'
    <3> SUFFICES ASSUME suite # 0
                 PROVE  /\ suite \in Selected /\ KeyOf[suite] <= key /\ KeyOf[suite] < key'
                        /\ KeyOf[suite] <= key'
      OBVIOUS
    <3>1. suite \in Selected /\ KeyOf[suite] <= key
      BY <1>1 DEF Progress
    <3>2. KeyOf[suite] \in Nat
      BY <3>1, Typing
    <3> QED BY <1>2, <3>1, <3>2
  <2>3. ASSUME NEW f \in Asked, Over(SuiteOf[f])' PROVE f \in DOMAIN results
    <3>1. SuiteOf[f] \in Suites /\ SuiteOf[f] \in Nat /\ SuiteOf[f] # 0 /\ suite \in Nat
      BY Typing DEF TypeOK
    <3>2. SuiteOf[f] \in Selected /\ KeyOf[SuiteOf[f]] \in request.keys
      BY <2>1, <2>3, Typing DEF Over, Past
    <3>3. KeyOf[SuiteOf[f]] <= key
      <4>1. CASE KeyOf[SuiteOf[f]] < key'
        BY <1>2, <3>2, <4>1
      <4>2. CASE SuiteOf[f] < suite
        <5>1. suite # 0 /\ suite \in Suites
          BY <3>1, <4>2 DEF TypeOK
        <5>2. KeyOf[SuiteOf[f]] <= KeyOf[suite]
          BY <3>1, <4>2, <5>1, EarlierKey
        <5>3. KeyOf[suite] \in Nat
          BY <2>2, <5>1, Typing
        <5> QED BY <1>2, <2>2, <3>2, <5>1, <5>2, <5>3
      <4> QED BY <1>1, <2>3, <4>1, <4>2 DEF Over, Past
    <3>4. Over(SuiteOf[f])
      BY <1>1, <1>2, <3>2, <3>3 DEF Over, Past
    <3> QED BY <1>1, <3>4 DEF Progress
  <2> QED BY <1>1, <2>1, <2>2, <2>3 DEF Progress
<1> QED BY <1>3, <1>4, <1>5, <1>6

LEMMA ReuseInv == ASSUME ExternalInv, Reuse PROVE ExternalInv'
<1> USE DEF ExternalInv
<1>1. /\ pc = "fetch" /\ pc' = "suites" /\ exit' = exit /\ checkout[key].head = pin[key]
      /\ UNCHANGED <<pin, baseline, request, fresh, checkout, broken, work, key, suite, results, report>>
  BY DEF Reuse, inputs
<1>2. key \in request.keys /\ key \in Keys
  BY <1>1, Typing DEF CheckoutInv, Fetching
<1>3. TypeOK'
  BY <1>1 DEF TypeOK
<1>4. CheckoutInv'
  <2>1. ASSUME NEW k \in Fetched' PROVE checkout[k].head = pin[k]
    <3>1. CASE k = key
      BY <1>1, <3>1
    <3>2. CASE k # key
      BY <1>1, <3>2, FetchedEarlier DEF Fetching, CheckoutInv
    <3> QED BY <3>1, <3>2
  <2> QED BY <1>1, <1>2, <2>1 DEF CheckoutInv, Fetching
<1>5. Judged' /\ Reported'
  BY <1>1, JudgedStays, ReportedStays
<1>6. Progress'
  BY <1>1, <1>2, FetchProgress DEF Fetching
<1> QED BY <1>3, <1>4, <1>5, <1>6

LEMMA DiscardInv == ASSUME ExternalInv, Discard PROVE ExternalInv'
<1> USE DEF ExternalInv
<1>1. /\ pc = "fetch" /\ pc' = "remove" /\ exit' = exit
      /\ broken' = [broken EXCEPT ![key] = TRUE]
      /\ UNCHANGED <<pin, baseline, request, fresh, checkout, work, key, suite, results, report>>
  BY DEF Discard, inputs
<1>2. key \in request.keys /\ key \in Keys
  BY <1>1, Typing DEF CheckoutInv, Fetching
<1>3. TypeOK'
  BY <1>1 DEF TypeOK
<1>4. CheckoutInv'
  <2>1. \A k \in Fetched' : checkout[k].head = pin[k]
    BY <1>1, FetchedEarlier DEF Fetching, CheckoutInv
  <2>2. broken'[key] /\ \A k \in Keys : ~broken'[k] => ~broken[k]
    BY <1>1, <1>2 DEF TypeOK
  <2> QED BY <1>1, <1>2, <2>1, <2>2 DEF CheckoutInv, Fetching
<1>5. Judged' /\ Reported'
  BY <1>1, JudgedStays, ReportedStays
<1>6. Progress'
  BY <1>1, <1>2, FetchProgress DEF Fetching
<1> QED BY <1>3, <1>4, <1>5, <1>6

LEMMA RemoveInv == ASSUME ExternalInv, Remove PROVE ExternalInv'
<1> USE DEF ExternalInv
<1>1. /\ pc = "remove" /\ pc' = "remove" /\ exit' = exit
      /\ UNCHANGED <<pin, baseline, request, fresh, broken, work, key, suite, results, report>>
  BY DEF Remove, inputs
<1>2. key \in request.keys /\ key \in Keys /\ broken[key]
  BY <1>1, Typing DEF CheckoutInv, Fetching
<1>3. TypeOK' /\ \A k \in Keys \ {key} : checkout'[k] = checkout[k]
  <2>1. CASE \E f \in checkout[key].files :
               checkout' = [checkout EXCEPT ![key].files = @ \ {f}]
    BY <1>1, <1>2, <2>1 DEF TypeOK
  <2>2. CASE checkout' = [checkout EXCEPT ![key].head = "none"]
    BY <1>1, <1>2, <2>2 DEF TypeOK
  <2> QED BY <2>1, <2>2 DEF Remove
<1>4. CheckoutInv'
  <2>1. \A k \in Fetched' : checkout'[k].head = pin[k]
    BY <1>1, <1>3, FetchedEarlier DEF Fetching, CheckoutInv
  <2> QED BY <1>1, <1>2, <1>3, <2>1 DEF CheckoutInv, Fetching
<1>5. Judged' /\ Reported'
  BY <1>1, JudgedStays, ReportedStays
<1>6. Progress'
  BY <1>1, <1>2, <1>3, FetchProgress DEF Fetching
<1> QED BY <1>3, <1>4, <1>5, <1>6

LEMMA RemovedInv == ASSUME ExternalInv, Removed PROVE ExternalInv'
<1> USE DEF ExternalInv
<1>1. /\ pc = "remove" /\ pc' = "checkout" /\ exit' = exit
      /\ checkout[key] = [head |-> "none", files |-> {}]
      /\ broken' = [broken EXCEPT ![key] = FALSE]
      /\ UNCHANGED <<pin, baseline, request, fresh, checkout, work, key, suite, results, report>>
  BY DEF Removed, inputs
<1>2. key \in request.keys /\ key \in Keys
  BY <1>1, Typing DEF CheckoutInv, Fetching
<1>3. TypeOK'
  BY <1>1 DEF TypeOK
<1>4. CheckoutInv'
  <2>1. \A k \in Fetched' : checkout[k].head = pin[k]
    BY <1>1, FetchedEarlier DEF Fetching, CheckoutInv
  <2>2. ~broken'[key] /\ \A k \in Keys \ {key} : broken'[k] = broken[k]
    BY <1>1, <1>2 DEF TypeOK
  <2>3. checkout[key].head = "none" /\ checkout[key].files = {}
    BY <1>1
  <2>4. ASSUME NEW k \in Keys, ~broken'[k], checkout[k].head # "none"
        PROVE  checkout[k].files = Tree[checkout[k].head]
    BY <2>2, <2>3, <2>4 DEF CheckoutInv
  <2> QED BY <1>1, <1>2, <2>1, <2>2, <2>3, <2>4 DEF CheckoutInv, Fetching
<1>5. Judged' /\ Reported'
  BY <1>1, JudgedStays, ReportedStays
<1>6. Progress'
  BY <1>1, <1>2, FetchProgress DEF Fetching
<1> QED BY <1>3, <1>4, <1>5, <1>6

LEMMA CheckoutFileInv == ASSUME ExternalInv, CheckoutFile PROVE ExternalInv'
<1> USE DEF ExternalInv
<1>1. /\ pc = "checkout" /\ pc' = "checkout" /\ exit' = exit
      /\ UNCHANGED <<pin, baseline, request, fresh, broken, work, key, suite, results, report>>
  BY DEF CheckoutFile, inputs
<1>2. /\ key \in request.keys /\ key \in Keys /\ ~broken[key]
      /\ checkout[key].head = "none" /\ checkout[key].files \subseteq Tree[pin[key]]
      /\ Tree[pin[key]] \subseteq Files
  BY <1>1, Typing, ExternalAssumption DEF CheckoutInv, Fetching
<1>3. PICK f \in Tree[pin[key]] : checkout' = [checkout EXCEPT ![key].files = @ \cup {f}]
  BY DEF CheckoutFile
<1>4. TypeOK' /\ \A k \in Keys \ {key} : checkout'[k] = checkout[k]
  BY <1>1, <1>2, <1>3 DEF TypeOK
<1>5. CheckoutInv'
  <2>1. \A k \in Fetched' : checkout'[k].head = pin[k]
    BY <1>1, <1>4, FetchedEarlier DEF Fetching, CheckoutInv
  <2>2. /\ checkout'[key].head = "none"
        /\ checkout'[key].files = checkout[key].files \cup {f}
    BY <1>2, <1>3 DEF TypeOK
  <2>3. ASSUME NEW k \in Keys, ~broken'[k], checkout'[k].head # "none"
        PROVE  checkout'[k].files = Tree[checkout'[k].head]
    BY <1>1, <1>4, <2>2, <2>3 DEF CheckoutInv
  <2> QED BY <1>1, <1>2, <2>1, <2>2, <2>3 DEF CheckoutInv, Fetching
<1>6. Judged' /\ Reported'
  BY <1>1, JudgedStays, ReportedStays
<1>7. Progress'
  BY <1>1, <1>2, <1>4, FetchProgress DEF Fetching
<1> QED BY <1>4, <1>5, <1>6, <1>7

LEMMA CheckedOutInv == ASSUME ExternalInv, CheckedOut PROVE ExternalInv'
<1> USE DEF ExternalInv
<1>1. /\ pc = "checkout" /\ pc' = "suites" /\ exit' = exit
      /\ Tree[pin[key]] \subseteq checkout[key].files
      /\ checkout' = [checkout EXCEPT ![key].head = pin[key]]
      /\ UNCHANGED <<pin, baseline, request, fresh, broken, work, key, suite, results, report>>
  BY DEF CheckedOut, inputs
<1>2. /\ key \in request.keys /\ key \in Keys /\ ~broken[key]
      /\ checkout[key].files = Tree[pin[key]] /\ pin[key] \in Revisions
  BY <1>1, Typing DEF CheckoutInv, Fetching
<1>3. TypeOK' /\ \A k \in Keys \ {key} : checkout'[k] = checkout[k]
  BY <1>1, <1>2 DEF TypeOK
<1>4. checkout'[key].head = pin[key] /\ checkout'[key].files = Tree[pin[key]]
  BY <1>1, <1>2 DEF TypeOK
<1>5. CheckoutInv'
  <2>1. ASSUME NEW k \in Fetched' PROVE checkout'[k].head = pin[k]
    <3>1. CASE k = key
      BY <1>4, <3>1
    <3>2. CASE k # key
      BY <1>1, <1>3, <3>2, FetchedEarlier DEF Fetching, CheckoutInv
    <3> QED BY <3>1, <3>2
  <2>2. ASSUME NEW k \in Keys, ~broken'[k], checkout'[k].head # "none"
        PROVE  checkout'[k].files = Tree[checkout'[k].head]
    BY <1>1, <1>3, <1>4, <2>2 DEF CheckoutInv
  <2> QED BY <1>1, <1>2, <2>1, <2>2 DEF CheckoutInv, Fetching
<1>6. Judged' /\ Reported'
  BY <1>1, JudgedStays, ReportedStays
<1>7. Progress'
  BY <1>1, <1>2, <1>3, FetchProgress DEF Fetching
<1> QED BY <1>3, <1>5, <1>6, <1>7
LEMMA EnterSuiteInv == ASSUME ExternalInv, EnterSuite PROVE ExternalInv'
<1> USE DEF ExternalInv
<1>1. PICK s \in LaterSuites :
        /\ \A t \in LaterSuites : s <= t
        /\ suite' = s
        /\ IF \E f \in checkout[key].files : SuiteOf[f] = s
           THEN UNCHANGED <<pc, exit>>
           ELSE End("died")
  BY DEF EnterSuite
<1>2. /\ pc = "suites" /\ Listed \subseteq DOMAIN results
      /\ UNCHANGED <<pin, baseline, request, fresh, checkout, broken, work, key, results, report>>
  BY DEF EnterSuite, inputs
<1>3. (pc' = "suites" /\ exit' = exit) \/ (pc' = "idle" /\ exit' = "died")
  BY <1>1, <1>2 DEF End
<1>4. s \in Selected /\ s \in Suites /\ KeyOf[s] = key /\ s > suite
  BY <1>1, Typing DEF LaterSuites
<1>5. TypeOK'
  BY <1>1, <1>2, <1>3, <1>4 DEF TypeOK
<1>6. CheckoutInv'
  BY <1>2, <1>3 DEF CheckoutInv, Fetched, Fetching, Past
<1>7. Judged' /\ Reported'
  BY <1>2, <1>3, JudgedStays, ReportedStays
<1>8. Progress'
  <2> SUFFICES ASSUME pc' = "suites" PROVE Progress'
    BY <1>3, EndedProgress
  <2>1. Asked' = Asked /\ Selected' = Selected
    BY <1>2 DEF Asked, Selected
  <2>2. suite' \in Selected /\ KeyOf[suite'] <= key
    BY <1>1, <1>4, Typing
  <2>3. ASSUME NEW f \in DOMAIN results
        PROVE  f \in Asked /\ SuiteOf[f] \in Selected /\ SuiteOf[f] <= suite'
    <3>1. f \in Asked /\ SuiteOf[f] \in Selected /\ SuiteOf[f] <= suite
      BY <1>2 DEF Progress
    <3>2. SuiteOf[f] \in Nat /\ suite \in Nat /\ s \in Nat
      BY <1>4, <3>1, Typing DEF TypeOK
    <3> QED BY <1>1, <1>4, <3>1, <3>2
  <2>4. ASSUME NEW f \in Asked, Over(SuiteOf[f])' PROVE f \in DOMAIN results
    <3>1. /\ SuiteOf[f] \in Selected
          /\ KeyOf[SuiteOf[f]] < key \/ (KeyOf[SuiteOf[f]] = key /\ SuiteOf[f] < s)
      BY <1>1, <1>2, <2>1, <2>4 DEF Over, Past
    <3>2. SuiteOf[f] \in Nat /\ suite \in Nat /\ s \in Nat
      BY <1>4, Typing DEF TypeOK
    <3>3. CASE Over(SuiteOf[f])
      BY <1>2, <3>3 DEF Progress
    <3>4. CASE ~Over(SuiteOf[f])
      <4>1. KeyOf[SuiteOf[f]] = key /\ SuiteOf[f] < s /\ ~(SuiteOf[f] < suite)
        BY <3>1, <3>4 DEF Over, Past
      <4>2. ~(SuiteOf[f] > suite)
        BY <1>1, <3>1, <3>2, <4>1 DEF LaterSuites
      <4>3. SuiteOf[f] = suite
        BY <3>2, <4>1, <4>2
      <4> QED BY <1>2, <4>3 DEF Listed
    <3> QED BY <3>3, <3>4
  <2> QED BY <1>2, <2>1, <2>2, <2>3, <2>4 DEF Progress, Fetching
<1> QED BY <1>5, <1>6, <1>7, <1>8

\* With stems of their own, a file's directory is empty when its turn comes.
LEMMA ClassifyFileInv ==
  ASSUME ExternalInv, ClassifyFile
  PROVE  ExternalInv'
<1> USE DEF ExternalInv
<1>1. PICK f \in Files, run \in Runs :
        /\ Due(f)
        /\ LET place == <<suite, Stem[f]>>
               found == IF run.left = "none" THEN work[place] ELSE run.left
           IN  /\ work' = [work EXCEPT ![place] = found]
               /\ results' = [g \in DOMAIN results \cup {f} |->
                    IF g = f THEN [status |-> Classify(run, Probed(f), found), run |-> run]
                    ELSE results[g]]
  BY DEF ClassifyFile
<1> DEFINE place == <<suite, Stem[f]>>
           found == IF run.left = "none" THEN work[place] ELSE run.left
<1>2. /\ f \in Listed /\ f \in Asked /\ f \notin DOMAIN results /\ SuiteOf[f] = suite
      /\ pc = "suites" /\ pc' = "suites" /\ exit' = exit
      /\ UNCHANGED <<pin, baseline, request, fresh, checkout, broken, key, suite, report>>
  BY <1>1 DEF Due, Listed, ClassifyFile, inputs
<1>3. suite \in Suites /\ suite # 0 /\ place \in Suites \X {Stem[g] : g \in Files}
  BY <1>2, Typing
<1>4. found \in Lefts /\ Probed(f) \in BOOLEAN
  BY <1>3, ExternalAssumption DEF TypeOK, Probed
<1>5. /\ DOMAIN results' = DOMAIN results \cup {f}
      /\ results'[f] = [status |-> Classify(run, Probed(f), found), run |-> run]
      /\ \A g \in DOMAIN results : results'[g] = results[g]
      /\ work' = [work EXCEPT ![place] = found]
  BY <1>1, <1>2
<1> HIDE DEF found
<1>6. TypeOK'
  <2>1. Classify(run, Probed(f), found) \in ExternalStatuses
    BY <1>4, ClassifySound
  <2>2. work' \in [Suites \X {Stem[g] : g \in Files} -> Lefts]
    BY <1>3, <1>4, <1>5 DEF TypeOK
  <2>3. \A g \in DOMAIN results' : results'[g] \in [status : ExternalStatuses, run : Runs]
    BY <1>5, <2>1 DEF TypeOK
  <2>4. DOMAIN results' \subseteq Files
    BY <1>5 DEF TypeOK
  <2> QED BY <1>2, <2>2, <2>3, <2>4 DEF TypeOK
<1>7. CheckoutInv'
  BY <1>2 DEF CheckoutInv, Fetched, Fetching, Past
<1>8. UniqueStems => found = run.left
  <2>1. SUFFICES ASSUME UniqueStems, run.left = "none", work[place] # "none"
                 PROVE  FALSE
    BY DEF found
  <2>2. PICK g \in DOMAIN results : SuiteOf[g] = suite /\ Stem[g] = Stem[f]
    BY <1>2, <1>3, <2>1 DEF Progress
  <2>3. g = f
    BY <1>2, <2>1, <2>2 DEF UniqueStems, TypeOK
  <2> QED BY <1>2, <2>3
<1>9. Judged'
  <2>1. exit \notin {"green", "red"}
    BY <1>2 DEF Judged
  <2>2. UniqueStems => \A g \in DOMAIN results' :
          results'[g].status = Classify(results'[g].run, Probed(g)', results'[g].run.left)
    <3> SUFFICES ASSUME UniqueStems, NEW g \in DOMAIN results'
                 PROVE  results'[g].status
                          = Classify(results'[g].run, Probed(g), results'[g].run.left)
      BY <1>2 DEF Probed
    <3>1. CASE g = f
      BY <1>5, <1>8, <3>1
    <3>2. CASE g # f
      BY <1>5, <3>2 DEF Judged
    <3> QED BY <3>1, <3>2
  <2>3. UniqueStems' = UniqueStems
    BY DEF UniqueStems
  <2> QED BY <1>2, <2>1, <2>2 DEF Judged, Classify
<1>10. Progress'
  <2>1. Asked' = Asked /\ Selected' = Selected /\ \A s \in Suites : Over(s)' <=> Over(s)
    BY <1>2 DEF Asked, Selected, Over, Past
  <2>2. suite \in Selected /\ KeyOf[suite] <= key
    BY <1>2, <1>3 DEF Progress
  <2>3. \A g \in DOMAIN results' :
          g \in Asked /\ SuiteOf[g] \in Selected /\ SuiteOf[g] <= suite
    <3>1. suite <= suite
      BY <1>3, Typing
    <3> QED BY <1>2, <1>5, <2>2, <3>1 DEF Progress
  <2>4. \A g \in Asked : Over(SuiteOf[g]) => g \in DOMAIN results'
    BY <1>2, <1>5 DEF Progress
  <2>5. ASSUME NEW s \in Suites, NEW h \in Files, work'[<<s, Stem[h]>>] # "none"
        PROVE  \E g \in DOMAIN results' : SuiteOf[g] = s /\ Stem[g] = Stem[h]
    <3>1. CASE <<s, Stem[h]>> = place
      BY <1>2, <1>5, <3>1
    <3>2. CASE <<s, Stem[h]>> # place
      <4>1. work[<<s, Stem[h]>>] # "none"
        BY <1>3, <1>5, <2>5, <3>2 DEF TypeOK
      <4> QED BY <1>2, <1>5, <4>1 DEF Progress
    <3> QED BY <3>1, <3>2
  <2>6. \A g \in Asked : SuiteOf[g] \in Suites
    BY Typing
  <2> HIDE DEF place
  <2> QED BY <1>2, <2>1, <2>2, <2>3, <2>4, <2>5, <2>6 DEF Progress, Fetching
<1>11. Reported'
  BY <1>2, ReportedStays
<1> QED BY <1>6, <1>7, <1>9, <1>10, <1>11

LEMMA LeaveKeyInv == ASSUME ExternalInv, LeaveKey PROVE ExternalInv'
<1> USE DEF ExternalInv
<1>1. /\ pc = "suites" /\ pc' = "keys" /\ exit' = exit
      /\ LaterSuites = {} /\ Listed \subseteq DOMAIN results
      /\ UNCHANGED <<pin, baseline, request, fresh, checkout, broken, work, key, suite, results, report>>
  BY DEF LeaveKey, inputs
<1>2. TypeOK'
  BY <1>1 DEF TypeOK
<1>3. CheckoutInv'
  BY <1>1 DEF CheckoutInv, Fetched, Fetching, Past
<1>4. Judged' /\ Reported'
  BY <1>1, JudgedStays, ReportedStays
<1>5. Progress'
  <2>1. Asked' = Asked /\ Selected' = Selected
    BY <1>1 DEF Asked, Selected
  <2>2. ASSUME NEW f \in Asked, Over(SuiteOf[f])' PROVE f \in DOMAIN results
    <3>1. SuiteOf[f] \in Selected /\ SuiteOf[f] \in Nat /\ suite \in Nat
      BY <2>1, <2>2, Typing DEF Over, TypeOK, Past
    <3>2. CASE Over(SuiteOf[f])
      BY <1>1, <3>2 DEF Progress
    <3>3. CASE ~Over(SuiteOf[f])
      <4>1. KeyOf[SuiteOf[f]] = key /\ ~(SuiteOf[f] < suite)
        BY <1>1, <2>2, <3>1, <3>3 DEF Over, Past
      <4>2. ~(SuiteOf[f] > suite)
        BY <1>1, <3>1, <4>1 DEF LaterSuites
      <4>3. SuiteOf[f] = suite
        BY <3>1, <4>1, <4>2
      <4> QED BY <1>1, <4>3 DEF Listed
    <3> QED BY <3>2, <3>3
  <2> QED BY <1>1, <2>1, <2>2 DEF Progress, Fetching
<1> QED BY <1>2, <1>3, <1>4, <1>5

LEMMA OpenReportInv == ASSUME ExternalInv, OpenReport PROVE ExternalInv'
<1> USE DEF ExternalInv
<1>1. /\ pc = "keys" /\ pc' = "write" /\ exit' = exit /\ report' = Torn
      /\ UNCHANGED <<pin, baseline, request, fresh, checkout, broken, work, key, suite, results>>
  BY DEF OpenReport, inputs
<1>2. TypeOK'
  BY <1>1 DEF TypeOK
<1>3. CheckoutInv'
  BY <1>1 DEF CheckoutInv, Fetched, Fetching, Past
<1>4. Judged'
  BY <1>1, JudgedStays
<1>5. Reported'
  BY <1>1 DEF Reported, Judged
<1>6. Progress'
  BY <1>1, PastProgress DEF Past, OpenReport
<1> QED BY <1>2, <1>3, <1>4, <1>5, <1>6

LEMMA WriteReportInv == ASSUME ExternalInv, WriteReport PROVE ExternalInv'
<1> USE DEF ExternalInv
<1>1. /\ pc = "write" /\ pc' = "exit" /\ exit' = exit /\ report' = Written
      /\ UNCHANGED <<pin, baseline, request, fresh, checkout, broken, work, key, suite, results>>
  BY DEF WriteReport, inputs
<1>2. TypeOK'
  BY <1>1 DEF TypeOK, Written
<1>3. CheckoutInv'
  BY <1>1 DEF CheckoutInv, Fetched, Fetching, Past
<1>4. Judged'
  BY <1>1, JudgedStays
<1>5. Reported'
  BY <1>1 DEF Reported, Written
<1>6. Progress'
  BY <1>1, PastProgress DEF Past, Progress
<1> QED BY <1>2, <1>3, <1>4, <1>5, <1>6

LEMMA ExitInv == ASSUME ExternalInv, Exit PROVE ExternalInv'
<1> USE DEF ExternalInv
<1>1. /\ pc = "exit" /\ pc' = "idle" /\ exit' = (IF ExitCode = 0 THEN "green" ELSE "red")
      /\ UNCHANGED <<pin, baseline, request, fresh, checkout, broken, work, key, suite, results, report>>
  BY DEF Exit, End, inputs
<1>2. TypeOK'
  BY <1>1 DEF TypeOK
<1>3. CheckoutInv' /\ Progress'
  BY <1>1, EndedCheckout, EndedProgress
<1>4. ExitCode' = ExitCode /\ ExitCode \in {0, 1}
  BY <1>1 DEF ExitCode, Verdict, Compare
<1>5. Judged'
  BY <1>1, <1>4 DEF Judged, Probed, Classify
<1>6. Reported'
  BY <1>1 DEF Reported, Written
<1> QED BY <1>2, <1>3, <1>5, <1>6

LEMMA DieInv == ASSUME ExternalInv, Die PROVE ExternalInv'
<1> USE DEF ExternalInv
<1>1. /\ pc # "idle" /\ pc' = "idle" /\ exit' = "died"
      /\ UNCHANGED <<pin, baseline, request, fresh, checkout, broken, work, key, suite, results, report>>
  BY DEF Die, End, inputs
<1>2. TypeOK'
  BY <1>1 DEF TypeOK
<1>3. CheckoutInv' /\ Progress'
  BY <1>1, EndedCheckout, EndedProgress
<1>4. Judged' /\ Reported'
  BY <1>1, JudgedStays DEF Reported
<1> QED BY <1>2, <1>3, <1>4

LEMMA StutterInv == ASSUME ExternalInv, UNCHANGED vars PROVE ExternalInv'
<1> USE DEF ExternalInv
<1> USE DEF vars, inputs
<1>1. TypeOK' /\ CheckoutInv'
  BY DEF TypeOK, CheckoutInv, Fetched, Fetching, Past
<1>2. ExitCode' = ExitCode /\ Asked' = Asked /\ Selected' = Selected
  BY DEF ExitCode, Verdict, Compare, Asked, Selected
<1>3. Judged'
  BY <1>2 DEF Judged, Probed
<1>4. Progress'
  BY <1>2 DEF Progress, Over, Fetching, Past
<1>5. Reported'
  BY DEF Reported, Written
<1> QED BY <1>1, <1>3, <1>4, <1>5

LEMMA NextInv == ExternalInv /\ [Next]_vars => ExternalInv'
BY StartInv, ClearWorkInv, EnterKeyInv, ReuseInv, DiscardInv, RemoveInv, RemovedInv,
   CheckoutFileInv, CheckedOutInv, EnterSuiteInv, ClassifyFileInv, LeaveKeyInv,
   OpenReportInv, WriteReportInv, ExitInv, DieInv, StutterInv
   DEF Next

\* The inductive invariant of the external runner.
THEOREM ExternalInvariant == Spec => []ExternalInv
<1> QED BY InitInv, NextInv, PTL DEF Spec

-----------------------------------------------------------------------------
\* fetch_ref: outside an interrupted removal, what the suites are run over is the
\* pinned commit, through any history of pins, of requests and of sessions that
\* died, and it stays that while the other repositories are fetched.
THEOREM SuitesRunOverTheCommit == Spec => []CheckoutIsTheCommit
<1>1. ExternalInv => CheckoutIsTheCommit
  <2> SUFFICES ASSUME ExternalInv, pc # "idle", NEW k \in Fetched, ~broken[k]
               PROVE  checkout[k].files = Tree[pin[k]]
    BY DEF CheckoutIsTheCommit
  <2>1. k \in Keys /\ pin[k] \in Revisions
    BY Typing DEF ExternalInv, Fetched, Past
  <2>2. checkout[k].head = pin[k] /\ checkout[k].head # "none"
    BY <2>1, ExternalAssumption DEF ExternalInv, CheckoutInv
  <2> QED BY <2>1, <2>2 DEF ExternalInv, CheckoutInv
<1> QED BY <1>1, ExternalInvariant, PTL

\* The status of a file is what its own run deserves, but for the short probe.
LEMMA StatusIsDeserved ==
  ASSUME ExternalInv, UniqueStems, NEW f \in DOMAIN results
  PROVE  /\ results[f].run \in Runs
         /\ Deserved(results[f].run) \in ExternalStatuses
         /\ results[f].status \in ExternalStatuses
         /\ ~(baseline[f] = "TIMEOUT" /\ results[f].run.at = "late") =>
              results[f].status = Deserved(results[f].run)
         /\ baseline[f] = "TIMEOUT" /\ results[f].run.at = "late" =>
              results[f].status = "TIMEOUT"
<1>1. results[f].run \in Runs /\ results[f].status \in ExternalStatuses
  BY DEF ExternalInv, TypeOK
<1>2. results[f].status = Classify(results[f].run, Probed(f), results[f].run.left)
  BY DEF ExternalInv, Judged
<1>3. Deserved(results[f].run) \in ExternalStatuses
  BY <1>1, ClassifySound DEF Deserved
<1> QED BY <1>1, <1>2, <1>3 DEF Deserved, Classify, Probed

\* The policy of manifests/expectations/README.md: a green run hides neither a
\* regression nor a new crash.
THEOREM GreenRunsAreEarned == Spec => []GreenIsEarned
<1>1. ExternalInv => GreenIsEarned
  <2> SUFFICES ASSUME ExternalInv, exit = "green", UniqueStems, NEW f \in DOMAIN results
               PROVE  IF baseline[f] = "none" THEN Deserved(results[f].run) # "CRASH"
                      ELSE \/ Severity[Deserved(results[f].run)] <= Severity[baseline[f]]
                           \/ baseline[f] = "TIMEOUT" /\ results[f].run.at = "late"
    BY DEF GreenIsEarned
  <2>1. ~(Verdict(f) = "REGRESSION") /\ ~(Verdict(f) = "NEW" /\ results[f].status = "CRASH")
    BY DEF ExternalInv, Judged, ExitCode
  <2>2. f \in Files /\ baseline[f] \in ExternalStatuses \cup {"none"}
    BY ExternalAssumption DEF ExternalInv, TypeOK
  <2>3. CASE baseline[f] = "none"
    BY <2>1, <2>3, StatusIsDeserved DEF Verdict, Compare
  <2>4. CASE baseline[f] # "none" /\ ~(baseline[f] = "TIMEOUT" /\ results[f].run.at = "late")
    <3>1. results[f].status = Deserved(results[f].run) /\ results[f].status \in ExternalStatuses
      BY <2>4, StatusIsDeserved
    <3>2. results[f].status = baseline[f]
            \/ ~(Severity[results[f].status] > Severity[baseline[f]])
      BY <2>1, <2>4 DEF Verdict, Compare
    <3>3. \A s \in ExternalStatuses : Severity[s] \in Nat
      BY DEF Severity, ExternalStatuses, StatusCols, Failures
    <3> QED BY <2>2, <2>4, <3>1, <3>2, <3>3
  <2> QED BY <2>3, <2>4
<1> QED BY <1>1, ExternalInvariant, PTL

\* A red run has a file that deserves it: the short probe raises no false alarm.
THEOREM RedRunsAreReal == Spec => []RedIsReal
<1>1. ExternalInv => RedIsReal
  <2> SUFFICES ASSUME ExternalInv, exit = "red", UniqueStems
               PROVE  \E f \in DOMAIN results :
                        IF baseline[f] = "none" THEN Deserved(results[f].run) = "CRASH"
                        ELSE Severity[Deserved(results[f].run)] > Severity[baseline[f]]
    BY DEF RedIsReal
  <2>1. PICK f \in DOMAIN results :
          Verdict(f) = "REGRESSION" \/ (Verdict(f) = "NEW" /\ results[f].status = "CRASH")
    BY DEF ExternalInv, Judged, ExitCode
  <2>2. ~(baseline[f] = "TIMEOUT" /\ results[f].run.at = "late")
    BY <2>1, StatusIsDeserved DEF Verdict, Compare
  <2>3. results[f].status = Deserved(results[f].run)
    BY <2>2, StatusIsDeserved
  <2> QED BY <2>1, <2>3 DEF Verdict, Compare
<1> QED BY <1>1, ExternalInvariant, PTL

\* main() writes the report once every file asked for has been classified.
THEOREM ReportsAreComplete == Spec => ReportIsComplete
<1> DEFINE Complete ==
      /\ report'.pin = pin
      /\ \A f \in Files : LET k == KeyOf[SuiteOf[f]] IN
           ~broken[k] =>
             (f \in report'.of <=>
                /\ SuiteOf[f] \in Selected
                /\ f \in (Tree[pin[k]] \cap request.files) \ Excluded)
<1>1. ExternalInv /\ [Next]_vars =>
        [report' # report /\ report'.file = "whole" => Complete]_vars
  <2> SUFFICES ASSUME ExternalInv, Next, report' # report, report'.file = "whole"
               PROVE  Complete
    BY DEF vars
  <2> USE DEF ExternalInv
  <2>1. WriteReport
    <3>1. ~OpenReport
      BY DEF OpenReport, Torn
    <3> QED BY <3>1 DEF Next, Start, ClearWork, EnterKey, Reuse, Discard, Remove, Removed,
           CheckoutFile, CheckedOut, EnterSuite, ClassifyFile, LeaveKey, Exit, Die
  <2>2. /\ pc = "write" /\ \A k \in request.keys : k <= key
        /\ report'.pin = pin /\ report'.of = DOMAIN results
    BY <2>1 DEF WriteReport, Written, Progress
  <2>3. ASSUME NEW k \in request.keys
        PROVE  k \in Keys /\ k \in Fetched /\ (k < key \/ k = key)
    <3>1. k \in Keys /\ k \in Nat /\ key \in Nat /\ k <= key
      BY <2>2, Typing DEF TypeOK
    <3> QED BY <2>2, <3>1 DEF Fetched, Past
  <2>4. ASSUME NEW f \in Files, ~broken[KeyOf[SuiteOf[f]]]
        PROVE  f \in DOMAIN results <=>
                 /\ SuiteOf[f] \in Selected
                 /\ f \in (Tree[pin[KeyOf[SuiteOf[f]]]] \cap request.files) \ Excluded
    <3>1. f \in DOMAIN results => f \in Asked /\ SuiteOf[f] \in Selected
      BY <2>2 DEF Progress
    <3>2. CASE SuiteOf[f] \notin Selected
      BY <3>1, <3>2
    <3>3. CASE SuiteOf[f] \in Selected
      <4>1. KeyOf[SuiteOf[f]] \in request.keys
        BY <3>3, Typing
      <4>2. /\ KeyOf[SuiteOf[f]] \in Keys /\ KeyOf[SuiteOf[f]] \in Fetched
            /\ KeyOf[SuiteOf[f]] < key \/ KeyOf[SuiteOf[f]] = key
        BY <2>3, <4>1
      <4>3. pin[KeyOf[SuiteOf[f]]] \in Revisions
        BY <4>2, Typing
      <4>4. checkout[KeyOf[SuiteOf[f]]].files = Tree[pin[KeyOf[SuiteOf[f]]]]
        BY <2>2, <2>4, <4>2, <4>3, ExternalAssumption DEF CheckoutInv
      <4>5. Over(SuiteOf[f])
        BY <2>2, <3>3, <4>2 DEF Over, Past
      <4>6. f \in DOMAIN results <=> f \in Asked
        BY <2>2, <3>1, <4>5 DEF Progress
      <4> QED BY <3>3, <4>4, <4>6 DEF Asked
    <3> QED BY <3>2, <3>3
  <2> QED BY <2>2, <2>4
<1> QED BY <1>1, ExternalInvariant, PTL DEF Spec, ReportIsComplete

-----------------------------------------------------------------------------
(* A session that finds no report is NightlyJob's step External.             *)

\* What the results of a session are to the job.
LEMMA JobFilesAreRun ==
  ASSUME ExternalInv
  PROVE  /\ JobFiles \in UNION {
              [of -> [status : ExternalStatuses, expected : ExternalStatuses \cup {"none"}]] :
                of \in SUBSET Files}
         /\ Job!ExternalExit(JobFiles) = ExitCode
<1>1. DOMAIN results \in SUBSET Files
  BY DEF ExternalInv, TypeOK
<1>2. ASSUME NEW f \in DOMAIN results
      PROVE  /\ results[f].status \in ExternalStatuses
             /\ baseline[f] \in ExternalStatuses \cup {"none"}
  <2>1. results[f] \in [status : ExternalStatuses, run : Runs]
    BY DEF ExternalInv, TypeOK
  <2>2. baseline \in [Files -> ExternalStatuses \cup {"none"}]
    BY ExternalAssumption DEF ExternalInv, TypeOK
  <2> QED BY <1>1, <2>1, <2>2
<1>3. JobFiles \in
        [DOMAIN results -> [status : ExternalStatuses, expected : ExternalStatuses \cup {"none"}]]
  BY <1>2 DEF JobFiles
<1>4. /\ DOMAIN JobFiles = DOMAIN results
      /\ \A f \in DOMAIN results :
           JobFiles[f].status = results[f].status /\ JobFiles[f].expected = baseline[f]
  BY DEF JobFiles
<1>5. \A f \in DOMAIN results : Job!Compared(JobFiles, f) = Verdict(f)
  BY <1>4 DEF Job!Compared, Job!Compare, Job!Severity, Verdict, Compare, Severity
<1>6. Job!ExternalExit(JobFiles) = ExitCode
  BY <1>4, <1>5 DEF Job!ExternalExit, ExitCode
<1> QED BY <1>1, <1>3, <1>6

\* What a whole report is to the job, once the session is over.
LEMMA WrittenIsRun ==
  ASSUME ExternalInv, ~Ended, Ended', report' = Written,
         UNCHANGED <<results, baseline>>
  PROVE  /\ report'.file = "whole"
         /\ JobFiles' = JobFiles
         /\ Job!ExternalExit(JobFiles) = ExitCode
         /\ [file |-> "whole", of |-> JobFiles] \in Job!Whole(UNION {
              [of -> [status : ExternalStatuses, expected : ExternalStatuses \cup {"none"}]] :
                of \in SUBSET Files})
<1>1. report'.file = "whole" /\ JobFiles' = JobFiles
  BY DEF Written, JobFiles
<1> QED BY <1>1, JobFilesAreRun DEF Job!Whole

\* A session that is over without an exit status fails, whatever it had written.
LEMMA UnansweredFails ==
  ASSUME ExternalInv, ~Ended, Ended', exit' # "green", UNCHANGED <<results, baseline>>,
         report' \in {NoReport, Torn, Written}
  PROVE  Job!External
<1>1. CASE report' \in {NoReport, Torn}
  <2>1. report'.file \in {"none", "torn"}
    BY <1>1 DEF NoReport, Torn
  <2> QED BY <2>1
          DEF Job!External, Job!Fail, Job!Following, Job!Missing, Job!Torn, Job!File
<1>2. CASE report' = Written
  BY <1>2, WrittenIsRun DEF Job!External, Job!Fail, Job!Following
<1> QED BY <1>1, <1>2

LEMMA ExitIsExternal ==
  ASSUME ExternalInv, Exit
  PROVE  Job!External
<1>1. /\ ~Ended /\ Ended' /\ UNCHANGED <<results, baseline>>
      /\ exit' = IF ExitCode = 0 THEN "green" ELSE "red"
      /\ report' = Written
  BY DEF Exit, End, Ended, inputs, ExternalInv, Reported
<1>2. CASE ExitCode = 0
  BY <1>1, <1>2, WrittenIsRun DEF Job!External, Job!Succeed, Job!Following
<1>3. CASE ExitCode # 0
  BY <1>1, <1>3, UnansweredFails
<1> QED BY <1>2, <1>3

\* A session that finds no report is one step External of the nightly job, dying
\* anywhere: before its report, in it or after it.
THEOREM SessionsAreTheJobsStep == Spec => SessionIsTheJobsStep
<1>1. ASSUME ExternalInv, [Next]_vars, pc # "idle", fresh
      PROVE  Job!External \/ UNCHANGED Job!vars
  <2>1. ~Ended
    BY <1>1 DEF Ended
  <2>2. CASE ~Ended'
    BY <2>1, <2>2 DEF Job!vars
  <2>3. CASE Exit
    BY <1>1, <2>3, ExitIsExternal
  <2>4. CASE Ended' /\ ~Exit
    <3>1. EnterSuite \/ Die
      BY <1>1, <2>4 DEF Ended, Next, Start, ClearWork, EnterKey, Reuse, Discard, Remove,
           Removed, CheckoutFile, CheckedOut, ClassifyFile, LeaveKey, OpenReport,
           WriteReport, vars
    <3>2. exit' = "died" /\ report' = report /\ UNCHANGED <<results, baseline>>
      BY <1>1, <2>4, <3>1 DEF Ended, EnterSuite, Die, End, inputs
    <3>3. report \in {NoReport, Torn, Written}
      BY <1>1 DEF ExternalInv, Reported
    <3> QED BY <1>1, <2>1, <2>4, <3>2, <3>3, UnansweredFails
  <2> QED BY <2>2, <2>3, <2>4
<1>2. ExternalInv /\ [Next]_vars => [pc # "idle" /\ fresh => Job!External]_(Job!vars)
  BY <1>1
<1> QED BY <1>2, ExternalInvariant, PTL DEF Spec, SessionIsTheJobsStep

-----------------------------------------------------------------------------
(* The loops have a next element, and no step goes back.                     *)

LEMMA LeastNumber ==
  ASSUME NEW T \in SUBSET Nat, T # {}
  PROVE  \E x \in T : \A y \in T : x <= y
<1>1. PICK x \in T : \A y \in T : ~(<<y, x>> \in OpToRel(<, Nat))
  BY NatLessThanWellFounded, WFMin
<1>2. ASSUME NEW y \in T
      PROVE  x <= y
  <2>1. y \in Nat /\ x \in Nat
      BY <1>1, <1>2
  <2>2. y < x => <<y, x>> \in OpToRel(<, Nat)
      BY <2>1 DEF OpToRel
  <2>3. ~(y < x)
      BY <1>1, <1>2, <2>2
  <2> QED BY <2>1, <2>3
<1> QED BY <1>2

LEMMA NextKeyIs ==
  ASSUME ExternalInv, \E k \in request.keys : k > key
  PROVE  \E k \in Keys : NextKey(k) /\ \A l \in Keys : NextKey(l) => l = k
<1>1. request.keys \subseteq Keys /\ Keys \subseteq Nat /\ key \in Nat
  BY Typing DEF ExternalInv, TypeOK
<1>2. {k \in request.keys : k > key} \in SUBSET Nat /\ {k \in request.keys : k > key} # {}
  BY <1>1
<1>3. PICK k \in {l \in request.keys : l > key} :
        \A l \in {m \in request.keys : m > key} : k <= l
  BY <1>2, LeastNumber
<1>4. k \in Keys /\ NextKey(k)
  BY <1>1, <1>3 DEF NextKey
<1>5. ASSUME NEW l \in Keys, NextKey(l)
      PROVE  l = k
  <2>1. k <= l /\ l <= k
      BY <1>3, <1>4, <1>5 DEF NextKey
  <2> QED BY <1>1, <1>4, <2>1
<1> QED BY <1>4, <1>5

LEMMA NextFileIs ==
  ASSUME ExternalInv, ~(Listed \subseteq DOMAIN results)
  PROVE  \E f \in Files : Due(f) /\ \A g \in Files : Due(g) => g = f
<1>1. /\ Listed \subseteq Files /\ \A f \in Files : Rank[f] \in Nat
      /\ \A f, g \in Files : Rank[f] = Rank[g] => f = g
  BY Typing, ExternalAssumption DEF ExternalInv, Listed
<1> DEFINE T == {Rank[f] : f \in Listed \ DOMAIN results}
<1>2. T \in SUBSET Nat /\ T # {}
  BY <1>1
<1>3. PICK x \in T : \A y \in T : x <= y
  <2> HIDE DEF T
  <2> QED BY <1>2, LeastNumber
<1>4. PICK f \in Listed \ DOMAIN results : Rank[f] = x
  BY <1>3
<1>5. f \in Files /\ Due(f)
  BY <1>1, <1>3, <1>4 DEF Due
<1>6. ASSUME NEW g \in Files, Due(g)
      PROVE  g = f
  <2>1. Rank[f] <= Rank[g] /\ Rank[g] <= Rank[f]
      BY <1>5, <1>6 DEF Due
  <2>2. Rank[f] = Rank[g]
      BY <1>1, <1>5, <2>1
  <2> QED BY <1>1, <1>5, <2>2
<1> QED BY <1>5, <1>6

LEMMA NextSuiteIs ==
  ASSUME ExternalInv, LaterSuites # {}
  PROVE  \E s \in LaterSuites : \A t \in LaterSuites : s <= t
<1>1. LaterSuites \in SUBSET Nat
  BY Typing DEF ExternalInv, LaterSuites
<1> QED BY <1>1, LeastNumber

\* No loop steps over what was asked for, or stops before its end.
THEOREM SessionsAreNeverStuck == Spec => []NeverStuck
<1>1. ExternalInv => NeverStuck
  BY NextKeyIs, NextFileIs, NextSuiteIs DEF NeverStuck
<1> QED BY <1>1, ExternalInvariant, PTL

LEMMA StepsForward ==
  ASSUME ExternalInv, Next, pc # "idle", pc' # "idle"
  PROVE  Forward
<1>1. /\ checkout \in [Keys -> [head : Revisions \cup {"none"}, files : SUBSET Files]]
      /\ pc \in {"fetch", "remove", "checkout", "suites"} => key \in Keys
  BY Typing DEF ExternalInv, TypeOK, CheckoutInv, Fetching
<1>2. CASE ClearWork
  BY <1>2 DEF ClearWork, Forward, Stage
<1>3. CASE EnterKey
  BY <1>3 DEF EnterKey, NextKey, Forward
<1>4. CASE Reuse
  BY <1>4 DEF Reuse, Forward, Stage
<1>5. CASE Discard
  BY <1>5 DEF Discard, inputs, Forward, Stage
<1>6. CASE Remove
  <2>1. inputs' = inputs /\ results' = results /\ key' = key /\ pc' = pc /\ pc = "remove"
      BY <1>6 DEF Remove
  <2>2. CASE \E f \in checkout[key].files :
               checkout' = [checkout EXCEPT ![key].files = @ \ {f}]
    <3>1. PICK f \in checkout[key].files :
            checkout'[key].files = checkout[key].files \ {f}
        BY <1>1, <2>1, <2>2
    <3> QED BY <2>1, <3>1 DEF Forward, MoreDone
  <2>3. CASE /\ checkout[key].head # "none"
             /\ checkout' = [checkout EXCEPT ![key].head = "none"]
    <3>1. checkout'[key].files = checkout[key].files /\ checkout'[key].head = "none"
        BY <1>1, <2>1, <2>3
    <3> QED BY <2>1, <2>3, <3>1 DEF Forward, MoreDone
  <2> QED BY <1>6, <2>2, <2>3 DEF Remove
<1>7. CASE Removed
  BY <1>7 DEF Removed, Forward, Stage
<1>8. CASE CheckoutFile
  <2>1. /\ inputs' = inputs /\ results' = results /\ key' = key /\ pc' = pc
        /\ pc = "checkout"
      BY <1>8 DEF CheckoutFile
  <2>2. PICK f \in Tree[pin[key]] \ checkout[key].files :
          checkout' = [checkout EXCEPT ![key].files = @ \cup {f}]
      BY <1>8 DEF CheckoutFile
  <2>3. checkout'[key].files = checkout[key].files \cup {f}
      BY <1>1, <2>1, <2>2
  <2> QED BY <2>1, <2>2, <2>3 DEF Forward, MoreDone
<1>9. CASE CheckedOut
  BY <1>9 DEF CheckedOut, Forward, Stage
<1>10. CASE EnterSuite
  <2>1. suite' > suite
      BY <1>10 DEF EnterSuite, LaterSuites
  <2>2. pc' = pc /\ pc = "suites" /\ key' = key /\ inputs' = inputs /\ results' = results
      BY <1>10 DEF EnterSuite, End
  <2> QED BY <2>1, <2>2 DEF Forward, MoreDone
<1>11. CASE ClassifyFile
  <2>1. pc' = pc /\ pc = "suites" /\ key' = key /\ inputs' = inputs
      BY <1>11 DEF ClassifyFile
  <2>2. PICK f \in Files : Due(f) /\ DOMAIN results' = DOMAIN results \cup {f}
      BY <1>11 DEF ClassifyFile
  <2>3. f \notin DOMAIN results
      BY <2>2 DEF Due
  <2> QED BY <2>1, <2>2, <2>3 DEF Forward, MoreDone
<1>12. CASE LeaveKey
  BY <1>12 DEF LeaveKey, Forward, Stage
<1>13. CASE OpenReport \/ WriteReport
  BY <1>13 DEF OpenReport, WriteReport, Forward, Stage
<1>14. ~Start /\ ~Exit /\ ~Die
  BY DEF Start, Exit, Die, End
<1> QED BY <1>2, <1>3, <1>4, <1>5, <1>6, <1>7, <1>8, <1>9, <1>10, <1>11, <1>12, <1>13, <1>14
        DEF Next

\* A session never fetches a key twice, goes back to a suite or loses a result.
THEOREM SessionsNeverGoBack == Spec => NeverBack
<1>1. ExternalInv /\ [Next]_vars => [pc # "idle" /\ pc' # "idle" => Forward]_vars
  BY StepsForward
<1> QED BY <1>1, ExternalInvariant, PTL DEF Spec, NeverBack

=============================================================================
