------------------------- MODULE NightlyGate_proofs -------------------------
(***************************************************************************)
(* Proofs about NightlyGate, for any repositories, runs and commits: a     *)
(* night is skipped safely, as long as no branch has been rewound.         *)
(***************************************************************************)
EXTENDS NightlyGate, TLAPS

LEMMA UnreadIsNoCommit ==
  /\ Commits \subseteq Nat /\ Unread \in Nat /\ Unread \notin Commits
  /\ Commits \cup {Unread} \subseteq Nat
  /\ Nothing \in Partial /\ \A p \in Repos : Nothing[p] = Unread
  /\ \A v \in Partial : Complete(v) => v \in Vectors
  /\ \A v \in Vectors : v \in Partial /\ Complete(v)
<1>1. /\ Commits \subseteq Nat /\ Unread \in Nat /\ Unread \notin Commits
      /\ Commits \cup {Unread} \subseteq Nat
  BY GateAssumption DEF Commits, Unread
<1>2. Nothing \in Partial /\ \A p \in Repos : Nothing[p] = Unread
  BY DEF Nothing, Partial
<1>3. ASSUME NEW v \in Partial, Complete(v)
      PROVE  v \in Vectors
  BY <1>3 DEF Partial, Complete, Vectors
<1>4. ASSUME NEW v \in Vectors
      PROVE  v \in Partial /\ Complete(v)
  BY <1>1, <1>4 DEF Partial, Complete, Vectors
<1> QED BY <1>1, <1>2, <1>3, <1>4

\* A push never moves a branch back.
LEMMA HeadsGrow ==
  ASSUME TypeOK, \E p \in Repos : Push(p)
  PROVE  heads' \in Vectors /\ \A p \in Repos : heads[p] <= heads'[p]
<1>1. PICK q \in Repos : heads[q] < MaxCommits /\ heads' = [heads EXCEPT ![q] = @ + 1]
  BY DEF Push
<1>2. heads \in [Repos -> 0..MaxCommits]
  BY DEF TypeOK, Vectors, Commits
<1>3. heads' \in [Repos -> 0..MaxCommits]
  BY <1>1, <1>2, GateAssumption
<1> QED BY <1>1, <1>2, <1>3, GateAssumption DEF Vectors, Commits

LEMMA InitInv == Init => GateInv
<1> SUFFICES ASSUME Init PROVE GateInv
  OBVIOUS
<1>1. TypeOK
  <2>1. rewound \in BOOLEAN
      BY Zenon DEF Init
  <2>2. heads \in Vectors /\ faults \in 0..MaxFaults
      BY GateAssumption DEF Init, Vectors, Commits
  <2> QED BY <2>1, <2>2, UnreadIsNoCommit DEF Init, TypeOK, Running
<1>2. ReadsInOrder
  BY UnreadIsNoCommit DEF Init, ReadsInOrder
<1>3. TestsWhatItBuilt /\ RememberedIsGreen /\ SkippedIsRemembered
  BY DEF Init, TestsWhatItBuilt, RememberedIsGreen, SkippedIsRemembered
<1> QED BY <1>1, <1>2, <1>3 DEF GateInv

LEMMA PushStep ==
  ASSUME GateInv, \E p \in Repos : Push(p)
  PROVE  GateInv'
<1>1. /\ heads' \in Vectors
      /\ \A p \in Repos : heads[p] \in Nat /\ heads'[p] \in Nat /\ heads[p] <= heads'[p]
  BY HeadsGrow, UnreadIsNoCommit DEF GateInv, TypeOK, Vectors
<1>2. UNCHANGED <<cache, phase, seen, built, last, faults, rewound, green, attempted>>
  BY DEF Push
<1>3. TypeOK'
  BY <1>1, <1>2 DEF GateInv, TypeOK
<1>4. ReadsInOrder'
  <2> SUFFICES ASSUME NEW s \in Slots, NEW p \in Repos, ~rewound
               PROVE  /\ seen[s][p] # Unread => seen[s][p] <= heads'[p]
                      /\ built[s][p] # Unread => built[s][p] <= heads'[p]
      BY <1>2 DEF GateInv, ReadsInOrder, Complete
  <2>1. seen[s][p] \in Nat /\ built[s][p] \in Nat
      BY UnreadIsNoCommit DEF GateInv, TypeOK, Partial
  <2> QED BY <2>1, <1>1 DEF GateInv, ReadsInOrder
<1>5. TestsWhatItBuilt' /\ SkippedIsRemembered'
  BY <1>2 DEF GateInv, TestsWhatItBuilt, SkippedIsRemembered, Complete
<1>6. RememberedIsGreen'
  <2>1. ASSUME NEW g \in green, ~rewound
        PROVE  NoOlder(g.built, heads')
    <3>1. g.built \in Vectors /\ NoOlder(g.built, heads)
        BY <2>1 DEF GateInv, RememberedIsGreen, TypeOK
    <3>2. \A p \in Repos : g.built[p] \in Nat
        BY <3>1, UnreadIsNoCommit DEF Vectors
    <3> QED BY <3>1, <3>2, <1>1 DEF NoOlder
  <2> QED BY <2>1, <1>2 DEF GateInv, RememberedIsGreen, Complete
<1> QED BY <1>3, <1>4, <1>5, <1>6 DEF GateInv

\* What has been rewound is promised nothing about what it had read or cloned.
LEMMA RewindStep ==
  ASSUME GateInv, \E p \in Repos : Rewind(p)
  PROVE  GateInv'
<1> USE DEF GateInv
<1>1. PICK q \in Repos : Rewind(q)
  OBVIOUS
<1>2. heads' \in Vectors
  <2>1. heads \in [Repos -> 0..MaxCommits] /\ heads[q] > 0
      BY <1>1 DEF Rewind, TypeOK, Vectors, Commits
  <2>2. heads[q] - 1 \in 0..MaxCommits
      BY <2>1, GateAssumption
  <2> QED BY <1>1, <2>1, <2>2 DEF Rewind, Vectors, Commits
<1>3. TypeOK'
  BY <1>1, <1>2, GateAssumption DEF Rewind, TypeOK
<1>4. ReadsInOrder' /\ TestsWhatItBuilt'
  BY <1>1 DEF Rewind, ReadsInOrder, TestsWhatItBuilt
<1>5. RememberedIsGreen' /\ SkippedIsRemembered'
  BY <1>1 DEF Rewind, RememberedIsGreen, SkippedIsRemembered, Complete
<1> QED BY <1>3, <1>4, <1>5

\* Steps that move a run on and leave what it read and cloned alone.
LEMMA PhaseStep ==
  ASSUME GateInv, NEW s \in Slots, NEW next \in Running \cup {"skipped", "done"},
         phase' = [phase EXCEPT ![s] = next],
         phase[s] \in {"fingerprint", "decide"},
         next \in {"decide", "build", "skipped"},
         next = "skipped" => Complete(seen[s]) /\ Key(s) \in cache,
         faults' \in 0..MaxFaults,
         UNCHANGED <<heads, cache, seen, built, last, rewound, green, attempted>>
  PROVE  GateInv'
<1> USE DEF GateInv
<1>1. TypeOK'
  BY DEF TypeOK
<1>2. ReadsInOrder'
  BY DEF ReadsInOrder, TypeOK
<1>3. TestsWhatItBuilt' /\ RememberedIsGreen'
  BY DEF TestsWhatItBuilt, RememberedIsGreen, TypeOK, Complete
<1>4. SkippedIsRemembered'
  BY DEF SkippedIsRemembered, RememberedIsGreen, TypeOK, Complete, Key
<1> QED BY <1>1, <1>2, <1>3, <1>4

\* A run that ends, however it does, leaves its slot empty.
LEMMA ForgetStep ==
  ASSUME GateInv, NEW s \in Slots, Forget(s),
         last' \in {"none", "green", "red"}, faults' \in 0..MaxFaults,
         cache' \subseteq cache \cup {k \in Vectors : \E g \in green : g.key = k},
         UNCHANGED <<heads, rewound, green, attempted>>
  PROVE  GateInv'
<1> USE DEF GateInv, Forget
<1>1. TypeOK'
  BY UnreadIsNoCommit DEF TypeOK
<1>2. ReadsInOrder'
  BY UnreadIsNoCommit DEF ReadsInOrder, TypeOK
<1>3. TestsWhatItBuilt'
  BY DEF TestsWhatItBuilt, TypeOK
<1>4. RememberedIsGreen'
  BY DEF RememberedIsGreen, TypeOK, Complete
<1>5. SkippedIsRemembered'
  BY DEF SkippedIsRemembered, TypeOK, Complete
<1> QED BY <1>1, <1>2, <1>3, <1>4, <1>5

LEMMA TriggerStep ==
  ASSUME GateInv, NEW s \in Slots, Trigger(s)
  PROVE  GateInv'
<1> USE DEF GateInv, Trigger
<1>1. /\ OnlySelf \in Partial /\ OnlySelf[Self] = heads[Self]
      /\ \A p \in Repos : p # Self => OnlySelf[p] = Unread
  BY UnreadIsNoCommit, GateAssumption DEF OnlySelf, Partial, TypeOK, Vectors
<1>2. heads[Self] \in Nat /\ heads[Self] # Unread /\ Self \in Repos
  BY UnreadIsNoCommit, GateAssumption DEF TypeOK, Vectors
<1>3. TypeOK'
  BY <1>1 DEF TypeOK, Running
<1>4. ReadsInOrder'
  BY <1>1, <1>2 DEF ReadsInOrder, TypeOK
<1>5. TestsWhatItBuilt'
  BY DEF TestsWhatItBuilt, TypeOK
<1>6. RememberedIsGreen'
  BY DEF RememberedIsGreen, TypeOK, Complete
<1>7. SkippedIsRemembered'
  BY DEF SkippedIsRemembered, TypeOK, Complete
<1> QED BY <1>3, <1>4, <1>5, <1>6, <1>7

LEMMA ReadHeadStep ==
  ASSUME GateInv, NEW s \in Slots, NEW p \in Repos, ReadHead(s, p)
  PROVE  GateInv'
<1> USE DEF GateInv, ReadHead
<1>1. p # Self /\ built[s][p] = Unread
  BY DEF ReadsInOrder
<1>2. /\ heads[p] \in Commits /\ heads[p] \in Nat /\ heads[p] # Unread
      /\ seen[s] \in Partial
  BY UnreadIsNoCommit DEF TypeOK, Vectors
<1>3. TypeOK'
  BY <1>2 DEF TypeOK, Partial
<1>4. /\ seen' \in [Slots -> Partial] /\ seen'[s][p] = heads[p]
      /\ \A t \in Slots, q \in Repos : t # s \/ q # p => seen'[t][q] = seen[t][q]
      /\ \A t \in Slots : t # s => seen'[t] = seen[t]
  BY <1>2 DEF TypeOK, Partial
<1>5. ReadsInOrder'
  BY <1>1, <1>2, <1>4 DEF ReadsInOrder
<1>6. TestsWhatItBuilt' /\ RememberedIsGreen' /\ SkippedIsRemembered'
  BY <1>4 DEF TestsWhatItBuilt, RememberedIsGreen, SkippedIsRemembered, Complete
<1> QED BY <1>3, <1>5, <1>6

LEMMA FingerprintFailsStep ==
  ASSUME GateInv, NEW s \in Slots, FingerprintFails(s)
  PROVE  GateInv'
<1> USE DEF GateInv, FingerprintFails
<1>1. TypeOK'
  BY UnreadIsNoCommit, GateAssumption DEF TypeOK, Running
<1>2. ReadsInOrder'
  BY UnreadIsNoCommit DEF ReadsInOrder, TypeOK
<1>3. TestsWhatItBuilt' /\ RememberedIsGreen' /\ SkippedIsRemembered'
  BY DEF TestsWhatItBuilt, RememberedIsGreen, SkippedIsRemembered, TypeOK, Complete
<1> QED BY <1>1, <1>2, <1>3

LEMMA CloneStep ==
  ASSUME GateInv, NEW s \in Slots, NEW p \in Repos, Clone(s, p)
  PROVE  GateInv'
<1> USE DEF GateInv, Clone
<1>1. /\ heads[p] \in Commits /\ heads[p] \in Nat /\ heads[p] # Unread
      /\ built[s] \in Partial
  BY UnreadIsNoCommit DEF TypeOK, Vectors
<1>2. TypeOK'
  BY <1>1 DEF TypeOK, Partial
<1>3. /\ built' \in [Slots -> Partial] /\ built'[s][p] = heads[p]
      /\ \A t \in Slots, q \in Repos : t # s \/ q # p => built'[t][q] = built[t][q]
      /\ \A t \in Slots : t # s => built'[t] = built[t]
  BY <1>1 DEF TypeOK, Partial
<1>4. ReadsInOrder'
  BY <1>1, <1>3 DEF ReadsInOrder
<1>5. TestsWhatItBuilt' /\ RememberedIsGreen' /\ SkippedIsRemembered'
  BY <1>3 DEF TestsWhatItBuilt, RememberedIsGreen, SkippedIsRemembered, Complete
<1> QED BY <1>2, <1>4, <1>5

LEMMA BuiltStep ==
  ASSUME GateInv, NEW s \in Slots, Built(s)
  PROVE  GateInv'
<1> USE DEF GateInv, Built
<1>1. built[s] \in Vectors
  BY UnreadIsNoCommit DEF TypeOK
<1>2. TypeOK'
  BY <1>1 DEF TypeOK, Running
<1>3. ReadsInOrder'
  BY DEF ReadsInOrder, TypeOK
<1>4. TestsWhatItBuilt'
  BY DEF TestsWhatItBuilt, TypeOK
<1>5. RememberedIsGreen' /\ SkippedIsRemembered'
  BY DEF RememberedIsGreen, SkippedIsRemembered, TypeOK, Complete
<1> QED BY <1>2, <1>3, <1>4, <1>5

LEMMA TestStep ==
  ASSUME GateInv, NEW s \in Slots, Test(s)
  PROVE  GateInv'
<1> DEFINE run == [key |-> seen[s], built |-> built[s]]
<1>1. CASE last' = "red"
  BY <1>1, ForgetStep DEF Test, GateInv, TypeOK
<1>2. CASE last' = "green"
  <2> USE DEF GateInv
  <2>1. /\ phase[s] = "test" /\ phase' = [phase EXCEPT ![s] = "save"]
        /\ green' = green \cup {run}
        /\ UNCHANGED <<heads, cache, seen, built, faults, rewound, attempted>>
      BY <1>2 DEF Test
  <2>2. /\ run.key = seen[s] /\ run.built = built[s]
        /\ run \in [key : Partial, built : Partial]
      BY DEF TypeOK
  <2>3. run.built \in attempted /\ run.built \in Vectors /\ Complete(run.built)
      BY <2>1, <2>2, UnreadIsNoCommit DEF TestsWhatItBuilt, TypeOK
  <2>4. ~rewound => NoOlder(run.built, heads)
      BY <2>2, <2>3 DEF NoOlder, Complete, ReadsInOrder
  <2>5. ~rewound /\ Complete(run.key) => NoOlder(run.key, run.built)
      BY <2>2, <2>3 DEF NoOlder, Complete, ReadsInOrder
  <2> HIDE DEF run
  <2>6. TypeOK'
      BY <1>2, <2>1, <2>2 DEF TypeOK, Running
  <2>7. ReadsInOrder'
      BY <2>1 DEF ReadsInOrder, TypeOK
  <2>8. TestsWhatItBuilt'
      BY <2>1 DEF TestsWhatItBuilt, TypeOK
  <2>9. RememberedIsGreen'
    <3>1. \A t \in Slots : phase'[t] = "save" =>
            [key |-> seen[t], built |-> built[t]] \in green'
        BY <2>1 DEF RememberedIsGreen, TypeOK, run
    <3>2. \A g \in green' :
            /\ g.built \in attempted
            /\ ~rewound => /\ NoOlder(g.built, heads)
                           /\ Complete(g.key) => NoOlder(g.key, g.built)
        BY <2>1, <2>3, <2>4, <2>5 DEF RememberedIsGreen
    <3> QED BY <2>1, <3>1, <3>2 DEF RememberedIsGreen, Complete, NoOlder
  <2>10. SkippedIsRemembered'
      BY <2>1 DEF SkippedIsRemembered, TypeOK, Complete
  <2> QED BY <2>6, <2>7, <2>8, <2>9, <2>10
<1> QED BY <1>1, <1>2 DEF Test

LEMMA SaveStep ==
  ASSUME GateInv, NEW s \in Slots, Save(s)
  PROVE  GateInv'
<1>1. [key |-> seen[s], built |-> built[s]] \in green
  BY DEF GateInv, RememberedIsGreen, Save
<1>2. \E g \in green : g.key = seen[s]
  BY <1>1
<1>3. Complete(seen[s]) => seen[s] \in Vectors
  BY UnreadIsNoCommit DEF GateInv, TypeOK
<1>4. cache' \subseteq cache \cup {k \in Vectors : \E g \in green : g.key = k}
  BY <1>2, <1>3 DEF Save, Key
<1> QED BY <1>4, ForgetStep DEF Save, GateInv, TypeOK

LEMMA LostStep ==
  ASSUME GateInv, NEW s \in Slots, Lost(s)
  PROVE  GateInv'
<1>1. faults' \in 0..MaxFaults /\ last' \in {"none", "green", "red"}
  BY GateAssumption DEF Lost, GateInv, TypeOK
<1> QED BY <1>1, ForgetStep DEF Lost

LEMMA DecideStep ==
  ASSUME GateInv, NEW s \in Slots,
         Fingerprinted(s) \/ Decide(s) \/ LookupFails(s)
  PROVE  GateInv'
<1>1. faults' \in 0..MaxFaults
  BY GateAssumption DEF Fingerprinted, Decide, LookupFails, GateInv, TypeOK
<1>2. CASE Fingerprinted(s)
  BY <1>1, <1>2, PhaseStep DEF Fingerprinted, Running
<1>3. CASE LookupFails(s)
  BY <1>1, <1>3, PhaseStep DEF LookupFails, Running
<1>4. CASE Decide(s)
  <2>1. PICK started \in Events :
          phase' = [phase EXCEPT ![s] = IF Skips(s, started) THEN "skipped" ELSE "build"]
      BY <1>4 DEF Decide
  <2>2. CASE Skips(s, started)
      BY <1>1, <1>4, <2>1, <2>2, PhaseStep DEF Decide, Skips, Running
  <2>3. CASE ~Skips(s, started)
      BY <1>1, <1>4, <2>1, <2>3, PhaseStep DEF Decide, Running
  <2> QED BY <2>2, <2>3
<1> QED BY <1>2, <1>3, <1>4

LEMMA EvictStep ==
  ASSUME GateInv, Evict
  PROVE  GateInv'
<1> USE DEF GateInv, Evict
<1>1. TypeOK'
  BY DEF TypeOK
<1>2. ReadsInOrder' /\ TestsWhatItBuilt'
  BY DEF ReadsInOrder, TestsWhatItBuilt
<1>3. RememberedIsGreen' /\ SkippedIsRemembered'
  BY DEF RememberedIsGreen, SkippedIsRemembered, Complete
<1> QED BY <1>1, <1>2, <1>3

LEMMA StutterStep ==
  ASSUME GateInv, UNCHANGED vars
  PROVE  GateInv'
<1> USE DEF GateInv, vars
<1>1. TypeOK'
  BY DEF TypeOK
<1>2. ReadsInOrder' /\ TestsWhatItBuilt'
  BY DEF ReadsInOrder, TestsWhatItBuilt
<1>3. RememberedIsGreen' /\ SkippedIsRemembered'
  BY DEF RememberedIsGreen, SkippedIsRemembered, Complete
<1> QED BY <1>1, <1>2, <1>3

\* The inductive invariant of the gate; while branches only grow, what was read
\* is no newer than what was cloned, which is no newer than the branch, so a
\* fingerprint that is remembered is no newer than what its green run tested.
THEOREM GateInvariant == Spec => []GateInv
<1>1. Init => GateInv
  BY InitInv
<1>2. GateInv /\ [Next]_vars => GateInv'
  BY PushStep, RewindStep, TriggerStep, ReadHeadStep, FingerprintFailsStep, DecideStep, CloneStep,
     BuiltStep, TestStep, SaveStep, LostStep, EvictStep, StutterStep DEF Next, Advance
<1> QED BY <1>1, <1>2, PTL DEF Spec

\* A skipped night has nothing new to test.
THEOREM SkippingIsSafe == Spec => []SkipIsSafe
<1>1. GateInv => SkipIsSafe
  BY DEF GateInv, SkippedIsRemembered, RememberedIsGreen, SkipIsSafe
<1> QED BY <1>1, GateInvariant, PTL

\* When nothing moved, what is skipped is what a green run has tested.
THEOREM NothingIsLeftUntested == Spec => []NothingUntested
<1>1. GateInv => NothingUntested
  <2> SUFFICES ASSUME GateInv, NEW s \in Slots, ~rewound, phase[s] = "skipped", seen[s] = heads
               PROVE  \E g \in green : g.built = heads
      BY DEF NothingUntested
  <2>1. PICK g \in green : /\ NoOlder(heads, g.built) /\ NoOlder(g.built, heads)
                           /\ g.built \in Vectors
      BY DEF GateInv, SkippedIsRemembered, RememberedIsGreen, TypeOK
  <2>2. heads \in [Repos -> Nat] /\ g.built \in [Repos -> Nat]
      BY <2>1, UnreadIsNoCommit DEF GateInv, TypeOK, Vectors
  <2>3. \A p \in Repos : g.built[p] = heads[p]
      BY <2>1, <2>2 DEF NoOlder
  <2> QED BY <2>2, <2>3
<1> QED BY <1>1, GateInvariant, PTL

=============================================================================
