------------------------ MODULE BuildToolchain_proofs ------------------------
(***************************************************************************)
(* Proofs about BuildToolchain, for every set of repositories and every    *)
(* depends_on: the inductive invariant ToolchainInv, and what follows.     *)
(***************************************************************************)
EXTENDS BuildToolchain, FiniteSetTheorems, WellFoundedInduction, TLAPS

\* The depends_on and the pending occurrences are numbers.
LEMMA Typing ==
  ASSUME TypeOK
  PROVE  /\ \A n \in Names, d \in Names \cup Foreign : depends[n][d] \in Nat
         /\ \A n, d \in Names : pending[n][d] \in Nat
         /\ \A n \in Names : batch[n] \in Nat
         /\ round \in Nat
<1>1. depends \in [Names -> [Names \cup Foreign -> Nat]]
  BY BuildAssumption DEF TypeOK
<1> QED BY <1>1 DEF TypeOK

LEMMA InitInv == Init => ToolchainInv
<1> SUFFICES ASSUME Init PROVE ToolchainInv
  OBVIOUS
<1>1. depends \in [Names -> [Names \cup Foreign -> Nat]]
  BY BuildAssumption DEF Init
<1>2. TypeOK
  BY <1>1 DEF Init, TypeOK
<1>3. OrderInv
  BY <1>1, <1>2, Typing DEF Init, OrderInv, Later
<1>4. BuildInv
  BY DEF Init, BuildInv
<1> QED BY <1>2, <1>3, <1>4 DEF ToolchainInv

\* The steps that leave the ordering alone need only keep what OrderInv says of
\* the control state.
LEMMA OrderUnchanged ==
  ASSUME OrderInv, UNCHANGED ordering,
         pc' \in Later => remaining = {},
         pc' \in {"order"} \cup Later => \A n \in Names : Deps(n) \subseteq Names,
         outcome' = "cycle" => pc' = "idle" /\ remaining # {} /\ Ready = {}
  PROVE  OrderInv'
BY DEF OrderInv, ordering, Ready, Deps, Later

\* Start forgets the last order.
LEMMA StartInv ==
  ASSUME ToolchainInv, Start
  PROVE  ToolchainInv'
<1>1. depends \in [Names -> [Names \cup Foreign -> Nat]] /\ depends' = depends
  BY BuildAssumption DEF ToolchainInv, TypeOK, Start
<1>2. TypeOK'
  BY <1>1 DEF ToolchainInv, TypeOK, Start, workspace
<1>3. /\ \A n, d \in Names : pending'[n][d] = depends[n][d] /\ depends[n][d] \in Nat
      /\ \A n \in Names : batch'[n] = 0
      /\ round' = 0 /\ remaining' = Names /\ pc' = "check" /\ outcome' = "running"
  BY <1>1 DEF Start
<1>4. OrderInv'
  BY <1>1, <1>3 DEF OrderInv, Later
<1>5. BuildInv'
  BY DEF ToolchainInv, BuildInv, Start, workspace
<1> QED BY <1>2, <1>4, <1>5 DEF ToolchainInv

\* A batch orders names whose dependencies have all been ordered before.
LEMMA BatchInv ==
  ASSUME ToolchainInv, Batch
  PROVE  ToolchainInv'
<1> USE DEF ToolchainInv
<1>1. /\ Ready \subseteq remaining /\ Ready \subseteq Names
      /\ \A n \in Ready, d \in Names : pending[n][d] = 0
  BY DEF TypeOK, Ready
<1>2. /\ \A n, d \in Names : depends[n][d] \in Nat /\ pending[n][d] \in Nat
      /\ \A n \in Names : batch[n] \in Nat
      /\ round \in Nat
  BY Typing
<1>3. TypeOK'
  <2>1. \A n, d \in Names :
          (IF n \notin Ready /\ d \in Ready /\ pending[n][d] > 0
           THEN pending[n][d] - 1 ELSE pending[n][d]) \in Nat
    BY <1>2
  <2>2. pending' \in [Names -> [Names -> Nat]]
    BY <2>1 DEF Batch
  <2>3. batch' \in [Names -> Nat] /\ round' \in Nat
    BY <1>2 DEF Batch
  <2> QED BY <2>2, <2>3 DEF TypeOK, Batch, workspace
<1>4. /\ \A n \in Names : batch'[n] = IF n \in Ready THEN round + 1 ELSE batch[n]
      /\ \A n, d \in Names : pending'[n][d] =
           IF n \notin Ready /\ d \in Ready /\ pending[n][d] > 0
           THEN pending[n][d] - 1 ELSE pending[n][d]
      /\ remaining' = remaining \ Ready /\ round' = round + 1
      /\ depends' = depends /\ pc' = "order" /\ outcome' = outcome /\ pc = "order"
  BY DEF Batch
<1>5. \A n \in Names : batch'[n] <= round' /\ (batch'[n] = 0 <=> n \in remaining')
  BY <1>1, <1>2, <1>4 DEF OrderInv
<1>6. ASSUME NEW n \in Names, NEW d \in Names
      PROVE  /\ pending'[n][d] <= depends[n][d]
             /\ n \in remaining' /\ depends[n][d] > 0 /\ pending'[n][d] = 0
                  => d \notin remaining'
             /\ n \notin remaining' /\ depends[n][d] > 0
                  => batch'[d] > 0 /\ batch'[d] < batch'[n]
             /\ depends[n][d] <= 1 /\ pending'[n][d] > 0 => d \in remaining'
  <2>1. /\ pending[n][d] <= depends[n][d]
        /\ n \in remaining /\ depends[n][d] > 0 /\ pending[n][d] = 0 => d \notin remaining
        /\ n \notin remaining /\ depends[n][d] > 0 => batch[d] > 0 /\ batch[d] < batch[n]
        /\ depends[n][d] <= 1 /\ pending[n][d] > 0 => d \in remaining
        /\ batch[d] <= round /\ (batch[d] = 0 <=> d \in remaining)
    BY DEF OrderInv
  <2>2. CASE n \in Ready
    <3>1. pending[n][d] = 0 /\ pending'[n][d] = 0 /\ n \in remaining /\ batch'[n] = round + 1
      BY <1>1, <1>4, <2>2
    <3>2. depends[n][d] > 0 => d \notin remaining /\ d \notin Ready
      BY <2>1, <3>1, <1>1
    <3>3. depends[n][d] > 0 => batch'[d] = batch[d] /\ batch[d] # 0
      BY <3>2, <2>1, <1>4
    <3> QED BY <1>2, <1>4, <2>1, <2>2, <3>1, <3>3
  <2>3. CASE n \notin Ready
    <3>1. batch'[n] = batch[n] /\ (n \in remaining' <=> n \in remaining)
      BY <1>4, <2>3
    <3>2. CASE d \in Ready
      <4>1. d \in remaining /\ d \notin remaining' /\ batch[d] = 0
        BY <3>2, <1>1, <1>4, <2>1
      <4>2. pending'[n][d] <= pending[n][d] /\ (pending[n][d] <= 1 => pending'[n][d] = 0)
        BY <1>2, <1>4, <2>3, <3>2
      <4>3. pending'[n][d] \in Nat
        BY <1>3 DEF TypeOK
      <4> QED BY <1>2, <2>1, <3>1, <4>1, <4>2, <4>3
    <3>3. CASE d \notin Ready
      <4>1. batch'[d] = batch[d] /\ pending'[n][d] = pending[n][d]
            /\ (d \in remaining' <=> d \in remaining)
        BY <1>4, <3>3
      <4> QED BY <2>1, <3>1, <4>1
    <3> QED BY <3>2, <3>3
  <2> QED BY <2>2, <2>3
<1>7. OrderInv'
  <2>1. \A n \in Names : Deps(n)' \subseteq Names
    BY <1>4 DEF OrderInv, Deps
  <2>2. outcome' # "cycle" /\ pc' \notin Later
    BY <1>4 DEF OrderInv, Later
  <2> QED BY <1>4, <1>5, <1>6, <2>1, <2>2 DEF OrderInv
<1>8. BuildInv'
  BY <1>4 DEF Batch, workspace, BuildInv
<1> QED BY <1>3, <1>7, <1>8

\* A build adds the next repository of the order.
LEMMA BuildOneInv ==
  ASSUME ToolchainInv, BuildOne
  PROVE  ToolchainInv'
<1> USE DEF ToolchainInv
<1>1. PICK n \in Names : Turn(n, installed) /\ installed' = installed \cup {n}
  BY DEF BuildOne
<1>2. TypeOK'
  BY <1>1 DEF TypeOK, BuildOne, ordering
<1>3. OrderInv'
  BY OrderUnchanged DEF BuildOne, OrderInv, Later
<1>4. \A k \in installed', m \in Names : Precedes(m, k) => m \in installed'
  BY <1>1 DEF Turn, BuildInv, BuildOne
<1>5. BuildInv'
  BY <1>1, <1>4 DEF BuildInv, BuildOne, ordering, Precedes
<1> QED BY <1>2, <1>3, <1>5

LEMMA NextInv == ToolchainInv /\ [Next]_vars => ToolchainInv'
<1> SUFFICES ASSUME ToolchainInv, [Next]_vars PROVE ToolchainInv'
  OBVIOUS
<1> USE DEF ToolchainInv
<1>1. CASE Start
  BY <1>1, StartInv
<1>2. CASE CheckUnknown
  <2>1. TypeOK' /\ BuildInv'
    BY <1>2 DEF CheckUnknown, End, TypeOK, BuildInv, ordering, workspace
  <2>2. OrderInv'
    BY <1>2, OrderUnchanged DEF CheckUnknown, End, OrderInv, Later
  <2> QED BY <2>1, <2>2
<1>3. CASE Batch
  BY <1>3, BatchInv
<1>4. CASE Cycle
  <2>1. TypeOK' /\ BuildInv'
    BY <1>4 DEF Cycle, End, TypeOK, BuildInv, ordering, workspace
  <2>2. OrderInv'
    BY <1>4, OrderUnchanged DEF Cycle, End, OrderInv, Later
  <2> QED BY <2>1, <2>2
<1>5. CASE Ordered
  <2>1. TypeOK' /\ BuildInv'
    BY <1>5 DEF Ordered, TypeOK, BuildInv, ordering
  <2>2. OrderInv'
    BY <1>5, OrderUnchanged DEF Ordered, OrderInv, Later
  <2> QED BY <2>1, <2>2
<1>6. CASE Remove
  <2>1. TypeOK'
    BY <1>6 DEF Remove, TypeOK, ordering
  <2>2. BuildInv'
    BY <1>6 DEF Remove, BuildInv
  <2>3. OrderInv'
    BY <1>6, OrderUnchanged DEF Remove, OrderInv, Later
  <2> QED BY <2>1, <2>2, <2>3
<1>7. CASE Removed
  <2>1. TypeOK' /\ BuildInv'
    BY <1>7 DEF Removed, TypeOK, BuildInv, ordering
  <2>2. OrderInv'
    BY <1>7, OrderUnchanged DEF Removed, OrderInv, Later
  <2> QED BY <2>1, <2>2
<1>8. CASE Clone
  <2>1. TypeOK'
    BY <1>8 DEF Clone, TypeOK, ordering
  <2>2. BuildInv'
    BY <1>8 DEF Clone, BuildInv, ordering
  <2>3. OrderInv'
    BY <1>8, OrderUnchanged DEF Clone, OrderInv, Later
  <2> QED BY <2>1, <2>2, <2>3
<1>9. CASE BuildOne
  BY <1>9, BuildOneInv
<1>10. CASE OpenEnv
  <2>1. TypeOK' /\ BuildInv'
    BY <1>10 DEF OpenEnv, TypeOK, BuildInv, ordering
  <2>2. OrderInv'
    BY <1>10, OrderUnchanged DEF OpenEnv, OrderInv, Later
  <2> QED BY <2>1, <2>2
<1>11. CASE WriteEnv
  <2>1. TypeOK' /\ BuildInv'
    BY <1>11 DEF WriteEnv, End, TypeOK, BuildInv, ordering
  <2>2. OrderInv'
    BY <1>11, OrderUnchanged DEF WriteEnv, End, OrderInv, Later
  <2> QED BY <2>1, <2>2
<1>12. CASE Die
  <2>1. TypeOK' /\ BuildInv'
    BY <1>12 DEF Die, End, TypeOK, BuildInv, ordering, workspace
  <2>2. OrderInv'
    BY <1>12, OrderUnchanged DEF Die, End, OrderInv, Later
  <2> QED BY <2>1, <2>2
<1>13. CASE UNCHANGED vars
  <2>1. TypeOK' /\ BuildInv'
    BY <1>13 DEF vars, TypeOK, BuildInv, Precedes
  <2>2. OrderInv'
    BY <1>13, OrderUnchanged DEF vars, ordering, OrderInv, Later
  <2> QED BY <2>1, <2>2
<1> QED
  BY <1>1, <1>2, <1>3, <1>4, <1>5, <1>6, <1>7, <1>8, <1>9, <1>10, <1>11, <1>12, <1>13
     DEF Next, Step

\* The inductive invariant of topological_order and of the build's phases.
THEOREM ToolchainInvariant == Spec => []ToolchainInv
<1> QED BY InitInv, NextInv, PTL DEF Spec

-----------------------------------------------------------------------------
\* main()'s second loop: a repository is built when everything it depends on
\* has been installed by this build.
THEOREM DependenciesAreBuiltFirst == Spec => []DependenciesFirst
<1>1. ToolchainInv => DependenciesFirst
  <2> SUFFICES ASSUME ToolchainInv, pc = "build",
                      NEW n \in installed, NEW d \in Deps(n)
               PROVE  d \in installed
    BY DEF DependenciesFirst
  <2>1. n \in Names /\ d \in Names /\ depends[n][d] > 0 /\ remaining = {}
    BY DEF ToolchainInv, TypeOK, OrderInv, Later, Deps
  <2>2. batch[d] < batch[n]
    BY <2>1 DEF ToolchainInv, OrderInv
  <2> QED BY <2>1, <2>2 DEF ToolchainInv, BuildInv, Precedes
<1> QED BY <1>1, ToolchainInvariant, PTL

\* toolchain.env is written last: whoever reads it finds every repository
\* installed, however many builds died before.
THEOREM EnvIsWrittenLast == Spec => []EnvMeansWhole
<1>1. ToolchainInv => EnvMeansWhole
  BY DEF ToolchainInv, BuildInv, EnvMeansWhole
<1> QED BY <1>1, ToolchainInvariant, PTL

\* What has all been ordered, batch after batch, has no cycle: one of its names
\* was ordered no later than the others, and its dependencies were before it.
LEMMA OrderedIsAcyclic ==
  ASSUME ToolchainInv, remaining = {}
  PROVE  ~Cyclic
<1> SUFFICES ASSUME NEW S \in SUBSET Names, S # {},
                    \A n \in S : \E d \in S : depends[n][d] > 0
             PROVE  FALSE
  BY DEF Cyclic
<1> DEFINE T == {batch[n] : n \in S}
<1>1. T \subseteq Nat /\ T # {}
  BY Typing DEF ToolchainInv
<1>2. PICK x \in T : \A y \in T : ~(<<y, x>> \in OpToRel(<, Nat))
  <2> HIDE DEF T
  <2> QED BY <1>1, NatLessThanWellFounded, WFMin
<1>3. PICK n \in S : x = batch[n]
  OBVIOUS
<1>4. PICK d \in S : depends[n][d] > 0
  OBVIOUS
<1>5. batch[d] < batch[n] /\ batch[d] \in Nat /\ batch[n] \in Nat
  BY <1>4, Typing DEF ToolchainInv, OrderInv
<1>6. <<batch[d], x>> \in OpToRel(<, Nat)
  BY <1>3, <1>5 DEF OpToRel
<1> QED BY <1>2, <1>6

\* topological_order: a graph with a cycle is never built, and a graph whose
\* lists are free of duplicates is refused only for a cycle it has.
THEOREM VerdictsAreRight == Spec => []CycleVerdict
<1>1. ToolchainInv => CycleVerdict
  <2> SUFFICES ASSUME ToolchainInv PROVE CycleVerdict
    OBVIOUS
  <2>1. pc \in Later => ~Cyclic
    BY OrderedIsAcyclic DEF ToolchainInv, OrderInv
  <2>2. ASSUME outcome = "cycle", NoDuplicates PROVE Cyclic
    <3>1. remaining \in SUBSET Names /\ remaining # {} /\ Ready = {}
      BY <2>2 DEF ToolchainInv, TypeOK, OrderInv
    <3>2. ASSUME NEW n \in remaining
          PROVE  \E d \in remaining : depends[n][d] > 0
      <4>1. PICK d \in Names : pending[n][d] # 0
        BY <3>1 DEF Ready
      <4>2. /\ pending[n][d] \in Nat /\ pending[n][d] > 0
            /\ depends[n][d] \in Nat /\ depends[n][d] <= 1
        BY <2>2, <3>1, <4>1, Typing DEF NoDuplicates, ToolchainInv
      <4>3. depends[n][d] > 0 /\ d \in remaining
        BY <3>1, <4>2 DEF ToolchainInv, OrderInv
      <4> QED BY <4>3
    <3> QED BY <3>1, <3>2 DEF Cyclic
  <2> QED BY <2>1, <2>2 DEF CycleVerdict
<1> QED BY <1>1, ToolchainInvariant, PTL

-----------------------------------------------------------------------------
(* The part of BuildEnds that needs no fairness: a build runs out of steps,  *)
(* and until then its loops have a next repository.                          *)

LEMMA LeastNumber ==
  ASSUME NEW T \in SUBSET Nat, T # {}
  PROVE  \E x \in T : \A y \in T : x <= y
<1>1. PICK x \in T : \A y \in T : ~(<<y, x>> \in OpToRel(<, Nat))
  BY NatLessThanWellFounded, WFMin
<1>2. ASSUME NEW y \in T
      PROVE  x <= y
  <2>1. y \in Nat /\ x \in Nat
      BY <1>1, <1>2
  <2>2. y < x => <<y, x>> \in OpToRel(<, Nat)
      BY <2>1 DEF OpToRel
  <2>3. ~(y < x)
      BY <1>1, <1>2, <2>2
  <2> QED BY <2>1, <2>3
<1> QED BY <1>2

\* build_order is a total order, so it has a first repository that is not done.
LEMMA TurnComes ==
  ASSUME ToolchainInv, NEW done \in SUBSET Names, done # Names
  PROVE  \E n \in Names : Turn(n, done) /\ \A m \in Names : Turn(m, done) => m = n
<1>1. /\ \A n \in Names : batch[n] \in Nat /\ Index[n] \in Nat
      /\ \A m, n \in Names : Index[m] = Index[n] => m = n
  BY Typing, BuildAssumption DEF ToolchainInv
<1>2. PICK b \in Nat : /\ \E n \in Names \ done : batch[n] = b
                       /\ \A m \in Names \ done : b <= batch[m]
  <2> DEFINE T == {batch[n] : n \in Names \ done}
  <2>1. T \in SUBSET Nat /\ T # {}
      BY <1>1
  <2>2. PICK x \in T : \A y \in T : x <= y
    <3> HIDE DEF T
    <3> QED BY <2>1, LeastNumber
  <2> QED BY <2>1, <2>2
<1>3. PICK n \in Names \ done :
        /\ batch[n] = b
        /\ \A m \in Names \ done : batch[m] = b => Index[n] <= Index[m]
  <2> DEFINE T == {Index[m] : m \in {k \in Names \ done : batch[k] = b}}
  <2>1. T \in SUBSET Nat /\ T # {}
      BY <1>1, <1>2
  <2>2. PICK x \in T : \A y \in T : x <= y
    <3> HIDE DEF T
    <3> QED BY <2>1, LeastNumber
  <2> QED BY <2>2
<1>4. Turn(n, done)
  <2>1. ASSUME NEW m \in Names \ done, Precedes(m, n)
        PROVE  FALSE
      BY <1>1, <1>2, <1>3, <2>1 DEF Precedes
  <2> QED BY <2>1 DEF Turn
<1>5. ASSUME NEW m \in Names, Turn(m, done), m # n
      PROVE  FALSE
  <2>1. ~Precedes(n, m) /\ ~Precedes(m, n)
      BY <1>4, <1>5 DEF Turn
  <2> QED BY <1>1, <1>5, <2>1 DEF Precedes
<1> QED BY <1>4, <1>5

\* The loops that clone and build come to every repository, in build_order.
THEOREM BuildsAreNeverStuck == Spec => []NeverStuck
<1>1. ToolchainInv => NeverStuck
  BY TurnComes DEF ToolchainInv, TypeOK, NeverStuck
<1> QED BY <1>1, ToolchainInvariant, PTL

\* Sets of repositories, and what taking some out does to their number.
LEMMA Sizes ==
  ASSUME NEW S \in SUBSET Names
  PROVE  /\ Cardinality(S) \in Nat /\ Cardinality(S) <= Cardinality(Names)
         /\ Cardinality(Names) \in Nat
         /\ \A T \in SUBSET S : T # S => Cardinality(T) \in Nat /\ Cardinality(T) < Cardinality(S)
<1>1. IsFiniteSet(Names) /\ IsFiniteSet(S)
  BY BuildAssumption, FS_Subset
<1>2. ASSUME NEW T \in SUBSET S, T # S
      PROVE  Cardinality(T) \in Nat /\ Cardinality(T) < Cardinality(S)
  <2>1. Cardinality(T) <= Cardinality(S) /\ Cardinality(T) # Cardinality(S) /\ IsFiniteSet(T)
      BY <1>1, <1>2, FS_Subset
  <2> QED BY <1>1, <2>1, FS_CardinalityType
<1> QED BY <1>1, <1>2, FS_Subset, FS_CardinalityType

LEMMA LeftIsBounded ==
  ASSUME ToolchainInv
  PROVE  Left \in 0..(7 + 5 * Cardinality(Names))
<1>1. /\ remaining \in SUBSET Names /\ cloned \in SUBSET Names /\ installed \in SUBSET Names
      /\ Names \ cloned \in SUBSET Names /\ Names \ installed \in SUBSET Names
      /\ pc \in {"idle", "check", "order", "remove", "clone", "build", "env"}
  BY DEF ToolchainInv, TypeOK
<1>2. PICK n \in Nat : n = Cardinality(Names)
  BY Sizes
<1>3. \A S \in SUBSET Names : Cardinality(S) \in 0..n
  BY <1>2, Sizes
<1> QED BY <1>1, <1>2, <1>3 DEF Left

LEMMA StepsCount ==
  ASSUME ToolchainInv, Step
  PROVE  Left' < Left
<1>1. /\ remaining \in SUBSET Names /\ cloned \in SUBSET Names /\ installed \in SUBSET Names
      /\ Names \ cloned \in SUBSET Names /\ Names \ installed \in SUBSET Names
      /\ env \in {"none", "torn", "whole"}
  BY DEF ToolchainInv, TypeOK
<1>2. PICK n \in Nat : n = Cardinality(Names)
  BY Sizes
<1>3. /\ \A S \in SUBSET Names : Cardinality(S) \in 0..n
      /\ \A S \in SUBSET Names : \A T \in SUBSET S : T # S => Cardinality(T) < Cardinality(S)
      /\ Cardinality({}) = 0
  BY <1>2, Sizes, FS_EmptySet
<1>4. CASE CheckUnknown
  BY <1>1, <1>2, <1>3, <1>4 DEF CheckUnknown, End, ordering, workspace, Left
<1>5. CASE Batch
  <2>1. remaining' \in SUBSET remaining /\ remaining' # remaining
      BY <1>5 DEF Batch, Ready
  <2>2. Cardinality(remaining') < Cardinality(remaining) /\ Cardinality(remaining') \in 0..n
      BY <1>1, <1>3, <2>1
  <2>3. /\ Left = 6 + 4 * n + Cardinality(remaining)
        /\ Left' = 6 + 4 * n + Cardinality(remaining')
      BY <1>2, <1>5 DEF Batch, Left
  <2> QED BY <1>1, <1>3, <2>2, <2>3
<1>6. CASE Cycle
  BY <1>1, <1>2, <1>3, <1>6 DEF Cycle, End, ordering, workspace, Left
<1>7. CASE Ordered
  BY <1>1, <1>2, <1>3, <1>7 DEF Ordered, ordering, Left
<1>8. CASE Remove
  <2>1. /\ Left = 4 + 2 * n + Cardinality(cloned) + Cardinality(installed)
                    + (IF env = "none" THEN 0 ELSE 1)
        /\ Left' = 4 + 2 * n + Cardinality(cloned') + Cardinality(installed')
                    + (IF env' = "none" THEN 0 ELSE 1)
      BY <1>2, <1>8 DEF Remove, Left
  <2>2. CASE \E r \in cloned : cloned' = cloned \ {r} /\ UNCHANGED <<installed, env>>
    <3>1. cloned' \in SUBSET cloned /\ cloned' # cloned
        BY <2>2
    <3>2. Cardinality(cloned') < Cardinality(cloned) /\ Cardinality(cloned') \in 0..n
        BY <1>1, <1>3, <3>1
    <3> QED BY <1>1, <1>3, <2>1, <2>2, <3>2
  <2>3. CASE \E r \in installed : installed' = installed \ {r} /\ UNCHANGED <<cloned, env>>
    <3>1. installed' \in SUBSET installed /\ installed' # installed
        BY <2>3
    <3>2. /\ Cardinality(installed') < Cardinality(installed)
          /\ Cardinality(installed') \in 0..n
        BY <1>1, <1>3, <3>1
    <3> QED BY <1>1, <1>3, <2>1, <2>3, <3>2
  <2>4. CASE env # "none" /\ env' = "none" /\ UNCHANGED <<cloned, installed>>
      BY <1>1, <1>3, <2>1, <2>4
  <2> QED BY <1>8, <2>2, <2>3, <2>4 DEF Remove
<1>9. CASE Removed
  <2>1. Names \ {} = Names
      OBVIOUS
  <2> QED BY <1>2, <1>3, <1>9, <2>1 DEF Removed, ordering, Left
<1>10. CASE Clone
  <2>1. CASE cloned = Names /\ pc' = "build" /\ UNCHANGED cloned
    <3>1. Names \ cloned = {}
        BY <2>1
    <3> QED BY <1>1, <1>2, <1>3, <1>10, <2>1, <3>1 DEF Clone, Left
  <2>2. CASE /\ \E r \in Names : Turn(r, cloned) /\ cloned' = cloned \cup {r}
             /\ UNCHANGED pc
    <3>1. Names \ cloned' \in SUBSET (Names \ cloned) /\ Names \ cloned' # Names \ cloned
        BY <2>2 DEF Turn
    <3>2. /\ Cardinality(Names \ cloned') < Cardinality(Names \ cloned)
          /\ Cardinality(Names \ cloned') \in 0..n /\ Cardinality(Names \ cloned) \in 0..n
        BY <1>1, <1>3, <3>1
    <3>3. /\ Left = 3 + n + Cardinality(Names \ cloned)
          /\ Left' = 3 + n + Cardinality(Names \ cloned')
        BY <1>2, <1>10, <2>2 DEF Clone, Left
    <3> QED BY <3>2, <3>3
  <2> QED BY <1>10, <2>1, <2>2 DEF Clone
<1>11. CASE BuildOne
  <2>1. /\ Names \ installed' \in SUBSET (Names \ installed)
        /\ Names \ installed' # Names \ installed
      BY <1>11 DEF BuildOne, Turn
  <2>2. /\ Cardinality(Names \ installed') < Cardinality(Names \ installed)
        /\ Cardinality(Names \ installed') \in 0..n /\ Cardinality(Names \ installed) \in 0..n
      BY <1>1, <1>3, <2>1
  <2>3. /\ Left = 2 + Cardinality(Names \ installed)
        /\ Left' = 2 + Cardinality(Names \ installed')
      BY <1>11 DEF BuildOne, Left
  <2> QED BY <2>2, <2>3
<1>12. CASE OpenEnv
  BY <1>1, <1>3, <1>12 DEF OpenEnv, Left
<1>13. CASE WriteEnv
  BY <1>13 DEF WriteEnv, End, Left
<1> QED BY <1>4, <1>5, <1>6, <1>7, <1>8, <1>9, <1>10, <1>11, <1>12, <1>13 DEF Step

\* No build goes on for ever: it takes at most 7 + 5n steps for n repositories.
THEOREM BuildsRunOut == Spec => StepsRunOut
<1>1. ToolchainInv => Left \in 0..(7 + 5 * Cardinality(Names))
  BY LeftIsBounded
<1>2. ToolchainInv /\ [Next]_vars => [Step => Left' < Left]_vars
  BY StepsCount
<1> QED BY <1>1, <1>2, ToolchainInvariant, PTL DEF Spec, StepsRunOut

=============================================================================
