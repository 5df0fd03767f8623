---------------------------- MODULE BuildToolchain ----------------------------
(***************************************************************************)
(* scripts/build_toolchain.py: order the repositories by their depends_on, *)
(* empty the workspace, clone, build and install each, and write           *)
(* toolchain.env last.  A build may die anywhere and be started again over *)
(* what it has left; the regression runners read the workspace meanwhile.  *)
(*                                                                         *)
(* A depends_on list is how often it names each dependency: the algorithm  *)
(* removes one occurrence at a time.                                       *)
(***************************************************************************)
EXTENDS Naturals, FiniteSets

CONSTANTS
  Names,    \* the repositories of repositories.yaml
  Foreign,  \* names a depends_on may hold that are no repository
  Index,    \* repository -> its place in the file
  Graphs    \* the depends_on of the manifests: name -> dependency -> occurrences

ASSUME BuildAssumption ==
  /\ IsFiniteSet(Names) /\ Names \cap Foreign = {}
  /\ Graphs \subseteq [Names -> [Names \cup Foreign -> Nat]]
  /\ Index \in [Names -> Nat]
  /\ \A m, n \in Names : Index[m] = Index[n] => m = n

VARIABLES
  depends,    \* the manifest's depends_on
  pc,         \* where main() is
  outcome,    \* how the last build ended
  remaining,  \* topological_order's `remaining`, its keys ...
  pending,    \* ... and their dependencies not removed yet
  round,      \* batches ordered so far
  batch,      \* repository -> the batch that ordered it, 0 for none
  cloned,     \* repositories cloned into the workspace
  installed,  \* repositories installed under the prefix
  env,        \* the file toolchain.env
  removing    \* history: an rm -rf of the workspace has begun and not ended

vars == <<depends, pc, outcome, remaining, pending, round, batch, cloned, installed,
          env, removing>>

ordering == <<depends, remaining, pending, round, batch>>
workspace == <<cloned, installed, env, removing>>

-----------------------------------------------------------------------------
Deps(n) == {d \in Names \cup Foreign : depends[n][d] > 0}

\* `build_order`: by batch, and in a batch by the order of the file.
Precedes(m, n) == batch[m] < batch[n] \/ (batch[m] = batch[n] /\ Index[m] < Index[n])

\* The next repository of the order, when those in `done` have had their turn.
Turn(n, done) == n \notin done /\ \A m \in Names : Precedes(m, n) => m \in done

Ready == {n \in remaining : \A d \in Names : pending[n][d] = 0}

Init ==
  /\ depends \in Graphs
  /\ pc = "idle"
  /\ outcome = "none"
  /\ remaining = Names
  /\ pending = [n \in Names |-> [d \in Names |-> depends[n][d]]]
  /\ round = 0
  /\ batch = [n \in Names |-> 0]
  /\ cloned = {} /\ installed = {} /\ env = "none" /\ removing = FALSE

Start ==
  /\ pc = "idle"
  /\ pc' = "check"
  /\ outcome' = "running"
  /\ remaining' = Names
  /\ pending' = [n \in Names |-> [d \in Names |-> depends[n][d]]]
  /\ round' = 0
  /\ batch' = [n \in Names |-> 0]
  /\ UNCHANGED <<depends, workspace>>

End(how) == pc' = "idle" /\ outcome' = how

CheckUnknown ==
  /\ pc = "check"
  /\ IF \A n \in Names : Deps(n) \subseteq Names
     THEN pc' = "order" /\ UNCHANGED outcome
     ELSE End("unknown")
  /\ UNCHANGED <<ordering, workspace>>

\* MUTANT: every name left is ordered, its dependencies ordered or not.
Batch_NotReady ==
  /\ pc = "order" /\ remaining # {}
  /\ round' = round + 1 /\ remaining' = {}
  /\ batch' = [n \in Names |-> IF n \in remaining THEN round + 1 ELSE batch[n]]
  /\ UNCHANGED <<depends, pending, pc, outcome, workspace>>

\* MUTANT: an ordered name stays in `remaining`.
Batch_Again ==
  /\ pc = "order" /\ remaining # {} /\ Ready # {}
  /\ round' = 1
  /\ batch' = [n \in Names |-> IF n \in Ready THEN 1 ELSE batch[n]]
  /\ UNCHANGED <<depends, remaining, pending, pc, outcome, workspace>>

\* One turn of `while remaining`: every name without dependencies is ordered, and
\* one occurrence of it leaves each list that names it.
Batch ==
  /\ pc = "order"
  /\ remaining # {}
  /\ Ready # {}
  /\ round' = round + 1
  /\ batch' = [n \in Names |-> IF n \in Ready THEN round + 1 ELSE batch[n]]
  /\ remaining' = remaining \ Ready
  /\ pending' = [n \in Names |-> [d \in Names |->
       IF n \notin Ready /\ d \in Ready /\ pending[n][d] > 0
       THEN pending[n][d] - 1 ELSE pending[n][d]]]
  /\ UNCHANGED <<depends, pc, outcome, workspace>>

Cycle ==
  /\ pc = "order"
  /\ remaining # {}
  /\ Ready = {}
  /\ End("cycle")
  /\ UNCHANGED <<ordering, workspace>>

Ordered ==
  /\ pc = "order"
  /\ remaining = {}
  /\ pc' = "remove"
  /\ removing' = TRUE
  /\ UNCHANGED <<ordering, outcome, cloned, installed, env>>

\* rm -rf removes one thing after another, in an order of its own, ...
Remove ==
  /\ pc = "remove"
  /\ \/ \E n \in cloned : cloned' = cloned \ {n} /\ UNCHANGED <<installed, env>>
     \/ \E n \in installed : installed' = installed \ {n} /\ UNCHANGED <<cloned, env>>
     \/ env # "none" /\ env' = "none" /\ UNCHANGED <<cloned, installed>>
  /\ UNCHANGED <<ordering, pc, outcome, removing>>

\* MUTANT: the workspace is not removed, only created when it is missing.
Removed_Reuse ==
  /\ pc = "remove"
  /\ pc' = "clone" /\ removing' = FALSE
  /\ UNCHANGED <<ordering, outcome, cloned, installed, env>>

\* ... and ends with nothing left.
Removed ==
  /\ pc = "remove"
  /\ cloned = {} /\ installed = {} /\ env = "none"
  /\ pc' = "clone"
  /\ removing' = FALSE
  /\ UNCHANGED <<ordering, outcome, cloned, installed, env>>

Clone ==
  /\ pc = "clone"
  /\ \/ /\ cloned = Names
        /\ pc' = "build"
        /\ UNCHANGED cloned
     \/ /\ \E n \in Names : Turn(n, cloned) /\ cloned' = cloned \cup {n}
        /\ UNCHANGED pc
  /\ UNCHANGED <<ordering, outcome, installed, env, removing>>

\* MUTANT: the repositories are built in the order of the file.
BuildOne_FileOrder ==
  /\ pc = "build"
  /\ \E n \in Names \ installed :
       /\ \A m \in Names \ installed : Index[n] <= Index[m]
       /\ installed' = installed \cup {n}
  /\ UNCHANGED <<ordering, pc, outcome, cloned, env, removing>>

\* build_one: configure, build, install.
BuildOne ==
  /\ pc = "build"
  /\ \E n \in Names : Turn(n, installed) /\ installed' = installed \cup {n}
  /\ UNCHANGED <<ordering, pc, outcome, cloned, env, removing>>

\* MUTANT: toolchain.env is opened before the repositories are built.
OpenEnv_Early ==
  /\ pc \in {"clone", "build"}
  /\ env' = "torn" /\ pc' = "env"
  /\ UNCHANGED <<ordering, outcome, cloned, installed, removing>>

OpenEnv ==
  /\ pc = "build"
  /\ installed = Names
  /\ env' = "torn"
  /\ pc' = "env"
  /\ UNCHANGED <<ordering, outcome, cloned, installed, removing>>

WriteEnv ==
  /\ pc = "env"
  /\ env' = "whole"
  /\ End("built")
  /\ UNCHANGED <<ordering, cloned, installed, removing>>

\* A command that fails, a missing tool or ref, or a kill, anywhere.
Die ==
  /\ pc # "idle"
  /\ End("died")
  /\ UNCHANGED <<ordering, workspace>>

Step ==
  \/ CheckUnknown \/ Batch \/ Cycle \/ Ordered
  \/ Remove \/ Removed \/ Clone \/ BuildOne \/ OpenEnv \/ WriteEnv

Next == Start \/ Step \/ Die

Spec == Init /\ [][Next]_vars

\* A build goes on until it ends: its loops are over finite sets.
FairSpec == Spec /\ WF_vars(Step)

-----------------------------------------------------------------------------
(* Properties. *)

TypeOK ==
  /\ depends \in Graphs
  /\ pc \in {"idle", "check", "order", "remove", "clone", "build", "env"}
  /\ outcome \in {"none", "running", "unknown", "cycle", "built", "died"}
  /\ remaining \subseteq Names
  /\ pending \in [Names -> [Names -> Nat]]
  /\ round \in Nat
  /\ batch \in [Names -> Nat]
  /\ cloned \subseteq Names /\ installed \subseteq Names
  /\ env \in {"none", "torn", "whole"}
  /\ removing \in BOOLEAN

Later == {"remove", "clone", "build", "env"}

\* A name leaves `remaining` in a batch after those of all its dependencies, and
\* an occurrence leaves a list only once its repository has been ordered.
OrderInv ==
  /\ \A n \in Names : batch[n] <= round /\ (batch[n] = 0 <=> n \in remaining)
  /\ pc \in Later => remaining = {}
  /\ pc \in {"order"} \cup Later => \A n \in Names : Deps(n) \subseteq Names
  /\ \A n, d \in Names :
       /\ pending[n][d] <= depends[n][d]
       /\ n \in remaining /\ depends[n][d] > 0 /\ pending[n][d] = 0 => d \notin remaining
       /\ n \notin remaining /\ depends[n][d] > 0 => batch[d] > 0 /\ batch[d] < batch[n]
       /\ depends[n][d] <= 1 /\ pending[n][d] > 0 => d \in remaining
  /\ outcome = "cycle" => pc = "idle" /\ remaining # {} /\ Ready = {}

\* What is installed while building was built in the order, in this workspace.
BuildInv ==
  /\ pc = "remove" => removing
  /\ pc \in {"clone", "build", "env"} => ~removing
  /\ pc = "clone" => installed = {}
  /\ pc \in {"clone", "build"} => env = "none"
  /\ pc = "env" => installed = Names
  /\ pc = "build" =>
       \A n \in installed, m \in Names : Precedes(m, n) => m \in installed
  /\ env # "none" /\ ~removing => installed = Names

ToolchainInv == TypeOK /\ OrderInv /\ BuildInv

\* When a repository has been built, everything it depends on is installed under
\* the prefix, by this build: nothing of an earlier one is picked up, whatever
\* the order of the file.
DependenciesFirst ==
  pc = "build" => \A n \in installed : Deps(n) \subseteq installed

\* A toolchain.env that can be read names a prefix in which every repository is
\* installed, after any sequence of builds that died; the one exception is an
\* interrupted rm -rf that has not reached the file yet.
EnvMeansWhole == env = "whole" /\ ~removing => installed = Names

\* Some repositories depend on one another, round a cycle.
Cyclic ==
  \E S \in SUBSET Names :
    S # {} /\ \A n \in S : \E d \in S : depends[n][d] > 0

NoDuplicates == \A n, d \in Names : depends[n][d] <= 1

\* With lists free of duplicates the verdict is right: a cycle is reported only
\* if there is one, and none is ever built.
CycleVerdict ==
  /\ outcome = "cycle" /\ NoDuplicates => Cyclic
  /\ pc \in Later => ~Cyclic

\* A build comes to an end.
BuildEnds == (pc # "idle") ~> (pc = "idle")

\* A bound on the steps a build has left: one per check, batch, thing to remove,
\* clone and build, and one between each loop and the next.
Left ==
  LET n == Cardinality(Names) IN
  CASE pc = "idle"   -> 0
    [] pc = "check"  -> 7 + 5 * n
    [] pc = "order"  -> 6 + 4 * n + Cardinality(remaining)
    [] pc = "remove" -> 4 + 2 * n + Cardinality(cloned) + Cardinality(installed)
                          + (IF env = "none" THEN 0 ELSE 1)
    [] pc = "clone"  -> 3 + n + Cardinality(Names \ cloned)
    [] pc = "build"  -> 2 + Cardinality(Names \ installed)
    [] pc = "env"    -> 1

\* Each step of a build brings it nearer its end, whatever the depends_on say and
\* whatever the last build has left: `while remaining` takes a name out at each turn.
StepsRunOut ==
  /\ [](Left \in 0..(7 + 5 * Cardinality(Names)))
  /\ [][Step => Left' < Left]_vars

\* The loops over build_order go through it without a gap: until all are done some
\* repository has its turn, and only one.
NeverStuck ==
  /\ pc = "clone" /\ cloned # Names =>
       \E n \in Names : Turn(n, cloned) /\ \A m \in Names : Turn(m, cloned) => m = n
  /\ pc = "build" /\ installed # Names =>
       \E n \in Names : Turn(n, installed) /\ \A m \in Names : Turn(m, installed) => m = n

=============================================================================
