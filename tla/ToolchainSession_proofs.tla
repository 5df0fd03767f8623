----------------------- MODULE ToolchainSession_proofs -----------------------
(***************************************************************************)
(* Proofs about ToolchainSession, for every toolchain, every set of tools  *)
(* and every call of the runner, beside builds that die anywhere.          *)
(***************************************************************************)
EXTENDS ToolchainSession, BuildToolchain_proofs

\* The sources a lookup can give, and when it gives them.
LEMMA FindSound ==
  ASSUME SessionTypeOK, NEW t \in Tools
  PROVE  /\ Look \in {"none", "prefix"}
         /\ cached # "unread" => Look = cached
         /\ Find(t) \in Found \cup {"missing"}
         /\ Find(t) # "missing" => Find(t) = Settled(t)
         /\ Find(t) = "workspace" <=>
              t \notin Own /\ Look = "prefix" /\ Provider[t] \in installed
         /\ Find(t) = "missing" <=>
              t \notin Own /\ ~(Look = "prefix" /\ Provider[t] \in installed)
<1>1. /\ Look \in {"none", "prefix"}
      /\ cached # "unread" => Look = cached
  BY DEF Look, SessionTypeOK
<1>2. CASE t \in options.binDir
  BY <1>1, <1>2 DEF Find, Found, Settled, Own
<1>3. CASE t \in options.path \ options.binDir
  BY <1>1, <1>3 DEF Find, Found, Settled, Own
<1>4. CASE t \notin Own
  <2>1. CASE Look = "prefix" /\ Provider[t] \in installed
    BY <1>1, <1>4, <2>1 DEF Find, Found, Settled, Own
  <2>2. CASE ~(Look = "prefix" /\ Provider[t] \in installed)
    BY <1>1, <1>4, <2>2 DEF Find, Found, Settled, Own
  <2> QED BY <2>1, <2>2
<1> QED BY <1>2, <1>3, <1>4 DEF Own

\* A workspace that is not being removed holds a whole toolchain.env only if every
\* tool is installed, and then a first look sees both.
LEMMA LookSeesWhole ==
  ASSUME ToolchainInv, SessionInv, ~rebuilt, Look = "prefix"
  PROVE  env = "whole" /\ installed = Names
<1>1. ~removing
  BY DEF SessionInv, Undisturbed
<1> QED BY <1>1 DEF SessionInv, Undisturbed, Look, ToolchainInv, BuildInv

LEMMA SessionInitInv == SessionInit => SessionInv
BY DEF SessionInit, Init, SessionInv, SessionTypeOK, Undisturbed, Found

LEMMA ActivateInv ==
  ASSUME ToolchainInv, SessionInv, Activate
  PROVE  SessionInv'
<1> USE DEF SessionInv
<1>1. Probe \in Tools
  BY SessionAssumption
<1>2. /\ Find(Probe) \in Found \cup {"missing"} /\ Find(Probe) # "none"
      /\ Look \in {"none", "prefix"}
  BY <1>1, FindSound DEF Found
<1>3. SessionTypeOK'
  BY <1>2 DEF SessionTypeOK, Activate
<1>4. ASSUME ~rebuilt PROVE Undisturbed'
  <2>1. Look = "prefix" => env = "whole" /\ installed = Names
    BY <1>4, LookSeesWhole
  <2>2. Provider[Probe] \in Names
    BY <1>1, SessionAssumption
  <2>3. Find(Probe) = IF Look = "none" /\ Probe \notin Own
                      THEN "missing" ELSE Settled(Probe)
    BY <1>1, <1>2, <2>1, <2>2, FindSound
  <2>4. (Settled(Probe) = Settled(Probe)') /\ (Own' = Own)
    BY DEF Activate, Settled, Own
  <2>5. launched' = {} /\ ~removing /\ UNCHANGED <<env, installed, removing>>
    BY <1>4 DEF Activate, vars, Undisturbed
  <2> QED BY <1>2, <2>1, <2>3, <2>4, <2>5 DEF Activate, Undisturbed
<1>5. (at = "run" \/ launched # {} => (banner = "none" <=> options.quiet))'
  BY <1>2 DEF Activate
<1> QED BY <1>3, <1>4, <1>5 DEF Activate

LEMMA LaunchInv ==
  ASSUME ToolchainInv, SessionInv, Launch
  PROVE  SessionInv'
<1> USE DEF SessionInv
<1>1. PICK t \in Tools :
        /\ Find(t) # "missing"
        /\ LookedUp(t)
        /\ launched' = launched \cup
             {[tool |-> t, source |-> Find(t), library |-> library,
               whole |-> installed = Names]}
  BY DEF Launch
<1>2. /\ Find(t) \in Found /\ Find(t) = Settled(t)
      /\ Look \in {"none", "prefix"} /\ (cached # "unread" => Look = cached)
      /\ Find(t) = "workspace" <=>
           t \notin Own /\ Look = "prefix" /\ Provider[t] \in installed
  BY <1>1, FindSound
<1>3. cached' \in {cached, Look} /\ (t \notin Own => cached' = Look)
  BY <1>1 DEF LookedUp
<1>4. SessionTypeOK'
  <2>1. library \in BOOLEAN /\ (installed = Names) \in BOOLEAN
    BY DEF SessionTypeOK
  <2>2. [tool |-> t, source |-> Find(t), library |-> library, whole |-> installed = Names]
          \in [tool : Tools, source : Found, library : BOOLEAN, whole : BOOLEAN]
    BY <1>2, <2>1
  <2>3. launched' \subseteq
          [tool : Tools, source : Found, library : BOOLEAN, whole : BOOLEAN]
    BY <1>1, <2>2 DEF SessionTypeOK
  <2>4. cached' \in {"unread", "none", "prefix"}
    BY <1>2, <1>3 DEF SessionTypeOK
  <2> QED BY <2>3, <2>4 DEF SessionTypeOK, Launch
<1>5. ASSUME ~rebuilt PROVE Undisturbed'
  <2>1. Look = "prefix" => env = "whole" /\ installed = Names
    BY <1>5, LookSeesWhole
  <2>2. /\ UNCHANGED <<env, installed, removing, options, banner, library>>
        /\ Own' = Own
        /\ \A k : Settled(k)' = Settled(k)
    BY DEF Launch, vars, Own, Settled
  <2>3. cached' = "prefix" => env = "whole" /\ installed = Names
    BY <1>3, <1>5, <2>1 DEF Undisturbed
  <2>4. cached # "unread" => cached' = cached
    BY <1>2, <1>3
  <2>5. ASSUME NEW l \in launched'
        PROVE  /\ l.source = Settled(l.tool)
               /\ l.source = "workspace" => l.whole /\ cached' = "prefix"
               /\ l.library <=> library
    <3>1. CASE l \in launched
      BY <1>5, <2>4, <3>1 DEF Undisturbed
    <3>2. CASE l = [tool |-> t, source |-> Find(t), library |-> library,
                    whole |-> installed = Names]
      <4>1. l.tool = t /\ l.source = Find(t) /\ (l.library <=> library)
            /\ (l.whole <=> installed = Names)
        BY <3>2
      <4>2. CASE t \in Own
        BY <1>2, <4>1, <4>2
      <4>3. CASE t \notin Own
        BY <1>2, <1>3, <2>1, <4>1, <4>3
      <4> QED BY <4>2, <4>3
    <3> QED BY <1>1, <3>1, <3>2
  <2>6. banner # "none" =>
          /\ cached # "unread"
          /\ banner = IF cached = "none" /\ Probe \notin Own
                      THEN "missing" ELSE Settled(Probe)
          /\ library <=> banner = "workspace"
    BY <1>5 DEF Undisturbed
  <2>7. ~removing
    BY <1>5 DEF Undisturbed
  <2> QED BY <2>2, <2>3, <2>4, <2>5, <2>6, <2>7 DEF Undisturbed
<1>6. /\ (at = "start" => launched = {} /\ banner = "none")'
      /\ (at = "run" \/ launched # {} => (banner = "none" <=> options.quiet))'
  BY DEF Launch
<1> QED BY <1>4, <1>5, <1>6 DEF Launch

LEMMA MissingInv ==
  ASSUME ToolchainInv, SessionInv, Missing
  PROVE  SessionInv'
<1> USE DEF SessionInv
<1>1. PICK t \in Tools : LookedUp(t)
  BY DEF Missing
<1>2. Look \in {"none", "prefix"} /\ (cached # "unread" => Look = cached)
  BY <1>1, FindSound
<1>3. cached' \in {cached, Look}
  BY <1>1 DEF LookedUp
<1>4. SessionTypeOK'
  BY <1>2, <1>3 DEF SessionTypeOK, Missing
<1>5. ASSUME ~rebuilt PROVE Undisturbed'
  <2>1. cached' = "prefix" => env = "whole" /\ installed = Names
    BY <1>3, <1>5, LookSeesWhole DEF Undisturbed
  <2>2. cached # "unread" => cached' = cached
    BY <1>2, <1>3
  <2>3. /\ UNCHANGED <<env, installed, removing, options, banner, library, launched>>
        /\ Own' = Own
        /\ \A k : Settled(k)' = Settled(k)
    BY DEF Missing, vars, Own, Settled
  <2> QED BY <1>5, <2>1, <2>2, <2>3 DEF Undisturbed
<1> QED BY <1>4, <1>5 DEF Missing

\* A builder disturbs a session only by removing the workspace: toolchain.env is
\* opened over no finished one, and installed repositories stay.
LEMMA BuilderInv ==
  ASSUME ToolchainInv, SessionInv, Builder
  PROVE  SessionInv'
<1> USE DEF SessionInv
<1>1. SessionTypeOK'
  BY DEF Builder, runner, SessionTypeOK
<1>2. ASSUME ~rebuilt'
      PROVE  /\ ~rebuilt /\ ~removing'
             /\ env = "whole" /\ installed = Names => env' = "whole" /\ installed' = Names
  <2>1. ~rebuilt /\ pc' # "remove" /\ ~removing /\ pc # "remove"
    BY <1>2 DEF Builder, SessionTypeOK, Undisturbed, ToolchainInv, BuildInv
  <2>2. Next
    BY DEF Builder
  <2>3. CASE Start \/ CheckUnknown \/ Batch \/ Cycle \/ Die
    BY <2>1, <2>3 DEF Start, CheckUnknown, Batch, Cycle, Die, End, workspace
  <2>4. CASE Ordered \/ Remove \/ Removed
    BY <2>1, <2>4 DEF Ordered, Remove, Removed
  <2>5. CASE Clone
    BY <2>1, <2>5 DEF Clone
  <2>6. CASE BuildOne
    BY <2>1, <2>6 DEF BuildOne, ToolchainInv, BuildInv
  <2>7. CASE OpenEnv
    BY <2>1, <2>7 DEF OpenEnv, ToolchainInv, BuildInv
  <2>8. CASE WriteEnv
    BY <2>1, <2>8 DEF WriteEnv
  <2> QED BY <2>2, <2>3, <2>4, <2>5, <2>6, <2>7, <2>8 DEF Next, Step
<1>3. ASSUME ~rebuilt' PROVE Undisturbed'
  <2>1. /\ UNCHANGED <<options, banner, library, launched, cached>>
        /\ Own' = Own
        /\ \A k : Settled(k)' = Settled(k)
    BY DEF Builder, runner, Own, Settled
  <2> QED BY <1>2, <1>3, <2>1 DEF Undisturbed
<1> QED BY <1>1, <1>3 DEF Builder, runner

LEMMA SessionNextInv ==
  ToolchainInv /\ SessionInv /\ [SessionNext]_all => SessionInv'
<1> SUFFICES ASSUME ToolchainInv, SessionInv, [SessionNext]_all PROVE SessionInv'
  OBVIOUS
<1>1. CASE Begin
  <2>1. SessionTypeOK'
    BY <1>1 DEF Begin, SessionInv, SessionTypeOK, ToolchainInv, TypeOK
  <2>2. ~rebuilt' => Undisturbed'
    BY <1>1 DEF Begin, vars, Undisturbed
  <2> QED BY <1>1, <2>1, <2>2 DEF Begin, SessionInv
<1>2. CASE Activate
  BY <1>2, ActivateInv
<1>3. CASE Quiet
  <2>1. SessionTypeOK'
    BY <1>3 DEF Quiet, SessionInv, SessionTypeOK
  <2>2. Undisturbed => Undisturbed'
    BY <1>3 DEF Quiet, vars, Undisturbed, Own, Settled
  <2> QED BY <1>3, <2>1, <2>2 DEF Quiet, SessionInv
<1>4. CASE Launch
  BY <1>4, LaunchInv
<1>5. CASE Missing
  BY <1>5, MissingInv
<1>6. CASE Finish
  <2>1. SessionTypeOK'
    BY <1>6 DEF Finish, SessionInv, SessionTypeOK
  <2>2. Undisturbed => Undisturbed'
    BY <1>6 DEF Finish, vars, Undisturbed, Own, Settled
  <2> QED BY <1>6, <2>1, <2>2 DEF Finish, SessionInv
<1>7. CASE Builder
  BY <1>7, BuilderInv
<1>8. CASE UNCHANGED all
  BY <1>8 DEF all, runner, vars, SessionInv, SessionTypeOK, Undisturbed, Own, Settled
<1> QED
  BY <1>1, <1>2, <1>3, <1>4, <1>5, <1>6, <1>7, <1>8 DEF SessionNext

\* The builder beside the sessions is the builder alone.
LEMMA BuilderStep == [SessionNext]_all => [Next]_vars
BY DEF SessionNext, Begin, Activate, Quiet, Launch, Missing, Finish, Builder, all

\* The inductive invariant of the sessions beside the builder.
THEOREM SessionInvariant == SessionSpec => [](ToolchainInv /\ SessionInv)
<1>1. SessionInit => ToolchainInv /\ SessionInv
  BY InitInv, SessionInitInv DEF SessionInit
<1>2. ToolchainInv /\ SessionInv /\ [SessionNext]_all => (ToolchainInv /\ SessionInv)'
  BY NextInv, BuilderStep, SessionNextInv
<1> QED BY <1>1, <1>2, PTL DEF SessionSpec

\* No tool of a partly built toolchain runs in a session that the removal of the
\* workspace does not meet.
THEOREM WorkspaceToolsAreWhole == SessionSpec => []WholeToolchain
<1>1. SessionInv => WholeToolchain
  BY DEF SessionInv, Undisturbed, WholeToolchain
<1> QED BY <1>1, SessionInvariant, PTL

\* With all the tools of one origin, activate_toolchain's decision is right for
\* each of them.
THEOREM LibrariesFollowTheTools == SessionSpec => []LibrariesMatch
<1>1. SessionInv => LibrariesMatch
  <2> SUFFICES ASSUME SessionInv, ~rebuilt, ~options.quiet, Own = {} \/ Own = Tools,
                      NEW l \in launched
               PROVE  l.library <=> l.source = "workspace"
    BY DEF LibrariesMatch
  <2>1. /\ l.source = Settled(l.tool) /\ (l.library <=> library)
        /\ l.source = "workspace" => cached = "prefix"
        /\ l.tool \in Tools /\ Probe \in Tools
        /\ banner # "none"
    BY SessionAssumption DEF SessionInv, SessionTypeOK, Undisturbed
  <2>2. /\ library <=> banner = "workspace"
        /\ banner = IF cached = "none" /\ Probe \notin Own
                    THEN "missing" ELSE Settled(Probe)
        /\ cached # "unread"
    BY <2>1 DEF SessionInv, Undisturbed
  <2>3. CASE Own = {}
    BY <2>1, <2>2, <2>3 DEF Settled, Own, SessionInv, SessionTypeOK
  <2>4. CASE Own = Tools
    BY <2>1, <2>2, <2>4 DEF Settled, Own
  <2> QED BY <2>3, <2>4
<1> QED BY <1>1, SessionInvariant, PTL

\* The banner of activate_toolchain names the verilog2hif that runs.
THEOREM TheBannerIsTrue == SessionSpec => []BannerIsTrue
<1>1. SessionInv => BannerIsTrue
  <2> SUFFICES ASSUME SessionInv, ~rebuilt, banner # "none",
                      NEW l \in launched, l.tool = Probe
               PROVE  l.source = banner
    BY DEF BannerIsTrue
  <2>1. /\ l.source = Settled(Probe)
        /\ l.source = "workspace" => cached = "prefix"
        /\ banner = IF cached = "none" /\ Probe \notin Own
                    THEN "missing" ELSE Settled(Probe)
    BY DEF SessionInv, Undisturbed
  <2> QED BY <2>1 DEF Settled, Own
<1> QED BY <1>1, SessionInvariant, PTL

=============================================================================
