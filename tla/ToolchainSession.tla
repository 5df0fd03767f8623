--------------------------- MODULE ToolchainSession ---------------------------
(***************************************************************************)
(* Which binaries a session runs, and with which libraries, while          *)
(* BuildToolchain builds, dies and rebuilds the workspace beside it:       *)
(* find_tool, workspace_toolchain and activate_toolchain of                *)
(* scripts/toolchain_classify.py, as run_regression.py calls them.         *)
(*                                                                         *)
(* A session inherits no library path, and its PATH does not hold the      *)
(* workspace's own bin directory; what it has of its own stays while it    *)
(* runs.                                                                   *)
(***************************************************************************)
EXTENDS BuildToolchain

CONSTANTS
  Tools,      \* the binaries the pipelines run
  Probe,      \* the one activate_toolchain looks for, verilog2hif
  Provider,   \* tool -> the repository that installs it
  Sessions    \* the ways to call the runner: --bin-dir, PATH and --quiet

ASSUME SessionAssumption ==
  /\ Probe \in Tools
  /\ Provider \in [Tools -> Names]
  /\ Sessions \subseteq [binDir : SUBSET Tools, path : SUBSET Tools, quiet : BOOLEAN]

VARIABLES
  at,        \* where the runner is
  options,   \* how it was called
  cached,    \* what workspace_toolchain() remembers for this process
  library,   \* the workspace's lib is on LD_LIBRARY_PATH
  banner,    \* the source the banner named
  launched,  \* history: every launch of a tool
  rebuilt    \* history: the workspace was being removed at some time of the session

runner == <<at, options, cached, library, banner, launched>>
all == <<vars, runner, rebuilt>>

Found == {"bin-dir", "path", "workspace"}

-----------------------------------------------------------------------------
\* MUTANT: workspace_toolchain() is not cached.
Look_Uncached == IF env = "whole" THEN "prefix" ELSE "none"

\* workspace_toolchain(): read once.  The file is written in one piece when it is
\* closed, so a torn one names no PREFIX.
Look ==
  IF cached # "unread" THEN cached ELSE IF env = "whole" THEN "prefix" ELSE "none"

Own == options.binDir \cup options.path

\* find_tool(): --bin-dir, then PATH, then the workspace.
Find(t) ==
  CASE t \in options.binDir -> "bin-dir"
    [] t \in options.path \ options.binDir -> "path"
    [] t \notin Own /\ Look = "prefix" /\ Provider[t] \in installed -> "workspace"
    [] OTHER -> "missing"

SessionInit ==
  /\ Init
  /\ at = "over"
  /\ options \in Sessions
  /\ cached = "unread"
  /\ library = FALSE
  /\ banner = "none"
  /\ launched = {}
  /\ rebuilt = FALSE

Begin ==
  /\ at = "over"
  /\ at' = "start"
  /\ options' \in Sessions
  /\ cached' = "unread"
  /\ library' = FALSE
  /\ banner' = "none"
  /\ launched' = {}
  /\ rebuilt' = removing
  /\ UNCHANGED vars

\* MUTANT: the library path is prepared for the tools of PATH too.
Activate_Always ==
  /\ at = "start" /\ ~options.quiet
  /\ at' = "run" /\ banner' = Find(Probe) /\ cached' = Look /\ library' = TRUE
  /\ UNCHANGED <<vars, options, launched, rebuilt>>

\* activate_toolchain(), decided by one tool for them all.
Activate ==
  /\ at = "start"
  /\ ~options.quiet
  /\ at' = "run"
  /\ banner' = Find(Probe)
  /\ cached' = Look
  /\ library' = (Find(Probe) = "workspace")
  /\ UNCHANGED <<vars, options, launched, rebuilt>>

\* --quiet leaves out the banner and, with it, the preparation.
Quiet ==
  /\ at = "start"
  /\ options.quiet
  /\ at' = "run"
  /\ UNCHANGED <<vars, options, cached, library, banner, launched, rebuilt>>

LookedUp(t) == cached' = IF t \in Own THEN cached ELSE Look

\* MUTANT: a tool that is nowhere is launched by its name.
Launch_Missing ==
  /\ at = "run"
  /\ \E t \in Tools :
       /\ LookedUp(t)
       /\ launched' = launched \cup
            {[tool |-> t, source |-> Find(t), library |-> library, whole |-> FALSE]}
  /\ UNCHANGED <<vars, at, options, library, banner, rebuilt>>

Launch ==
  /\ at = "run"
  /\ \E t \in Tools :
       /\ Find(t) # "missing"
       /\ LookedUp(t)
       /\ launched' = launched \cup
            {[tool |-> t, source |-> Find(t), library |-> library,
              whole |-> installed = Names]}
  /\ UNCHANGED <<vars, at, options, library, banner, rebuilt>>

\* find_tool raises SystemExit, which ends the session.
Missing ==
  /\ at = "run"
  /\ \E t \in Tools : Find(t) = "missing" /\ LookedUp(t)
  /\ at' = "over"
  /\ UNCHANGED <<vars, options, library, banner, launched, rebuilt>>

Finish ==
  /\ at = "run"
  /\ at' = "over"
  /\ UNCHANGED <<vars, options, cached, library, banner, launched, rebuilt>>

\* A step of build_toolchain.py in another process.
Builder ==
  /\ Next
  /\ rebuilt' = (rebuilt \/ pc' = "remove")
  /\ UNCHANGED runner

SessionNext == Begin \/ Activate \/ Quiet \/ Launch \/ Missing \/ Finish \/ Builder

SessionSpec == SessionInit /\ [][SessionNext]_all

-----------------------------------------------------------------------------
(* Properties. *)

SessionTypeOK ==
  /\ at \in {"over", "start", "run"}
  /\ options \in Sessions
  /\ cached \in {"unread", "none", "prefix"}
  /\ library \in BOOLEAN
  /\ banner \in Found \cup {"none", "missing"}
  /\ launched \subseteq
       [tool : Tools, source : Found, library : BOOLEAN, whole : BOOLEAN]
  /\ rebuilt \in BOOLEAN

\* Where a tool is found in a session that finds it.
Settled(t) ==
  IF t \in options.binDir THEN "bin-dir"
  ELSE IF t \in options.path THEN "path" ELSE "workspace"

\* A session that no removal of the workspace has met sees the workspace as it was
\* at its first look: finished, or not there.
Undisturbed ==
  /\ ~removing
  /\ cached = "prefix" => env = "whole" /\ installed = Names
  /\ banner # "none" =>
       /\ cached # "unread"
       /\ banner = IF cached = "none" /\ Probe \notin Own
                   THEN "missing" ELSE Settled(Probe)
       /\ library <=> banner = "workspace"
  /\ \A l \in launched :
       /\ l.source = Settled(l.tool)
       /\ l.source = "workspace" => l.whole /\ cached = "prefix"
       /\ l.library <=> library

SessionInv ==
  /\ SessionTypeOK
  /\ at = "start" => launched = {} /\ banner = "none"
  /\ at = "run" \/ launched # {} => (banner = "none" <=> options.quiet)
  /\ ~rebuilt => Undisturbed

\* A session runs no tool of a toolchain that is only partly built: it takes the
\* workspace from a toolchain.env, or not at all until it ends, whatever a build
\* does meanwhile, except remove the workspace.
WholeToolchain ==
  ~rebuilt => \A l \in launched : l.source = "workspace" => l.whole

\* When the tools all come from the workspace, or none does, a tool gets the
\* workspace's libraries if it is one of the workspace's, and only then; also in a
\* session that starts while the first build is still under way.
LibrariesMatch ==
  ~rebuilt /\ ~options.quiet /\ (Own = {} \/ Own = Tools) =>
    \A l \in launched : l.library <=> l.source = "workspace"

\* The banner tells which verilog2hif runs, all through the session.
BannerIsTrue ==
  ~rebuilt /\ banner # "none" =>
    \A l \in launched : l.tool = Probe => l.source = banner

\* The docstring of activate_toolchain: the library path is not optional.
WorkspaceToolsFindTheirLibraries ==
  \A l \in launched : l.source = "workspace" => l.library
=============================================================================
