--------------------------- MODULE MCExternalRunner ---------------------------
(***************************************************************************)
(* Two repositories.  The first has two suites and two commits, of which   *)
(* the second has one file fewer in the first suite and lacks the other;   *)
(* the second repository has one suite and stays.                          *)
(***************************************************************************)
EXTENDS ExternalRunner

MCKeyOf == <<1, 1, 2>>
MCRevisions == {"p1", "p2", "q"}
MCPins == {<<"p1", "q">>, <<"p2", "q">>}
MCFiles == {"a/adder", "b/adder", "b/latch", "c/voter"}
MCSuiteOf == [f \in MCFiles |->
  CASE f \in {"a/adder", "b/adder"} -> 1 [] f = "b/latch" -> 2 [] OTHER -> 3]
MCRank == [f \in MCFiles |->
  CASE f = "a/adder" -> 1 [] f = "b/adder" -> 2 [] f = "b/latch" -> 3 [] OTHER -> 4]
OwnStem == [f \in MCFiles |-> f]
Latch == {"b/latch"}
First == {"a/adder", "b/adder", "b/latch"}
MCTree == [c \in MCRevisions |->
  CASE c = "p1" -> First [] c = "p2" -> {"a/adder"} [] OTHER -> {"c/voter"}]

\* Everything, --only adder, --suite with the second key, --suite-name with the
\* first suite.
Ask(keys, suites, files) == [keys |-> keys, suites |-> suites, files |-> files]
MCRequests ==
  {Ask({1, 2}, 1..3, MCFiles), Ask({1, 2}, 1..3, {"a/adder", "b/adder"}),
   Ask({2}, 1..3, MCFiles), Ask({1, 2}, {1}, MCFiles)}

\* None; a good and a known stuck file beside a new one; a known reject.
Reviewed == [f \in MCFiles |->
  CASE f = "a/adder" -> "PASS" [] f \in {"b/adder", "b/latch"} -> "none" [] OTHER -> "TIMEOUT"]
Rejected == [Reviewed EXCEPT !["a/adder"] = "CLEAN_REJECT"]
NoBaseline == [f \in MCFiles |-> "none"]
MCBaselines == {Reviewed, Rejected, NoBaseline}

Ends(e, a, l) == [end |-> e, at |-> a, left |-> l]
MCRuns ==
  {Ends("zero", "early", "whole"), Ends("zero", "late", "empty"),
   Ends("zero", "early", "none"), Ends("reject", "early", "none"),
   Ends("crash", "early", "whole"), Ends("crash", "late", "none"),
   Ends("zero", "never", "whole")}
=============================================================================
