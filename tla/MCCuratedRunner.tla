--------------------------- MODULE MCCuratedRunner ---------------------------
(***************************************************************************)
(* A corpus of a bare design and a directory of the same name, a VHDL      *)
(* design that declares an expected failure, and entries that are no       *)
(* designs; the same with one thing wrong, in the corpus or a manifest.    *)
(***************************************************************************)
EXTENDS CuratedRunner

MCFiles == {"rtl.v", "tb.v", "rtl.vhd", "trace"}
MCVerilog == {"rtl.v", "tb.v"}

NoBehavior == [file |-> "absent", lists |-> {}, runs |-> << >>, cases |-> << >>]
Behavior ==
  [file |-> "read", lists |-> {"runs", "expectations"}, runs |-> <<"r1">>,
   cases |-> <<[id |-> "r1", use |-> "equal", fixture |-> NoName]>>]
NoFailure == [kind |-> "none", stage |-> NoName]

Bare ==
  [category |-> "comb", name |-> "foo", kind |-> "file", hidden |-> FALSE,
   files |-> {"rtl.v"}, sidecar |-> "absent", top |-> FALSE, pipeline |-> NoName,
   sources |-> {}, fixtures |-> {}, expected |-> NoFailure, behavior |-> NoBehavior]
Testbench == [role |-> "testbench", file |-> "tb.v"]
Directory ==
  [Bare EXCEPT !.kind = "dir", !.files = {"rtl.v", "tb.v"}, !.sidecar = "read",
     !.top = TRUE, !.pipeline = "behavioral", !.sources = {"rtl.v"},
     !.fixtures = {Testbench}, !.behavior = Behavior]
Vhdl ==
  [Directory EXCEPT !.name = "vhdl", !.files = {"rtl.vhd", "tb.v", "trace"},
     !.sources = {"rtl.vhd"},
     !.fixtures = {Testbench, [role |-> "golden", file |-> "trace"]},
     !.behavior.cases = <<[id |-> "r1", use |-> "equal", fixture |-> "golden"]>>,
     !.expected = [kind |-> "whole", stage |-> "validate"]]
Hidden == [Bare EXCEPT !.name = "foo", !.hidden = TRUE, !.sidecar = "unreadable"]
BareVhdl == [Bare EXCEPT !.name = "vhdl", !.files = {"rtl.vhd"}]
Notes == [Bare EXCEPT !.kind = "dir", !.files = {"rtl.vhd"},
            !.expected.kind = "partial", !.behavior.file = "unreadable"]

\* What discovery refuses, ...
Refused ==
  {[Directory EXCEPT !.sidecar = "unreadable"],
   [Directory EXCEPT !.sources = {"rtl.v", "rtl.vhd"}],
   [Directory EXCEPT !.top = FALSE],
   [Directory EXCEPT !.files = {"rtl.v"}],
   [Directory EXCEPT !.behavior.file = "unreadable"],
   [Directory EXCEPT !.behavior.runs = <<"r1", "r1">>],
   [Directory EXCEPT !.behavior.cases = @ \o @],
   [Directory EXCEPT !.behavior.cases[1].use = NoName],
   [Directory EXCEPT !.expected.kind = "partial"],
   [Bare EXCEPT !.sidecar = "read", !.expected.kind = "partial"]}

\* ... and what shows when the design runs, if it gets that far.
Dangling ==
  {[Directory EXCEPT !.fixtures = {}],
   [Directory EXCEPT !.sources = {}, !.behavior.lists = {"runs"}],
   [Directory EXCEPT !.behavior.cases[1].use = "unknown"],
   [Directory EXCEPT !.behavior.cases[1].fixture = "golden"],
   [Directory EXCEPT !.pipeline = "unknown"],
   [Bare EXCEPT !.sidecar = "read", !.pipeline = "behavioral"]}

Op(id, kind, use) ==
  [id |-> id, kind |-> kind, use |-> use, inputs |-> << >>, sources |-> << >>,
   fixtures |-> {}, spec |-> FALSE]
Frontend == Op("frontend", "tool", "verilog2hif")
PlainOps == <<Frontend>>
BehavioralOps ==
  <<Frontend,
    [Op("simulate", "simulation", "iverilog") EXCEPT
       !.fixtures = {"testbench"}, !.spec = TRUE],
    [Op("validate", "validation", NoName) EXCEPT !.spec = TRUE]>>

Manifests(entries) ==
  [corpus |-> entries,
   pipelines |-> [plain |-> PlainOps, behavioral |-> BehavioralOps],
   defaults |-> [comb |-> "plain"],
   tools |-> {"verilog2hif"},
   simulators |-> [iverilog |-> [compile |-> "whole", run |-> "whole"]],
   validators |-> [equal |-> "artifact_equal"]]
Good == Manifests(<<Hidden, Directory, Bare, Notes, BareVhdl>>)

MCCheckouts ==
  {Good, Manifests(<<Bare, Vhdl>>)}
    \cup {Manifests(<<e, Vhdl>>) : e \in Refused}
    \cup {Manifests(<<e>>) : e \in Dangling}
    \cup {[Manifests(<<Vhdl>>) EXCEPT !.pipelines.plain = << >>],
          [Manifests(<<Vhdl>>) EXCEPT !.simulators.iverilog.run = "partial"],
          [Manifests(<<Vhdl>>) EXCEPT !.validators.equal = "looks_equal"],
          [Manifests(<<Bare>>) EXCEPT !.defaults.comb = NoName],
          [Manifests(<<Directory>>) EXCEPT !.tools = {}]}
OneCheckout == {Manifests(<<Bare, Vhdl>>)}

\* No --only, and one of the two names.
MCFilters == {EntryNames, {"foo"}}
=============================================================================
