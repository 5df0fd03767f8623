-------------------------- MODULE MCDesignPipeline --------------------------
(***************************************************************************)
(* The pipelines of MCPipelineEngine, six of them run for the designs of a *)
(* checkout: a campaign, a behavioral and a structural design, and three   *)
(* that lack what their pipeline refers to.                                *)
(***************************************************************************)
EXTENDS MCPipelineEngine, DesignPipeline

PipelineNames == {"muffin_roundtrip", "behavioral_roundtrip", "muffin_behavioral",
                  "unknown_tool", "unknown_validator", "no_list"}
DesignNames == MCNames \cup PipelineNames

\* An operation of the manifest.  Simulations take the testbench; `spec` is given.
InManifest(op, spec) ==
  [id |-> op.id, kind |-> op.kind, use |-> op.use,
   inputs |-> op.inputs, sources |-> op.sources,
   fixtures |-> IF op.kind = "simulation" THEN {"testbench"} ELSE {},
   spec |-> op.id \in spec]
Manifest(operations, spec) == [k \in DOMAIN operations |-> InManifest(operations[k], spec)]

Campaign ==
  [category |-> "sequential", name |-> "campaign", kind |-> "dir", hidden |-> FALSE,
   files |-> {"rtl.v", "tb.v", "trace"}, sidecar |-> "read", top |-> TRUE,
   pipeline |-> "muffin_behavioral", sources |-> {"rtl.v"},
   fixtures |-> {[role |-> "testbench", file |-> "tb.v"],
                 [role |-> "golden", file |-> "trace"]},
   expected |-> [kind |-> "whole", stage |-> "validate"],
   behavior |-> [file |-> "read", lists |-> {"runs", "expectations"},
                 runs |-> <<"active", "inactive">>,
                 cases |-> <<[id |-> "reference", use |-> "trace_equal", fixture |-> NoName],
                             [id |-> "active", use |-> "trace_differs", fixture |-> NoName],
                             [id |-> "inactive", use |-> "expected_trace",
                              fixture |-> "golden"]>>]]
Equivalence ==
  [Campaign EXCEPT !.name = "equivalence", !.pipeline = "behavioral_roundtrip",
     !.behavior.lists = {"expectations"},
     !.behavior.cases = <<[id |-> "reference", use |-> "trace_equal", fixture |-> NoName]>>]
Structural ==
  [Campaign EXCEPT !.name = "structural", !.pipeline = NoName, !.fixtures = {},
     !.behavior.file = "absent"]
\* What shows only when the design runs: a tool, a list and a validator not there.
Toolless == [Structural EXCEPT !.name = "toolless", !.pipeline = "unknown_tool"]
Listless == [Campaign EXCEPT !.name = "listless", !.pipeline = "no_list",
               !.behavior.lists = {"expectations"}]
Mistyped ==
  [Equivalence EXCEPT !.name = "mistyped", !.pipeline = "unknown_validator",
     !.behavior.cases = <<[id |-> "reference", use |-> "typo", fixture |-> NoName]>>]

MCDesigns == <<Campaign, Equivalence, Structural, Toolless, Listless, Mistyped>>
MCEntryNames == {MCDesigns[k].name : k \in DOMAIN MCDesigns}

MCCheckouts ==
  {[corpus |-> MCDesigns,
    pipelines |->
      [muffin_roundtrip     |-> Manifest(MuffinRoundtrip, {}),
       behavioral_roundtrip |-> Manifest(BehavioralRoundtrip, {"validate"}),
       muffin_behavioral    |-> Manifest(MuffinBehavioral, {"simulate_other", "validate"}),
       unknown_tool         |-> Manifest(UnknownTool, {}),
       unknown_validator    |-> Manifest(UnknownValidator, {"validate"}),
       no_list              |-> Manifest(NoList, {"simulate_reference"})],
    defaults |-> [sequential |-> "muffin_roundtrip"],
    tools |-> DOMAIN MCTools,
    simulators |-> [s \in DOMAIN MCSimulators |-> [compile |-> "whole", run |-> "whole"]],
    validators |-> MCValidators]}
=============================================================================
