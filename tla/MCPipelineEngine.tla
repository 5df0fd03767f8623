-------------------------- MODULE MCPipelineEngine --------------------------
(***************************************************************************)
(* Instances of PipelineEngine: pipelines of manifests/pipelines.yaml, and *)
(* pipelines an author could write and the manifest checks accept.         *)
(***************************************************************************)
EXTENDS PipelineEngine

MCOpIds == {"frontend", "backend", "reparse", "list_faults", "instrument",
            "regenerate", "simulate_reference", "simulate_other", "validate"}
MCRunIds == {"reference", "active", "inactive"}
MCNames == {"verilog2hif", "hif2verilog", "muffin", "iverilog", "script",
            "trace_equal", "trace_differs", "expected_trace", "typo"}

MCTools ==
  [verilog2hif |-> [single |-> FALSE, glob |-> FALSE, binary |-> "verilog2hif"],
   hif2verilog |-> [single |-> TRUE, glob |-> TRUE, binary |-> "hif2verilog"],
   muffin      |-> [single |-> TRUE, glob |-> FALSE, binary |-> "muffin"]]
\* `script` stands for a simulator with no compile phase.
MCSimulators ==
  [iverilog |-> [compile |-> "iverilog", run |-> "vvp"],
   script   |-> [compile |-> NoName, run |-> "python"]]
MCValidators ==
  [trace_equal |-> "artifact_equal", trace_differs |-> "artifact_differs",
   expected_trace |-> "artifact_equals_fixture"]

Base == [id |-> "frontend", kind |-> "tool", use |-> "verilog2hif",
         inputs |-> << >>, sources |-> << >>, runs |-> << >>, cases |-> << >>,
         provided |-> TRUE]
Tool(id, use, inputs) == [Base EXCEPT !.id = id, !.use = use, !.inputs = inputs]
Simulation(id, use, sources, simruns) ==
  [Base EXCEPT !.id = id, !.kind = "simulation", !.use = use,
               !.sources = sources, !.runs = simruns]
Validation(id, cases) ==
  [Base EXCEPT !.id = id, !.kind = "validation", !.use = NoName, !.cases = cases]
Literal(r) == [id |-> r, lookup |-> NoName]
Lookup(r, o) == [id |-> r, lookup |-> o]
From(o, r) == [sim |-> o, run |-> r]
Fixture == [sim |-> NoName, run |-> "reference"]
Compare(use, left, right) == [use |-> use, left |-> left, right |-> right]

\* The first three operations of muffin_roundtrip are plain_roundtrip.
MuffinRoundtrip ==
  <<Tool("frontend", "verilog2hif", << >>),
    Tool("backend", "hif2verilog", << >>),
    Tool("reparse", "verilog2hif", << >>),
    Tool("list_faults", "muffin", <<"frontend">>),
    Tool("instrument", "muffin", <<"frontend">>)>>

BehavioralRoundtrip ==
  <<Tool("frontend", "verilog2hif", << >>),
    Tool("regenerate", "hif2verilog", << >>),
    Simulation("simulate_reference", "iverilog", << >>, <<Literal("reference")>>),
    Simulation("simulate_other", "iverilog", <<"regenerate">>, <<Literal("inactive")>>),
    Validation("validate",
      <<Compare("trace_equal", From("simulate_reference", "reference"),
                               From("simulate_other", "inactive"))>>)>>

\* muffin_behavioral, its campaign: one fault run and one golden run of the
\* instrumented netlist, the fault looked up in the enumeration.
MuffinBehavioral ==
  <<Tool("frontend", "verilog2hif", << >>),
    Tool("list_faults", "muffin", <<"frontend">>),
    Tool("instrument", "muffin", <<"frontend">>),
    Tool("regenerate", "hif2verilog", <<"instrument">>),
    Simulation("simulate_reference", "iverilog", << >>, <<Literal("reference")>>),
    Simulation("simulate_other", "iverilog", <<"regenerate">>,
      <<Lookup("active", "list_faults"), Literal("inactive")>>),
    Validation("validate",
      <<Compare("trace_equal", From("simulate_reference", "reference"),
                               From("simulate_other", "inactive")),
        Compare("trace_differs", From("simulate_reference", "reference"),
                                 From("simulate_other", "active")),
        Compare("expected_trace", From("simulate_other", "active"), Fixture)>>)>>

\* A single {input} fed every file a glob matched.
MultiFile ==
  <<Tool("frontend", "verilog2hif", << >>), Tool("regenerate", "hif2verilog", << >>),
    Tool("instrument", "muffin", << >>)>>
\* A single {input} fed by two operations, or by the design itself.
TwoInputs ==
  <<Tool("frontend", "verilog2hif", << >>), Tool("backend", "verilog2hif", << >>),
    Tool("instrument", "muffin", <<"frontend", "backend">>)>>
SourceInput == <<Tool("backend", "hif2verilog", << >>)>>
\* A step whose predecessor has no artifact, and a lookup in several files.
AfterSimulation ==
  <<Simulation("simulate_reference", "script", << >>, <<Literal("reference")>>),
    Tool("backend", "verilog2hif", << >>)>>
LookupInGlob ==
  <<Tool("frontend", "verilog2hif", << >>), Tool("regenerate", "hif2verilog", << >>),
    Simulation("simulate_other", "script", << >>, <<Lookup("active", "regenerate")>>)>>
\* Refused by validate_pipelines: a duplicate id, a forward reference, a kind.
DuplicateId ==
  <<Tool("frontend", "verilog2hif", << >>), Tool("frontend", "verilog2hif", << >>)>>
ForwardReference ==
  <<Tool("frontend", "verilog2hif", <<"backend">>), Tool("backend", "hif2verilog", << >>)>>
UnknownKind == <<[Tool("frontend", "verilog2hif", << >>) EXCEPT !.kind = "probe"]>>
\* Accepted by validate_pipelines, and not executable.
UnknownTool == <<Tool("frontend", "typo", << >>)>>
UnknownSimulator == <<Simulation("simulate_reference", "typo", << >>, << >>)>>
UnknownValidator ==
  <<Simulation("simulate_reference", "script", << >>, <<Literal("reference")>>),
    Validation("validate", <<Compare("typo", Fixture, Fixture)>>)>>
UnknownRun ==
  <<Simulation("simulate_reference", "script", << >>, <<Literal("reference")>>),
    Validation("validate",
      <<Compare("trace_equal", From("simulate_reference", "active"), Fixture)>>)>>
\* A run id given twice in the pipeline itself.
RepeatedRun ==
  <<Simulation("simulate_other", "script", << >>,
      <<Literal("active"), Literal("active")>>),
    Validation("validate",
      <<Compare("expected_trace", From("simulate_other", "active"), Fixture)>>)>>
\* `runs` omitted: the simulation compiles and runs nothing.
NoRuns == <<Simulation("simulate_reference", "iverilog", << >>, << >>)>>
NoList ==
  <<[Simulation("simulate_reference", "script", << >>, << >>) EXCEPT !.provided = FALSE]>>

RealPipelines == {MuffinRoundtrip, BehavioralRoundtrip, MuffinBehavioral}
Accepted == {MultiFile, TwoInputs, SourceInput, AfterSimulation, LookupInGlob,
             UnknownTool, UnknownSimulator, UnknownValidator, UnknownRun, RepeatedRun, NoRuns,
             NoList}
AllPipelines ==
  RealPipelines \cup Accepted \cup {DuplicateId, ForwardReference, UnknownKind}

\* A whole toolchain, one without the HIF tools, two with half a simulator.
AllInstalled == {"verilog2hif", "hif2verilog", "muffin", "iverilog", "vvp", "python"}
MCInstallations ==
  {AllInstalled, AllInstalled \ {"hif2verilog", "muffin"},
   AllInstalled \ {"iverilog"}, AllInstalled \ {"vvp"}}
OnlyAllInstalled == {AllInstalled}
OnlyMuffin == {MuffinBehavioral}
=============================================================================
