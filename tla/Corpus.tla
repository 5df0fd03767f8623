------------------------------- MODULE Corpus -------------------------------
(***************************************************************************)
(* What a session of scripts/run_regression.py reads before it runs        *)
(* anything: the manifests, with the checks of scripts/manifest_schema.py, *)
(* and the curated corpus, with discover_designs and the sidecars.         *)
(*                                                                         *)
(* A directory entry is the record discovery decides on: its kind, the     *)
(* files it holds and what its sidecar and behavior.yaml say.  A bare file *)
(* is an entry that holds just itself.  Wording, notes, parameters and the *)
(* contents of the files are left out.                                     *)
(***************************************************************************)
EXTENDS ManifestSchema

CONSTANTS
  Categories,   \* the directories of the corpus root
  EntryNames,   \* names of designs
  FileNames,    \* names of files inside an entry
  Verilog,      \* those that end in .v
  Roles,        \* roles a fixture may have: testbench, expect_...
  Checkouts     \* the corpora and manifests a session may be started on

\* expected_failure: absent, with both of its keys, or lacking one.
Declaration == [kind : {"none", "partial", "whole"}, stage : OpIds \cup {NoName}]

BehaviorFile ==
  [file : {"absent", "unreadable", "read"},
   lists : SUBSET {"runs", "expectations"},   \* the keys that hold a list
   runs : Seq(RunIds),
   cases : Seq([id : RunIds, use : Names \cup {NoName}, fixture : Roles \cup {NoName}])]

Entry ==
  [category : Categories, name : EntryNames, kind : {"file", "dir"}, hidden : BOOLEAN,
   files : SUBSET FileNames, sidecar : {"absent", "unreadable", "read"},
   top : BOOLEAN, pipeline : Names \cup {NoName}, sources : SUBSET FileNames,
   fixtures : SUBSET [role : Roles, file : FileNames],
   expected : Declaration, behavior : BehaviorFile]

ASSUME CorpusAssumption == \A m \in Checkouts : m.corpus \in Seq(Entry)

-----------------------------------------------------------------------------
(* The manifests. *)

KnownImpls == {"artifact_equal", "artifact_differs", "artifact_equals_fixture"}

\* A phase of a simulator is absent, whole, or lacks its command or its artifact.
ValidSimulators(simulators) ==
  /\ DOMAIN simulators # {}
  /\ \A s \in DOMAIN simulators :
       simulators[s].run = "whole" /\ simulators[s].compile # "partial"

ValidValidators(validators) ==
  DOMAIN validators # {} /\ Range(validators) \subseteq KnownImpls

ValidManifests(m) ==
  /\ ValidSimulators(m.simulators)
  /\ ValidValidators(m.validators)
  /\ \A p \in DOMAIN m.pipelines : ValidPipeline(m.pipelines[p])

-----------------------------------------------------------------------------
(* The sidecars. *)

IncompleteDeclaration(e) == e.expected.kind = "partial"

\* validate_behavior: run ids and case ids are unique, a case names a validator.
ValidBehavior(b) ==
  /\ IsInjective(b.runs)
  /\ IsInjective([k \in DOMAIN b.cases |-> b.cases[k].id])
  /\ \A k \in DOMAIN b.cases : b.cases[k].use # NoName

BadBehavior(e) ==
  \/ e.behavior.file = "unreadable"
  \/ e.behavior.file = "read" /\ ~ValidBehavior(e.behavior)

\* What discovery looks at: not a hidden entry, nor a bare file that is not Verilog.
Considered(e) == ~e.hidden /\ (e.kind = "file" => e.files \cap Verilog # {})

\* A bare file is its own source; a directory's sidecar lists them, or else *.v.
Sources(e) ==
  IF e.kind = "dir" /\ e.sources # {} THEN e.sources ELSE e.files \cap Verilog

\* A directory without sources is skipped before anything else of it is read.
\* A bare file's sidecar has no sources, fixtures nor behavior that count.
MalformedDirectory(e) ==
  \/ ~(e.sources \subseteq e.files)
  \/ /\ Sources(e) # {}
     /\ \/ ~e.top
        \/ \E f \in e.fixtures : f.file \notin e.files
        \/ BadBehavior(e)
        \/ IncompleteDeclaration(e)

\* The entries that stop the session, whether it would have run them or not.
Malformed(e) ==
  /\ Considered(e)
  /\ \/ e.sidecar = "unreadable"
     \/ e.kind = "file" /\ IncompleteDeclaration(e)
     \/ e.kind = "dir" /\ MalformedDirectory(e)

IsDesign(e) == Considered(e) /\ Sources(e) # {}

Declared(e) == IF e.expected.kind = "whole" THEN e.expected.stage ELSE NoName

\* work_root / category / name: foo.v and foo/ share theirs.
WorkDir(e) == <<e.category, e.name>>

-----------------------------------------------------------------------------
(* What a design brings to its pipeline. *)

DesignRoles(e) == IF e.kind = "dir" THEN {f.role : f \in e.fixtures} ELSE {}

DesignLists(e) ==
  IF e.kind = "dir" /\ e.behavior.file = "read" THEN e.behavior.lists ELSE {}

Cases(e) == IF "expectations" \in DesignLists(e) THEN Range(e.behavior.cases) ELSE {}

PipelineOf(m, e) == IF e.pipeline # NoName THEN e.pipeline ELSE m.defaults[e.category]

\* A design whose pipeline is not named, or not there, raises at once.
HasPipeline(m, e) == PipelineOf(m, e) \in DOMAIN m.pipelines

\* The references of an operation that no check has looked at before it comes up:
\* the registries' entries, the design's fixtures and its `from_spec` list.
Serves(m, e, op) ==
  CASE op.kind = "tool" -> op.use \in m.tools
    [] op.kind = "simulation" ->
         /\ op.use \in DOMAIN m.simulators
         /\ op.fixtures \subseteq DesignRoles(e)
         /\ op.spec => "runs" \in DesignLists(e)
    [] op.kind = "validation" ->
         op.spec =>
           /\ "expectations" \in DesignLists(e)
           /\ \A c \in Cases(e) :
                /\ c.use \in DOMAIN m.validators
                /\ c.fixture \in DesignRoles(e) \cup {NoName}

\* The pipeline's first n operations find everything they refer to.
ServedUpTo(m, e, n) ==
  /\ HasPipeline(m, e)
  /\ n <= Len(m.pipelines[PipelineOf(m, e)])
  /\ \A k \in 1..n : Serves(m, e, m.pipelines[PipelineOf(m, e)][k])

\* Nothing the pipeline refers to is missing.
Complete(m, e) ==
  HasPipeline(m, e) /\ ServedUpTo(m, e, Len(m.pipelines[PipelineOf(m, e)]))

\* What the checkout lets the outcome of a design be, its overall_status and its
\* failing_stage: it passes, or fails at an operation, with everything served so
\* far; a validation can only FAIL, and nothing else can.
Possible(m, e, outcome) ==
  \/ outcome.status = "PASS" /\ outcome.stage = NoName /\ Complete(m, e)
  \/ /\ HasPipeline(m, e)
     /\ \E k \in 1..Len(m.pipelines[PipelineOf(m, e)]) :
          LET op == m.pipelines[PipelineOf(m, e)][k] IN
          /\ ServedUpTo(m, e, k)
          /\ outcome.stage = op.id
          /\ outcome.status # "PASS"
          /\ outcome.status = "FAIL" <=> op.kind = "validation"

=============================================================================
