--------------------------- MODULE DesignPipeline ---------------------------
(***************************************************************************)
(* Where the curated runner and the pipeline engine meet: run_design of    *)
(* scripts/run_regression.py hands run_pipeline the pipeline of a design,  *)
(* the registries and the design itself, and makes an outcome of the       *)
(* result.  Corpus says what a checkout holds, PipelineEngine executes;    *)
(* CuratedRunner knows of an execution only what Possible lets it end as.  *)
(***************************************************************************)
EXTENDS PipelineEngine, Corpus

\* The registries are the checkout's.
Registries(m) ==
  /\ DOMAIN Tools = m.tools
  /\ DOMAIN Simulators = DOMAIN m.simulators
  /\ DOMAIN Validators = DOMAIN m.validators

\* _from_spec's list and the fixtures of a simulation are there, ...
BringsSimulation(e, op) ==
  /\ op.fixtures \subseteq DesignRoles(e)
  /\ op.spec => "runs" \in DesignLists(e)

\* ... and those of a validation, whose cases are then the design's.
BringsValidation(e, op) ==
  op.spec =>
    /\ "expectations" \in DesignLists(e)
    /\ \A c \in Cases(e) : c.fixture \in DesignRoles(e) \cup {NoName}

\* What the engine executes is an operation of the manifest, with what the design
\* brings to it.
Executes(e, op, executed) ==
  /\ executed.id = op.id /\ executed.kind = op.kind /\ executed.use = op.use
  /\ executed.inputs = op.inputs /\ executed.sources = op.sources
  /\ op.kind = "simulation" => (executed.provided <=> BringsSimulation(e, op))
  /\ op.kind = "validation" =>
       /\ executed.provided <=> BringsValidation(e, op)
       /\ op.spec /\ executed.provided =>
            {c.use : c \in Range(executed.cases)} = {c.use : c \in Cases(e)}

\* The pipeline being run is the one of design e in checkout m.
RunsDesign(m, e) ==
  /\ Registries(m)
  /\ HasPipeline(m, e)
  /\ LET manifest == m.pipelines[PipelineOf(m, e)] IN
     /\ Len(ops) = Len(manifest)
     /\ \A k \in 1..Len(ops) : Executes(e, manifest[k], ops[k])

\* The first stage on record that is not PASS, if there is one.
FailingStage ==
  LET failed == {k \in Recorded : stages[ops[k].id] # "PASS"} IN
  IF failed = {} THEN NoName
  ELSE ops[CHOOSE k \in failed : \A j \in failed : k <= j].id

\* What run_design reads from what run_pipeline returns.
Outcome == [status |-> result, stage |-> FailingStage]

-----------------------------------------------------------------------------
\* Whatever the tools do, a design whose pipeline returns ends as one of the
\* outcomes CuratedRunner considers: it passes with nothing missing that its pipeline
\* refers to, or fails at one operation, with everything up to there served, FAIL
\* exactly when that is a validation.  So an expected_failure at a stage is never
\* matched by the status of another, and no unresolved reference becomes a verdict.
EndsAsPossible ==
  result \in Statuses =>
    \A m \in Checkouts : \A e \in Range(m.corpus) :
      RunsDesign(m, e) => Possible(m, e, Outcome)

=============================================================================
