# A verification of hif-regression

hif-regression builds the HIF toolchain (hif-core, hif-frontend, hif-backend,
muffin) and runs it over a curated corpus of HDL designs and over pinned external
benchmark suites. Its own code is a set of Python scripts and one GitHub Actions
workflow. A mistake in them does not crash anything: it turns a broken toolchain
green, or a sound one red. The modules here model the decisions those scripts
take, TLC checks them on small instances, and TLAPS proves the main results for
every value of the constants.

`tlc -config X.cfg M` runs a model, `tlapm M_proofs.tla` checks the proofs of a
component. `PROJECT.json` lists the runs, the source lines behind every
definition, the hazards of the code with the properties that watch them, and for
each property a mutant of the model that violates it.

## Inventory

| Component | Source | State it keeps | Operations | Modelled by |
|---|---|---|---|---|
| Manifest schema | `scripts/manifest_schema.py` | none | checks of pipelines, simulators, validators, behavior.yaml | `ManifestSchema` (pipelines), `Corpus` (the others) |
| Pipeline engine | `scripts/pipeline_engine.py` | dicts `stages` and `artifacts`, keyed by operation id | validate, resolve inputs, run a step, check its artifact, stop or go on, overall status | `PipelineEngine`, `PipelineContract`, `DesignPipeline` |
| Simulation | `scripts/simulation.py`, `record_lookup.py` | `worst`, statuses and traces of runs | collect sources, compile, resolve parameters, run each run | `PipelineEngine` |
| Validation | `scripts/validators.py` | none | resolve operands, compare traces | `PipelineEngine` |
| Classification | `scripts/toolchain_classify.py` | none | `run_tool`, `classify`, severities | `PipelineEngine`, `ExternalRunner` |
| Toolchain resolution | `scripts/toolchain_classify.py` | the cache of `workspace_toolchain()`, `LD_LIBRARY_PATH` | `find_tool`, `activate_toolchain` | `ToolchainSession` |
| Toolchain build | `scripts/build_toolchain.py` | `.workspace`: clones, prefix, `toolchain.env` | topological order, remove, clone, build, write the env | `BuildToolchain` |
| Curated runner | `scripts/run_regression.py` | `reports/.run`, `results`, the report, the exit status | read the manifests, discover the designs, clear, run each design, resolve expected failures, count, write, exit | `Corpus`, `CuratedRunner`, `DesignPipeline`, `Reports` |
| Report renderer | `scripts/report.py` | none; reads the reports | find, parse, count, render | `Reports`, `NightlyJob`, `CuratedRunner` |
| External runner | `scripts/run_external_regression.py` | `external/.cache`, the work directory, the report | fetch each pin, classify every file, compare with the baseline | `ExternalRunner`, `Reports` |
| Nightly workflow | `.github/workflows/nightly.yml`, `scripts/nightly_fingerprint.py` | fingerprints in actions/cache; the job's status and files | fingerprint, decide, build, test, publish, remember | `NightlyGate`, `NightlyJob` |
| CTest runner | `scripts/run_ctest_suites.py` | none | one `ctest` per repository | `NightlyJob` |
| Placeholders | `scripts/placeholders.py` | none | expand `{input}`, `{output}` ... | only which operations take one input |
| Design corpus | `designs/`, `manifests/*.yaml` | data | none | `Corpus` (what an entry may be); the constants of the MC modules |

The parts interact in five ways, and the hard behaviours are there:

- *Files on disk between two steps of one process.* The engine hands an artifact
  from one tool to the next; a tool may exit 0 and leave nothing, an empty file, a
  directory, or several files of which one is empty. A comparison of two traces
  is satisfied by two empty ones. What makes it correct: nothing that was rejected
  is consumed, the first failure stops the pipeline, a PASS is earned all along.
- *Files on disk between two processes, one after the other.* Sessions of the
  curated and of the external runner find the work directory, the report and the
  checkout that an earlier session left, and that one may have died anywhere.
  Correct means: no artifact of another session is met, a report is of one whole
  session, the suites run over the pinned commit, an exit status of 0 is earned.
- *A workspace one process builds while another uses it.* `toolchain.env` is what
  tells a finished workspace from the rest; a session reads it once and keeps what
  it read. Correct means: no tool of a partial toolchain runs, the libraries of
  the workspace go with its tools, dependencies are built first.
- *A decision on something that moves.* The nightly job reads branch heads one by
  one, another job clones them one by one later, runs overlap, and anyone may push
  between two reads. Correct means: what is skipped has been tested, and what the
  branches come to rest at is tested in the end.
- *Verdicts handed on as numbers, files and exit codes.* Discovery decides what is
  run at all, a report counts what was run, an exit status sums it up, the job's
  steps depend on exit statuses, and people read only the page. Correct means: no
  design, file or suite is lost on the way, a remembered night was tested from end
  to end, and the page alone tells a night whose tests were good from any other.

## The modules

`ManifestSchema` <- `PipelineEngine` -(implements)-> `PipelineContract`;
`ManifestSchema` <- `Corpus`, and `Corpus`, `Reports` <- `CuratedRunner`;
`PipelineEngine`, `Corpus` <- `DesignPipeline`, which shows that the engine ends a
design as `CuratedRunner` takes it that it may; `Reports` <- `ExternalRunner`;
`CuratedRunner` and `ExternalRunner` -(implement a step each of)-> `NightlyJob`;
`Reports` <- `NightlyJob` -(implements two steps of)-> `NightlyGate`;
`BuildToolchain` <- `ToolchainSession` composes the builder with a session beside it.
So what a green night means is followed from the workflow's decision down to the tools.
For each component `X` with a state, `MCX` gives its constants values for TLC and
`X_proofs` holds its theorems; `PipelineVerdicts_proofs` continues
`PipelineEngine_proofs`.

**PipelineEngine.** The variables are those of `run_pipeline` (`stages`,
`artifacts`, the position in the loop), of `run_simulation` (`worst`, the run under
way) and the disk: per operation the condition of each file (missing, directory,
empty, good), per run the content of its trace. An operation is a record that keeps
of a manifest entry only what the engine decides on. One action per handler:
`Validate`, `StartTool`/`FinishTool` (`run_step` before and after the subprocess),
`StartSimulation`, `Compile`, `RefuseRun`, `Simulate`, `EndSimulation`,
`RunToolRaises`, `RunValidation`, `Return`. The exceptions of the code are among the
outcomes: `ManifestError`, `KeyError`, `SystemExit` of a missing tool, and of `run_tool`,
which catches a timeout only, the `OSError` of a binary that cannot be executed and the
`ValueError` of output that is not text. The tools are the environment: a subprocess ends
in any way and leaves anything.
`PipelineContract` is what callers rely on: verdicts come one by one, the first
that is not PASS is the last, the result is the worst of them.

**Corpus.** No state: what a session reads. `ValidSimulators`, `ValidValidators`,
`ValidBehavior` are the remaining checks of `manifest_schema.py`. An entry of the
corpus is a record of what discovery decides on (its kind, its files, what its sidecar
and behavior.yaml say); `Considered`, `Sources`, `IsDesign`, `Malformed` are the
conditions of `discover_designs` in its order. `Serves` says which references of an
operation nobody has checked before the operation comes up.

**CuratedRunner.** A session is `Start`, `Validate`, a `Discover` for each entry of the
corpus, or `Refuse`; then `ClearWork`, a `BeginDesign` and `EndDesign` (or
`DesignRaises`) for each design, `OpenReport`, `WriteReport`, `Exit`; `Die` ends it
anywhere, and `Render` is report.py, which the workflow runs whatever happened. Each
session may be started on another checkout and with another `--only`. What a design
ends as is bounded by `Possible` of `Corpus`: a PASS needs every reference served, a
failure everything up to the failing stage. `Job` maps the first session to `NightlyJob`:
the steps inside it stutter, its end is one step `Curated`. A directory holds the pairs of
session and design that wrote in it, so that stale files can be told from fresh ones.
`Resolve` is the `expected_failure` logic, `ExitCode` the last lines of `main()`.

**DesignPipeline.** No state of its own: `RunsDesign` says when what the engine executes is
the pipeline of a design (`run_design`'s call of `run_pipeline`, with the registries of the
checkout and, in `provided` and the cases, what the design brings), `Outcome` what
`run_design` reads from the result: the overall status and the failing stage.
`EndsAsPossible` relates the two: the outcome is one that `CuratedRunner` considers.

**Reports.** No state: `build_report`'s counts, both exit statuses, both console
summaries, and the page of report.py (`RenderCurated`, `Behavioral`, `RenderExternal`),
as functions of what was run. The column lists are the code's own, which differ:
report.py's totals know five statuses, the runner's seven.

**NightlyJob.** The steps of the job `regression`. A step without a status function in
its `if` is skipped after a failure (`Skip`), the page and the upload of the reports are
not. `Suite` and `CTestEnds` are `run_ctest_suites.py`, `Curated` and `External` what a
runner may leave: no report, a torn one, a whole one. The step succeeds only over a whole
report whose exit status is 0 (and, for the curated one, when the correspondence test
passes after it), and may fail over any: the runner exits 1, raises, or is killed before
its report, in it, or after it. `Publish` is report.py on exactly those files, `Upload`
fails or not after the page is out, `Remember` is the save of the fingerprint.
`ImplementsGate` shows that the job is what `NightlyGate` takes it for: one verdict, and a
save after green only. A red job may have a clean page, then: `PageTellsTheVerdict` says
exactly when (everything that tests has succeeded, or the external runner was killed after
a report with nothing to fail for), and that a green job has no other.

**BuildToolchain.** A `depends_on` is how often it names each repository, because
`topological_order` removes one occurrence at a time. `Batch` is a turn of
`while remaining`, `Cycle` its error. `Remove` removes anything that is left, in
any order; then clones, builds one at a time in the order, and `toolchain.env` in
two steps (truncated, whole). `Die` ends a build anywhere; the next starts over
what it left.

**ToolchainSession** adds a runner's session: `Begin`, `Activate` (or `Quiet`),
a `Launch` for each tool, `Finish` or the `SystemExit` of a missing tool, beside
any step of the builder. `Find` is `find_tool`'s order, `Look` the cached
`workspace_toolchain()`. `launched` is history: where each tool came from, with
which library path, over what installation. `rebuilt` is history too: the removal
of the workspace met the session.

**ExternalRunner.** `Start` reads the manifests and a request (`--suite`,
`--suite-name`, `--only`); `EnterKey` and `LeaveKey` are the loop over the repositories,
`EnterSuite` and `ClassifyFile` the loops below it, `OpenReport`, `WriteReport` and `Exit`
the end of `main()`, with a death possible between any two.
`fetch_ref` is `Reuse` or `Discard`, `Remove`, `Removed`, `CheckoutFile`, `CheckedOut`: git
writes the files of a checkout, then moves HEAD, and `rm -rf` removes both in any
order. The checkouts of all repositories stay in one cache from session to session. How
verilog2hif would end by itself, when (before the probe's timeout, before the full
one, never) and what it leaves is one record, from which the code's two timeouts and
`classify` make a status. `Job` maps a session to `NightlyJob`'s step `External`, if it
found no report (`fresh`), as in a clean checkout. Pins,
baselines and requests may change between sessions.

**NightlyGate.** A commit is its position on its branch. A run occupies a slot and
goes through fingerprint, decide, build, test, save; every `git ls-remote` and
every clone is an action, and so is a `Push` or a force-push (`Rewind`) by anyone.
`green` and `attempted` are history, `rewound` tells that a branch was taken back.

## The runs

| Run | What it shows | States | Bounds, and why they are enough |
|---|---|---|---|
| pipelines | `VerdictInv`, `RejectedNeverConsumed`, `EndsAsPossible`, `ValidationReadsPassingRuns`, `PassIsEarned`, `StagesAreFinal`, `ImplementsContract`, `Terminates` | 97,028 | The operations of three real pipelines with the interesting structure and those an author could write, some of them refused; two files per glob, because one good and one empty file is the case that matters; two traces that differ; toolchains with every kind of hole. Six of the pipelines belong to designs of a checkout, three of which lack a tool, a list or a validator. |
| bucketed_crash | violation of `CrashesAreNotBucketedAway` | | |
| sessions | `GreenExit`, `NothingVanishes`, `SessionIsTheJobsStep`, `FinishedIsRendered`, `FreshArtifacts`, `CorrespondenceSeesOneSession`, `SessionsEnd` | 219,688 | Two sessions: the state a session meets is what one before it left. A corpus of a bare design and a directory that share a work directory, a VHDL design that declares a failure, entries that are no designs; the same with one thing wrong, for each check discovery and the schema make and for each reference that only shows when the design runs; with `--only` and without. |
| nightly_job | `RememberedIsTested`, `PageTellsTheVerdict`, `PageCountsEverything`, `ImplementsGate` | 60,220 | Two repositories; three designs in two categories with every verdict, one with behavioral cases; three files in two suites with every status, under three baselines; every ending of every step, a kill included. |
| other_stage | violation of `OtherStageFails` | | |
| nightly_overlap | `SkipIsSafe`, `NothingUntested` | 5.7 M | Two slots: overlap takes two, and the cache holds what any number of earlier runs saved. This repository, whose commit is fixed by the trigger, and one that is cloned; one push for each; one failure or force-push. The two slots are interchangeable, so the run uses symmetry. |
| nightly_settles | `RestingHeadsAreTested` | 152,646 | One slot, without symmetry, under fairness. |
| nightly_red | violation of `FailureRunsAgain` | | |
| toolchain_builds | `DependenciesFirst`, `EnvMeansWhole`, `CycleVerdict`, `BuildEnds` | 47,456 | All 512 graphs of three repositories, cycles of every length included, one with a name listed twice, one with an unknown name; any number of builds. |
| sessions_beside_builds | `WholeToolchain`, `LibrariesMatch`, `BannerIsTrue` | 1.24 M | Two tools of two repositories, every `--bin-dir`, PATH and `--quiet`, any number of sessions and builds. |
| quiet_session | violation of `WorkspaceToolsFindTheirLibraries` | | |
| external_sessions | `CheckoutIsTheCommit`, `GreenIsEarned`, `RedIsReal`, `ReportIsComplete` | 477,282 | Two repositories, so that one's fetch and results meet the other's; two pins of the first, of which one lacks a file and a suite of the other; a file that is excluded; requests for everything, for one repository, one suite, some files; baselines that know a PASS, a reject, a TIMEOUT, nothing; every kind of end of verilog2hif that the timeouts tell apart; any number of sessions. |

Each run also checks the component's inductive invariant (`EngineInv`, `RunnerInv`,
`JobInv`, `GateInv`, `ToolchainInv`, `SessionInv`, `ExternalInv`), with the type
invariant as its first part. `pipelines` and `nightly_job` turn the deadlock check off:
their models are one `run_pipeline` and one job, which stop.

The constants named BOUND in the modules are the only bounds: `MaxFiles`,
`MaxSessions`, `Slots`, `MaxCommits`, `MaxFaults`.

### Fairness

- PipelineEngine, `WF(Next)`: every subprocess is run with a timeout
  (`run_tool`, `run_simulation`), the loops are over finite lists; the program goes on.
- CuratedRunner, BuildToolchain, `WF(Step)`: `main()` goes on until it ends or dies.
  Nothing is assumed of the start of a session, of `Die` or of report.py. In
  BuildToolchain the commands have no timeout of their own; that a build ends
  assumes that git and cmake do.
- NightlyGate: a night comes after every night (the cron entry), and a run that is
  not lost advances (GitHub ends a job that hangs). Nothing obliges a push, an eviction
  or a failure to happen, or not to. `Decide` chooses freely whether the run is a
  scheduled, a Sunday or a manual one, so the liveness result does not lean on
  Sunday's unconditional run.
- NightlyJob, ToolchainSession and ExternalRunner state safety only.

## Proofs

All theorems hold for every value of the constants that meets the `ASSUME` of the
module: any pipelines, registries, corpora, graphs, numbers of slots, commits and
sessions. The assumptions are what the manifests and the language provide (tables
are functions on their keys, positions in a file are distinct, numbers are
naturals); TLC evaluates each on the instances.

Each component has an inductive invariant, the engine two; the theorems follow from it.

- `EngineInv` (PipelineEngine_proofs): ids are unique once the pipeline is validated, so the
  dicts keyed by them are written once (`PrefixRecorded`), an artifact that was handed on is
  still the same number of files and as it was when it was checked (`HandedOnGood`), and the loop is left at the first
  failure (`StopsAtFailure`). None of the properties is inductive alone: that no
  rejected artifact is consumed needs to know that no later operation wrote
  over it. Proved from it: `TypeOK`, `RejectedNeverConsumed`, which
  includes what a simulator compiles, `FailureStopsPipeline`.
- `VerdictInv` (PipelineVerdicts_proofs), on top of `EngineInv`: what each recorded stage stands
  for, and what the loop under way has gathered. A simulation that passed has a record of each of its
  runs, all PASS with a trace; a validation read only runs that passed, in simulations that passed,
  and its cases hold over the traces as they are on disk; a simulation under way that is still PASS
  has only passing runs so far, which is the strengthening `PassIsEarned` needs; it also needs
  `SinglyFed`, inductive on top of both: whatever has run with a single `{input}` was handed one
  file, for an operation consumes only what was produced before it, and that is not touched again.
  Proved:
  `ValidationReadsPassingRuns`, `PassIsEarned`, `StagesAreFinal`; with `ByKind` (only a validation
  can FAIL, and nothing is recorded that was not served) also `ResultIsAttributed`, a result is one
  operation's verdict or all of them passed, and from it `EndsAsPossible`, for any checkout and any
  binding of its pipelines to the engine's; and that the engine implements the safety part of
  `PipelineContract` (`EngineRefinesContract`: initial states map to initial states, every step
  to a step of the contract or a stutter).
- `RunnerInv` (CuratedRunner_proofs): the results are those of a prefix of the selection, in its
  order, of this session; the work root, once cleared, holds this session's files; a
  report that can be read is one session's; discovery has let through all it has seen and kept every
  design of it. Proved: `GreenExit`, `NothingVanishes`, `ReportOfOneSession`,
  `FinishedIsRendered`, `FreshArtifacts`, `CorrespondenceSeesOneSession`, and
  `SessionIsTheJobsStep`: a running session is invisible to the job; one that raises or dies
  leaves no report, a torn one or, between its report and its exit, a whole one (no earlier session
  has left it one), over each of which the step fails; and one that exits does so with the status
  `NightlyJob` computes from its report.
- `JobInv` (NightlyJob_proofs): while the job has not failed, everything up to the step it is at has
  succeeded, the page included; a report is there only if all steps before it succeeded; a page that
  was published is of the reports as they are. Proved, for any reports of the two
  runners: `RememberedIsTested`, `PageTellsTheVerdict` (from what `RenderCurated` and `RenderExternal`
  list), `ImplementsGate`, and `PageCountsEverything`. The last is about sums over the columns of a
  table, which the library defines as folds: their partial sums are shown to be unique by a minimal
  counterexample in the order of strict subsets (well-founded, as the sets are finite), which
  gives that counting the parts of a partition counts the whole; it assumes finite reports.
- `GateInv` (NightlyGate_proofs): until a branch is rewound, what a run has read is no newer than what
  it has cloned, which is no newer than the branch; so a remembered fingerprint is no
  newer than what its green run tested. Proved: `SkipIsSafe`, `NothingUntested`.
- `ToolchainInv` (BuildToolchain_proofs): a name leaves `remaining` after its dependencies; an occurrence
  leaves a list only once its repository is ordered; what is installed is a prefix of the
  order. Proved: `DependenciesFirst`, `EnvMeansWhole`, `CycleVerdict` (in a
  cycle one name would have been ordered no later than the others, by a minimum over the
  batches: the library's theorem on well-founded sets), and by the same minimum
  `NeverStuck`: `build_order` is total, so a repository has its turn until all are done.
- `ToolchainInv /\ SessionInv` (ToolchainSession_proofs): a session that no removal of the
  workspace met sees it as at its first look, because the builder writes
  `toolchain.env` last and touches nothing installed until the next removal. Proved:
  `WholeToolchain`, `LibrariesMatch`, `BannerIsTrue`.
- `ExternalInv` (ExternalRunner_proofs): while files are fetched no HEAD is there to be taken for a
  finished checkout, and a key's fetch leaves the others' checkouts alone; keys and suites are done
  in the manifest's order, so no result is of a key that is still to be fetched; a work directory
  holds only what a file of its stem left in this session; all files of the suites that are done
  have a result; a report is torn while it is written, whole at the exit, and until then there is
  none in a session that found none (`Reported`). Proved:
  `CheckoutIsTheCommit`, `GreenIsEarned`, `RedIsReal`, `ReportIsComplete`, `NeverStuck` (no loop
  steps over what was asked for), `NeverBack` (no result is lost, no key fetched twice), and
  `SessionIsTheJobsStep` for a session that finds no report, wherever it dies.

The liveness properties lean on fairness and are only model-checked; what they need besides it is
proved. In the engine every step goes to a later operation, phase or run, within the pipeline
(`PipelinesRunOut`); a curated session takes at most 5 + 3n steps over n entries
(`SessionsRunOut`) and a build 7 + 5n over n repositories (`BuildsRunOut`), each by a number `Left`
that every step lowers.

Proved without a run of their own, because a checked property says more or a theorem says it for
every size: `FailureStopsPipeline` (`NothingRunsAfterAFailure`), `ReportOfOneSession`
(`ReportsAreWhole`), the bounds on steps and the loops that are never stuck.

Only model-checked: the fairness part of `ImplementsContract`, and `Terminates`,
`SessionsEnd`, `RestingHeadsAreTested`, `BuildEnds`. Liveness under fairness and ENABLED,
induction over data, and RECURSIVE operators are out of the prover's reach; no module here
needs a RECURSIVE operator.

## Where the code and its documents differ

Four differences have a run whose counterexample shows them (`findings` in
`PROJECT.json`):

1. `worst` in `run_simulation` is the last status that is not PASS (`simulation.py:161`): a rejected run
   hides an earlier crash, and the runner exits 0 (`docs/running.md:122`). Run `bucketed_crash`.
2. A design that declares a failure at one stage and is rejected at another exits 0
   (`run_regression.py:451`; `docs/adding-a-design.md:262`). Run `other_stage`. So does one that is
   rejected and declares nothing (`docs/running.md:132` calls every failure that is not declared a
   real one); `GreenExit` and `RememberedIsTested` therefore admit a CLEAN_REJECT and say so.
3. A red Sunday or manual run does not forget a fingerprint remembered before, and
   the next night is skipped (`nightly.yml:58`; `:143`). Run `nightly_red`.
4. `--quiet` skips `activate_toolchain()` with the banner (`run_regression.py:422`;
   `toolchain_classify.py:107`). Run `quiet_session`.

The models reproduce these as well; no run is spent on them:

- A tool, simulator, validator or pipeline that no registry names passes the schema and is a
  `KeyError` when it is reached (`pipeline_engine.py:105`), where `manifest_schema.py:3` promises
  readable errors on load: `Serves`, `DesignRaises`.
- A simulation passes over an empty compiled file or trace (`simulation.py:114`, `:147`), where
  `check_artifact`'s docstring wants content (`pipeline_engine.py:56`); two empty traces then compare
  equal. `PassIsEarned` asks for traces that exist.
- report.py's TOTAL row misses the XFAIL and XPASS designs that its rows count (`report.py:20`); its
  list of behavioral cases shows the failed cases of an XFAIL design on a green night.
  `PageCountsEverything` says how much is missing.
- `sources` is optional in directory form, since `*.v` is the default
  (`run_regression.py:157`; `docs/adding-a-design.md:135` calls it required); a directory with only VHDL
  and no `sources` is skipped without a word: `Verilogless` in `NothingVanishes`.
- `runs: null` in a behavior.yaml passes `validate_behavior` and raises when the simulation
  comes up: `lists` in `Corpus`.
- The external runner, asked for a `--suite` its manifest lacks, runs nothing and exits 0; the
  curated runner, with an `--only` nothing matches, raises. `Requests` may hold such a request.
- A selector that matches no record raises after the runs before it
  (`simulation.py:133`; `docs/adding-a-pipeline.md:80`): `RefuseRun`.
- A `depends_on` that names a repository twice is reported as a cycle
  (`build_toolchain.py:63`; `:44`); hence `NoDuplicates` in `CycleVerdict`.
- A build that dies in `rm -rf` can leave `toolchain.env` over a partial prefix
  (`build_toolchain.py:138`; `toolchain_classify.py:46`), and a fetch that dies there a HEAD over a
  partial checkout, reused when the pin goes back to it
  (`run_external_regression.py:77`; `:69`); hence `removing` in `EnvMeansWhole` and
  `broken` in `CheckoutIsTheCommit` and `ReportIsComplete`.
- The library path is decided for all tools by where verilog2hif is found
  (`toolchain_classify.py:129`; `:107`, `:113`); hence `Own = {} \/ Own = Tools` in `LibrariesMatch`.
- Without a baseline every file is NEW and a new crash exits 1 (`run_external_regression.py:323`),
  as `manifests/expectations/README.md:32` says and the docstring at `:21` does not.
- An external file passes over an empty artifact (`run_external_regression.py:98`), and over
  another file's when two files of a suite have one stem (`:91`; `:7`); hence `UniqueStems`.
- After a force-push back a night may be skipped over commits no green run tested
  (`nightly.yml:58`; `nightly_fingerprint.py:7`); hence `~rewound`.

## What is abstracted, and what is left out

- Tools, git, cmake and GitHub Actions are environments that do anything their callers can
  observe. Contents of artifacts, argument vectors and log tails are left out;
  a table is its numbers.
- Two curated runners at once in one checkout are not modelled: nothing tells their work
  directories apart and no document says it may be done. `CuratedRunner` clears
  the work root in one action and partly in `Die`, and takes a pipeline that has begun for one that
  has written.
- `Corpus`: a pipeline's own literal `cases` and operand runs are `PipelineEngine`'s; parameters,
  notes and contents of files are left out. A shape check that only a value of another YAML type
  could fail has no counterpart in a model whose values have types.
- `NightlyJob`: the checkout is clean, as actions/checkout leaves it. What the curated and the
  external session do inside is `CuratedRunner`'s and `ExternalRunner`'s; here each is its report and
  its exit status, which `SessionIsTheJobsStep` of either shows to be enough. A step is killed with a report or a page
  that is there, is not, or (the report) is torn; what fails while the fingerprint is saved is
  `Lost` of `NightlyGate`.
- `BuildToolchain` removes the workspace's parts one at a time but installs a repository in one
  action; a build that dies inside `cmake --install` is one that died before it.
- `ToolchainSession`: a torn `toolchain.env` is read as one without PREFIX, since its text is
  written when the file is closed; the tools of `--bin-dir` and PATH stay during a session,
  which inherits no library path. A relative `--bin-dir` is a matter of paths and left out.
- `ExternalRunner`: a suite's directory exists if and only if a file of the suite does, since git keeps
  no empty directories; the options of a session select by membership, not by substring; with
  `--suite-name` the code fetches every selected repository, as the model does.
- `NightlyGate`: what the build, CTest, the two regressions, the page and the upload come to is one
  verdict, red as soon as one of them fails; `NightlyJob` shows it. A lost runner of `changes` lets
  the regression run with an empty key (`nightly.yml:71`), which is `FingerprintFails`; `Lost` is a
  cancelled run or a lost runner of the regression.
- `ManifestSchema`: the rejection of the legacy keys `steps` and `probes` (`manifest_schema.py:27`) is
  left out: an operation list of the model has no such keys.
- Hazards whose trouble is what the code does, and which no document denies, have a note and no property
  in `PROJECT.json`: two designs of one directory, an interrupted removal of the workspace, tools of
  mixed origin, a run id given twice (its second run may pass on the first one's trace).
- A workspace rebuilt while a session runs is modelled and excluded from the properties by
  `rebuilt`: the code does not guard against it.
- Not modelled: placeholder expansion (string formatting, pure, no decision but the errors that
  `PipelineEngine` has), `trim_result`, progress lines, the tests and documents (statements about the
  code), the HDL sources and their expected traces (content that no module reads).

## Plan

Done, in this order: the engine with its contract, since every verdict of the
repository rests on it; the curated runner over it; the nightly gate; the toolchain
build and the sessions beside it; the external runner; then the corpus and the schema
checks in front of the curated runner, the reports and the page, the nightly job with
the CTest runner as a refinement of the gate, the engine's verdicts and its refinement
proved, and the external runner over several repositories.

Then the seams between the modules, so that a claim about the night reads down to the tools:
the engine's results as what the curated runner considers, the runners' sessions as the
job's steps; the sums of the page; and the bounds on the steps of the engine, of the
sessions and of a build.

Left:

1. Parameters of runs (`resolve_param`) with real record lookups, beyond the one
   outcome `RefuseRun` gives them.
2. Proofs: a refinement of `ExternalRunner` to "one complete report per finished session"; a
   bound on the steps of an external session as a number (`NeverBack` orders them).
