--------------------------- MODULE ManifestSchema ---------------------------
(***************************************************************************)
(* The shape of a pipeline (manifests/pipelines.yaml) and the structural   *)
(* checks of scripts/manifest_schema.py.  A pipeline is a sequence of      *)
(* operations; wording of the messages and the layout of the YAML are left *)
(* out, and an entry of the manifest is kept only as far as the engine     *)
(* decides something on it.                                                *)
(***************************************************************************)
EXTENDS Naturals, Sequences, Functions

CONSTANTS
  OpIds,     \* ids an operation may carry
  RunIds,    \* ids a simulation run may carry
  Names,     \* names an operation or a case may `use`
  NoName     \* the absent reference: an omitted `use`, lookup or `from`

ASSUME NoNameAssumption == NoName \notin OpIds \cup Names

Kinds == {"tool", "simulation", "validation"}

\* A simulation run; `lookup` is the operation whose JSON artifact a parameter
\* reads, when a parameter is a record lookup and not a literal.
Run == [id : RunIds, lookup : OpIds \cup {NoName}]

\* What a validation compares: a run of a simulation, or (sim = NoName) the
\* checked-in fixture.
Operand == [sim : OpIds \cup {NoName}, run : RunIds]

Case == [use : Names, left : Operand, right : Operand]

\* `provided` stands for what the design must bring to the operation: the
\* `from_spec` list in its behavior.yaml and every fixture it names.
Operation ==
  [id : OpIds, kind : STRING, use : Names \cup {NoName},
   inputs : Seq(OpIds), sources : Seq(OpIds),
   runs : Seq(Run), cases : Seq(Case), provided : BOOLEAN]

Ids(ops, n) == {ops[j].id : j \in 1..n}

\* _referenced_ids: what an operation names in `inputs` and `sources`.  The
\* lookups of its runs and the operands of its cases are not collected.
ReferencedIds(op) == Range(op.inputs) \cup Range(op.sources)

\* MUTANT: a second operation may take an id that is in use.
ValidOperation_NoDuplicateCheck(ops, i) ==
  /\ ops[i].kind \in Kinds
  /\ ops[i].kind # "validation" => ops[i].use # NoName
  /\ ReferencedIds(ops[i]) \subseteq Ids(ops, i - 1)

\* validate_pipelines, the four checks made of each operation.
ValidOperation(ops, i) ==
  /\ ops[i].id \notin Ids(ops, i - 1)
  /\ ops[i].kind \in Kinds
  /\ ops[i].kind # "validation" => ops[i].use # NoName
  /\ ReferencedIds(ops[i]) \subseteq Ids(ops, i - 1)

ValidPipeline(ops) == ops # << >> /\ \A i \in 1..Len(ops) : ValidOperation(ops, i)

=============================================================================
