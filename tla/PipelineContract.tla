-------------------------- MODULE PipelineContract --------------------------
(***************************************************************************)
(* What scripts/pipeline_engine.py promises its callers about a pipeline,  *)
(* with no tools, files or operations: verdicts are delivered one by one,  *)
(* the first that is not PASS is the last one delivered, and the result is *)
(* that last verdict - unless running the pipeline raises, in which case   *)
(* there is no verdict on the design at all.                               *)
(***************************************************************************)
EXTENDS Naturals, Sequences

CONSTANTS Verdict,    \* what an operation can be judged
          Exception   \* what can be raised instead

VARIABLES size,       \* number of operations of the pipeline
          verdicts,   \* the verdicts delivered so far, in order
          outcome     \* "running", the overall verdict, or an exception

contractVars == <<size, verdicts, outcome>>

Passing == \A i \in DOMAIN verdicts : verdicts[i] = "PASS"

Init == size \in Nat /\ verdicts = << >> /\ outcome = "running"

Deliver ==
  /\ outcome = "running" /\ Passing /\ Len(verdicts) < size
  /\ \E v \in Verdict : verdicts' = Append(verdicts, v)
  /\ UNCHANGED <<size, outcome>>

Conclude ==
  /\ outcome = "running" /\ verdicts # << >>
  /\ ~Passing \/ Len(verdicts) = size
  /\ outcome' = verdicts[Len(verdicts)]
  /\ UNCHANGED <<size, verdicts>>

\* An exception is raised between two operations or inside one, never after
\* a verdict that stops the pipeline.
Fail ==
  /\ outcome = "running" /\ Passing
  /\ outcome' \in Exception
  /\ UNCHANGED <<size, verdicts>>

Next == Deliver \/ Conclude \/ Fail

\* Weak fairness: the contract promises an outcome, not only consistent ones.
Spec == Init /\ [][Next]_contractVars /\ WF_contractVars(Conclude \/ Fail \/ Deliver)

=============================================================================
