-------------------------- MODULE MCToolchainSession --------------------------
(***************************************************************************)
(* The four repositories' chain, cut to three, with two tools of different *)
(* repositories, beside one builder that dies and starts again.            *)
(***************************************************************************)
EXTENDS ToolchainSession

MCNames == {"hif-core", "hif-frontend", "hif-backend"}
MCIndex == [n \in MCNames |->
  CASE n = "hif-core" -> 1 [] n = "hif-frontend" -> 2 [] OTHER -> 3]
MCGraphs == {[n \in MCNames |-> [d \in MCNames |->
                IF n # "hif-core" /\ d = "hif-core" THEN 1 ELSE 0]]}

MCTools == {"verilog2hif", "hif2verilog"}
MCProvider == [t \in MCTools |->
  IF t = "verilog2hif" THEN "hif-frontend" ELSE "hif-backend"]

MCSessions ==
  [binDir : {{}, {"verilog2hif"}}, path : SUBSET MCTools, quiet : BOOLEAN]
QuietSession == {[binDir |-> {}, path |-> {}, quiet |-> TRUE]}
=============================================================================
