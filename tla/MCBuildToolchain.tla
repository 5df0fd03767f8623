--------------------------- MODULE MCBuildToolchain ---------------------------
(***************************************************************************)
(* Every graph over three repositories, in a file whose order is not the   *)
(* order of the dependencies, and lists with a name twice or no repository.*)
(***************************************************************************)
EXTENDS BuildToolchain

MCNames == {"hif-core", "hif-frontend", "hif-backend"}
MCForeign == {"hif-cor"}
MCIndex == [n \in MCNames |->
  CASE n = "hif-backend" -> 1 [] n = "hif-core" -> 2 [] OTHER -> 3]

Listed(g) ==
  [n \in MCNames |-> [d \in MCNames \cup MCForeign |->
     IF d \in MCForeign THEN 0 ELSE g[n][d]]]
Simple == {Listed(g) : g \in [MCNames -> [MCNames -> 0..1]]}
Chain == Listed([n \in MCNames |-> [d \in MCNames |->
  IF MCIndex[n] # 2 /\ (d = "hif-core" \/ (n = "hif-backend" /\ d = "hif-frontend"))
  THEN 1 ELSE 0]])
Twice == [Chain EXCEPT !["hif-backend"]["hif-core"] = 2]
Misspelt == [Chain EXCEPT !["hif-frontend"]["hif-cor"] = 1]

MCGraphs == Simple \cup {Twice, Misspelt}
=============================================================================
