---------------------------- MODULE MCNightlyGate ----------------------------
(***************************************************************************)
(* This repository and one of the toolchain's.                             *)
(***************************************************************************)
EXTENDS NightlyGate, TLC

CONSTANTS Night, Dispatch

MCRepos == {"hif-regression", "hif-core"}
Both == {Night, Dispatch}
\* No property tells one slot from another.
EitherSlot == Permutations(Both)
=============================================================================
