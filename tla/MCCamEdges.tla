----------------------------- MODULE MCCamEdges -----------------------------
(* Two processes on two CPUs, and a table that three edges overflow. *)
EXTENDS CamEdges, TLC

Symmetry == Permutations(CPUs) \cup Permutations(Pids)
=============================================================================
