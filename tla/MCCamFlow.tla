----------------------------- MODULE MCCamFlow -----------------------------
(* Two CPUs, two requests for a map of one, two of three contexts share a  *)
(* key.                                                                    *)
EXTENDS CamFlow, TLC

MCContexts == {1, 65537, 2}

Symmetry == Permutations(CPUs) \cup Permutations(Reqs) \cup Permutations(Elems)
=============================================================================
