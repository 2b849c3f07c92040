---------------------------- MODULE MCCamCaller ----------------------------
(* Two apps and the camera server. *)
EXTENDS CamCaller, TLC

MCApps == {10, 11}
MCOthers == {2}

Symmetry == Permutations(CPUs)
=============================================================================
