---------------------------- MODULE MCProcwatch ----------------------------
(* A process without arguments, one with a single argument that fills the  *)
(* area, and one with two.                                                 *)
EXTENDS Procwatch, Sequences

MCArgAreas == {<<>>, <<"a", "a", "a", "a">>, <<"a", NUL, "b", NUL>>}
=============================================================================
