---------------------------- MODULE MCExecguard ----------------------------
(* Two names rated by their count and one of is_shellish, in a map with    *)
(* room for two keys.  Three executions of ls and two of su are enough for *)
(* a program of one key to count its execution for the other; with one of  *)
(* cp the map is full for one of them.                                     *)
EXTENDS Execguard, TLC

Ls == [uid |-> 10, name |-> "ls"]
Su == [uid |-> 10, name |-> "su"]
Cp == [uid |-> 10, name |-> "cp"]
MCKeys == {Ls, Su, Cp}
MCMaxOf == [k \in MCKeys |-> IF k = Ls THEN 3 ELSE IF k = Su THEN 2 ELSE 1]

Symmetry == Permutations(CPUs) \cup Permutations(Elems)
=============================================================================
