----------------------------- MODULE PacketLog -----------------------------
(***************************************************************************)
(* What pksniff's in-memory store promises: the newest packets, in the     *)
(* order of their arrival (the number n of a packet), never more than      *)
(* Capacity of them.                                                       *)
(***************************************************************************)
EXTENDS Naturals, Sequences

CONSTANTS Capacity, Packets

VARIABLE log

(* The log after e was captured: the oldest packet goes when it is full. *)
Keep(l, e) == Append(IF Len(l) < Capacity THEN l ELSE Tail(l), e)

Init == log = <<>>

Capture(e) ==
  /\ \A i \in DOMAIN log : log[i].n < e.n
  /\ log' = Keep(log, e)

Next == \E e \in Packets : Capture(e)

Spec == Init /\ [][Next]_log
=============================================================================
