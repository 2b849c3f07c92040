------------------------------ MODULE EditLine ------------------------------
(***************************************************************************)
(* What pksniff's filter bar promises: a line of at most Capacity          *)
(* characters with a cursor between two of them, edited at the cursor.     *)
(***************************************************************************)
EXTENDS Naturals, Sequences

CONSTANTS Chars, Capacity

VARIABLES text, cursor

Before == SubSeq(text, 1, cursor)
After == SubSeq(text, cursor + 1, Len(text))

Init == text = <<>> /\ cursor = 0

Insert(c) ==
  /\ Len(text) < Capacity
  /\ text' = Before \o <<c>> \o After
  /\ cursor' = cursor + 1

(* The character before the cursor goes. *)
Backspace ==
  /\ cursor > 0
  /\ text' = SubSeq(text, 1, cursor - 1) \o After
  /\ cursor' = cursor - 1

(* The character behind the cursor goes. *)
Delete ==
  /\ cursor < Len(text)
  /\ text' = Before \o SubSeq(text, cursor + 2, Len(text))
  /\ UNCHANGED cursor

Move == cursor' \in 0..Len(text) /\ UNCHANGED text

Clear == text' = <<>> /\ cursor' = 0

Next == (\E c \in Chars : Insert(c)) \/ Backspace \/ Delete \/ Move \/ Clear

Spec == Init /\ [][Next]_<<text, cursor>>
=============================================================================
