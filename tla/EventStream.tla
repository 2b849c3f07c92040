---------------------------- MODULE EventStream ----------------------------
(***************************************************************************)
(* What every tool of the repository promises of its event stream: a hook  *)
(* fires on some CPU, and the user-space callback is given events that     *)
(* really happened, each at most once, those of one CPU in the order in    *)
(* which they happened there.  Events may be lost (the probe drops one     *)
(* when its ring buffer is full), and nothing is promised about the order  *)
(* of events of different CPUs.                                            *)
(***************************************************************************)
EXTENDS Naturals, Sequences

CONSTANT CPUs

VARIABLES
  fired,    \* fired[c]: how many events CPU c has produced so far
  latest,   \* latest[c]: the number of the last event of c that was delivered
  handled   \* the sequence of <<c, n>> given to the callback

streamVars == <<fired, latest, handled>>

Init ==
  /\ fired = [c \in CPUs |-> 0]
  /\ latest = [c \in CPUs |-> 0]
  /\ handled = <<>>

(* The hook fires once more on CPU c. *)
Fire(c) ==
  /\ fired' = [fired EXCEPT ![c] = @ + 1]
  /\ UNCHANGED <<latest, handled>>

(* The n-th event of CPU c is delivered; whatever lies between it and the  *)
(* last delivered one is lost for good.                                    *)
Deliver(c, n) ==
  /\ latest[c] < n
  /\ n <= fired[c]
  /\ latest' = [latest EXCEPT ![c] = n]
  /\ handled' = Append(handled, <<c, n>>)
  /\ UNCHANGED fired

Next ==
  \E c \in CPUs :
    \/ Fire(c)
    \/ \E n \in 1..fired[c] : Deliver(c, n)

Spec == Init /\ [][Next]_streamVars
=============================================================================
