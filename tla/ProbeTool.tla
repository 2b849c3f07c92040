----------------------------- MODULE ProbeTool -----------------------------
(***************************************************************************)
(* The skeleton shared by the libbpf tools (execguard, filewatch,          *)
(* filewatch_broad, privwatch, procwatch and the cam_* tools).             *)
(*                                                                         *)
(* Kernel side: a BPF program runs on the CPU where its hook fires.  It    *)
(* reads its timestamp, reserves a record of the BPF ring buffer (and      *)
(* returns at once when the ring is full), fills the record and submits    *)
(* or discards it.  Programs of different CPUs interleave; the ring hands  *)
(* out records in reservation order.                                       *)
(*                                                                         *)
(* User side: main() opens, loads and attaches the skeleton, creates the   *)
(* ring_buffer and polls it until a signal sets the stop flag; handle_event *)
(* is called for each submitted record, in ring order, and the consumer    *)
(* never passes a record that is still being filled.                       *)
(*                                                                         *)
(* The ring buffer itself (kernel/bpf/ringbuf.c and libbpf's consumer) is  *)
(* not in the repository and is modelled from its use.                     *)
(***************************************************************************)
EXTENDS Naturals, Sequences, FiniteSets

CONSTANTS
  CPUs,      \* the CPUs the hooks fire on
  RbSize,    \* records the ring buffer has room for
  MaxPerCpu  \* bound of the model: events fired per CPU

ASSUME RbAssumption ==
  /\ RbSize \in Nat \ {0}
  /\ MaxPerCpu \in Nat

VARIABLES
  loop,      \* what the poll loop does on -EINTR: "break" or "continue"
  upc,       \* where main() is
  stop,      \* the flag set by the SIGINT / SIGTERM handler
  attached,  \* the skeleton's programs are attached to their hooks
  prog,      \* prog[c]: the BPF program running on CPU c
  fired,     \* fired[c]: events that happened on CPU c
  prod,      \* producer position of the ring buffer
  cons,      \* consumer position: records up to here have been released
  rec,       \* the records between cons and prod
  handled,   \* events given to handle_event, in order
  latest,    \* latest[c]: number of the last event of c given to handle_event
  dropped,   \* events whose reservation failed
  discarded  \* events whose record was discarded

userVars == <<upc, stop>>
ringVars == <<prod, rec, cons>>
histVars == <<handled, latest, dropped, discarded>>
vars == <<loop, upc, stop, attached, prog, fired, prod, cons, rec,
          handled, latest, dropped, discarded>>

Idle == [pc |-> "idle", pos |-> 0]
Polling == {"check", "poll", "drain"}
Leaving == {"free", "destroy", "exit"}
UserPc == {"open", "load", "attach", "newrb"} \cup Polling \cup Leaving

(* The event the program on CPU c is handling. *)
Current(c) == <<c, fired[c]>>

Init ==
  /\ loop \in {"break", "continue"}
  /\ upc = "open"
  /\ stop = FALSE /\ attached = FALSE
  /\ prog = [c \in CPUs |-> Idle]
  /\ fired = [c \in CPUs |-> 0]
  /\ prod = 0 /\ cons = 0 /\ rec = [p \in 1..0 |-> [ev |-> <<>>, st |-> "busy"]]
  /\ handled = <<>>
  /\ latest = [c \in CPUs |-> 0]
  /\ dropped = {} /\ discarded = {}

-----------------------------------------------------------------------------
(* Kernel side.                                                            *)

(* The hook fires on CPU c and the program reads the clock. *)
Enter(c) ==
  /\ attached
  /\ prog[c].pc = "idle"
  /\ fired[c] < MaxPerCpu
  /\ fired' = [fired EXCEPT ![c] = @ + 1]
  /\ prog' = [prog EXCEPT ![c] = [pc |-> "entered", pos |-> 0]]
  /\ UNCHANGED <<loop, attached, userVars, ringVars, histVars>>

(* bpf_ringbuf_reserve returns NULL: the program returns and the event is  *)
(* gone.                                                                   *)
ReserveFails(c) ==
  /\ prog[c].pc = "entered"
  /\ prod - cons = RbSize
  /\ prog' = [prog EXCEPT ![c] = Idle]
  /\ dropped' = dropped \cup {Current(c)}
  /\ UNCHANGED <<loop, attached, fired, userVars, ringVars, handled, latest, discarded>>

(* Fault: the ring is written past the consumer. *)
ReserveUnchecked(c) ==
  /\ prog[c].pc = "entered"
  /\ prod - cons <= RbSize
  /\ prod' = prod + 1
  /\ rec' = [p \in (cons + 1)..(prod + 1) |->
               IF p = prod + 1 THEN [ev |-> Current(c), st |-> "busy"] ELSE rec[p]]
  /\ prog' = [prog EXCEPT ![c] = [pc |-> "filling", pos |-> prod + 1]]
  /\ UNCHANGED <<loop, attached, fired, userVars, cons, histVars>>

(* bpf_ringbuf_reserve gives the next record, marked busy. *)
Reserve(c) ==
  /\ prog[c].pc = "entered"
  /\ prod - cons < RbSize
  /\ prod' = prod + 1
  /\ rec' = [p \in (cons + 1)..(prod + 1) |->
               IF p = prod + 1 THEN [ev |-> Current(c), st |-> "busy"] ELSE rec[p]]
  /\ prog' = [prog EXCEPT ![c] = [pc |-> "filling", pos |-> prod + 1]]
  /\ UNCHANGED <<loop, attached, fired, userVars, cons, histVars>>

(* Fault: an early return leaves the record reserved. *)
DiscardForgotten(c) ==
  /\ prog[c].pc = "filling"
  /\ prog' = [prog EXCEPT ![c] = Idle]
  /\ discarded' = discarded \cup {Current(c)}
  /\ UNCHANGED <<loop, attached, fired, userVars, ringVars, handled, latest, dropped>>

(* The record is complete: bpf_ringbuf_submit. *)
Submit(c) ==
  /\ prog[c].pc = "filling"
  /\ rec' = [rec EXCEPT ![prog[c].pos].st = "ready"]
  /\ prog' = [prog EXCEPT ![c] = Idle]
  /\ UNCHANGED <<loop, attached, fired, userVars, prod, cons, histVars>>

(* The program gives the record up: bpf_ringbuf_discard. *)
Discard(c) ==
  /\ prog[c].pc = "filling"
  /\ rec' = [rec EXCEPT ![prog[c].pos].st = "discarded"]
  /\ prog' = [prog EXCEPT ![c] = Idle]
  /\ discarded' = discarded \cup {Current(c)}
  /\ UNCHANGED <<loop, attached, fired, userVars, prod, cons, handled, latest, dropped>>

-----------------------------------------------------------------------------
(* User side: main().                                                      *)

kernelVars == <<prog, fired, prod, cons, rec, histVars>>

Goto(from, to) == upc = from /\ upc' = to

(* A start-up call succeeds: skeleton open, load, attach, ring_buffer__new. *)
Open == Goto("open", "load") /\ UNCHANGED <<loop, stop, attached, kernelVars>>
Load == Goto("load", "attach") /\ UNCHANGED <<loop, stop, attached, kernelVars>>

Attach ==
  /\ Goto("attach", "newrb")
  /\ attached' = TRUE
  /\ UNCHANGED <<loop, stop, kernelVars>>

NewRingBuffer ==
  /\ Goto("newrb", "check")
  /\ UNCHANGED <<loop, stop, attached, kernelVars>>

(* Fault: a failed ring_buffer__new returns without the cleanup. *)
StartFailsNoCleanup ==
  /\ upc \in {"open", "load", "attach", "newrb"}
  /\ upc' = IF upc \in {"open", "newrb"} THEN "exit" ELSE "destroy"
  /\ attached' \in IF upc = "attach" THEN BOOLEAN ELSE {attached}
  /\ UNCHANGED <<loop, stop, kernelVars>>

(* A start-up call fails.  A failed open returns at once; every later one  *)
(* goes to the cleanup label, where rb is still NULL.  A failed attach may *)
(* have attached some of the programs.                                     *)
StartFails ==
  /\ upc \in {"open", "load", "attach", "newrb"}
  /\ upc' = IF upc = "open" THEN "exit" ELSE "destroy"
  /\ attached' \in IF upc = "attach" THEN BOOLEAN ELSE {attached}
  /\ UNCHANGED <<loop, stop, kernelVars>>

(* Fault: the flag is not looked at again. *)
CheckStopMissing ==
  /\ Goto("check", "poll")
  /\ UNCHANGED <<loop, stop, attached, kernelVars>>

(* while (!stop) *)
CheckStop ==
  /\ upc = "check"
  /\ upc' = IF stop THEN "free" ELSE "poll"
  /\ UNCHANGED <<loop, stop, attached, kernelVars>>

(* ring_buffer__poll waits; it returns 0 after its timeout. *)
PollTimeout ==
  /\ cons = prod
  /\ Goto("poll", "check")
  /\ UNCHANGED <<loop, stop, attached, kernelVars>>

(* ring_buffer__poll finds the ring not empty and starts to consume. *)
PollWake ==
  /\ cons < prod
  /\ Goto("poll", "drain")
  /\ UNCHANGED <<loop, stop, attached, kernelVars>>

(* What the loop does when ring_buffer__poll returns -EINTR. *)
AfterEintr == IF loop = "break" THEN "free" ELSE "check"

(* epoll_wait is interrupted although nothing asked the tool to stop (the  *)
(* process was suspended and resumed).  It only waits while the ring is    *)
(* empty.                                                                  *)
PollInterrupted ==
  /\ cons = prod
  /\ Goto("poll", AfterEintr)
  /\ UNCHANGED <<loop, stop, attached, kernelVars>>

(* ring_buffer__poll returns another error. *)
PollError ==
  /\ Goto("poll", "free")
  /\ UNCHANGED <<loop, stop, attached, kernelVars>>

Release(p) == [q \in (p + 1)..prod |-> rec[q]]

(* Fault: the consumer does not stop at a record that is being filled. *)
ConsumeBusyToo ==
  /\ upc = "drain"
  /\ cons < prod
  /\ \E p \in (cons + 1)..prod :
       /\ rec[p].st = "ready"
       /\ cons' = p
       /\ rec' = Release(p)
       /\ handled' = Append(handled, rec[p].ev)
       /\ latest' = [latest EXCEPT ![rec[p].ev[1]] = rec[p].ev[2]]
  /\ UNCHANGED <<loop, userVars, attached, prog, fired, prod, dropped, discarded>>

(* Fault: a record is handled but not released. *)
ConsumeTwice ==
  /\ upc = "drain"
  /\ cons < prod
  /\ rec[cons + 1].st = "ready"
  /\ handled' = Append(handled, rec[cons + 1].ev)
  /\ latest' = [latest EXCEPT ![rec[cons + 1].ev[1]] = rec[cons + 1].ev[2]]
  /\ Len(handled) < 3
  /\ UNCHANGED <<loop, userVars, attached, prog, fired, ringVars, dropped, discarded>>

(* The consumer takes the oldest record: a submitted one goes to           *)
(* handle_event, a discarded one is skipped.                               *)
Consume ==
  /\ upc = "drain"
  /\ cons < prod
  /\ rec[cons + 1].st # "busy"
  /\ cons' = cons + 1
  /\ rec' = Release(cons + 1)
  /\ LET r == rec[cons + 1] IN
       IF r.st = "ready"
         THEN /\ handled' = Append(handled, r.ev)
              /\ latest' = [latest EXCEPT ![r.ev[1]] = r.ev[2]]
         ELSE UNCHANGED <<handled, latest>>
  /\ UNCHANGED <<loop, userVars, attached, prog, fired, prod, dropped, discarded>>

(* The drain ends at a record that is still being filled, and when it finds *)
(* nothing new.  It looks again after everything it took and never at the  *)
(* flag.                                                                   *)
DrainEnd ==
  /\ Goto("drain", "check")
  /\ cons < prod => rec[cons + 1].st = "busy"
  /\ UNCHANGED <<loop, stop, attached, kernelVars>>

(* cleanup: ring_buffer__free, then the skeleton is destroyed, which       *)
(* detaches its programs.                                                  *)
Free ==
  /\ Goto("free", "destroy")
  /\ UNCHANGED <<loop, stop, attached, kernelVars>>

Destroy ==
  /\ Goto("destroy", "exit")
  /\ attached' = FALSE
  /\ UNCHANGED <<loop, stop, kernelVars>>

(* SIGINT or SIGTERM: the handler sets the flag; a poll that is waiting    *)
(* returns -EINTR.                                                         *)
Signal ==
  /\ upc # "exit"
  /\ stop' = TRUE
  /\ upc' = IF upc = "poll" /\ cons = prod THEN AfterEintr ELSE upc
  /\ UNCHANGED <<loop, attached, kernelVars>>

(* SIGKILL: no cleanup code runs; the kernel closes the links and with     *)
(* them detaches the programs.                                             *)
Kill ==
  /\ upc # "exit"
  /\ upc' = "exit"
  /\ attached' = FALSE
  /\ UNCHANGED <<loop, stop, kernelVars>>

ProgStep(c) == ReserveFails(c) \/ Reserve(c) \/ Submit(c) \/ Discard(c)

MainStep ==
  \/ Open \/ Load \/ Attach \/ NewRingBuffer
  \/ CheckStop \/ PollTimeout \/ PollWake \/ Consume \/ DrainEnd
  \/ Free \/ Destroy

Environment == StartFails \/ PollInterrupted \/ PollError \/ Signal \/ Kill

Next ==
  \/ \E c \in CPUs : Enter(c) \/ ProgStep(c)
  \/ MainStep
  \/ Environment

(* What main() does for sure when it is scheduled: everything but leaving a *)
(* drain that has caught up.  By the time the drain looks there may be a   *)
(* new record, and a behaviour that has no events left to fire (MaxPerCpu) *)
(* stands for one where the hooks keep firing.                             *)
Scheduled == MainStep /\ ~(upc = "drain" /\ cons = prod)

(* The scheduler runs main() whenever it can run, and a BPF program, which *)
(* the verifier has shown to terminate, runs to its end.  Hooks, signals   *)
(* and failures are not required to happen.                                *)
Fairness ==
  /\ WF_vars(Scheduled)
  /\ \A c \in CPUs : WF_vars(ProgStep(c))

Spec == Init /\ [][Next]_vars /\ Fairness

-----------------------------------------------------------------------------
(* Properties.                                                             *)

Events == CPUs \X (Nat \ {0})
Records == [ev : Events, st : {"busy", "ready", "discarded"}]

(* Every variable has its type, and the ring never holds more than RbSize  *)
(* records.                                                                *)
TypeOK ==
  /\ loop \in {"break", "continue"}
  /\ upc \in UserPc
  /\ <<stop, attached>> \in BOOLEAN \X BOOLEAN
  /\ prog \in [CPUs -> [pc : {"idle", "entered", "filling"}, pos : Nat]]
  /\ fired \in [CPUs -> Nat]
  /\ prod \in Nat /\ cons \in Nat
  /\ cons <= prod /\ prod <= cons + RbSize
  /\ rec \in [(cons + 1)..prod -> Records]
  /\ handled \in Seq(Events)
  /\ latest \in [CPUs -> Nat]
  /\ dropped \subseteq Events /\ discarded \subseteq Events

ProgramsHoldRecords ==
  \A c \in CPUs :
    /\ latest[c] <= fired[c]
    /\ prog[c].pc # "idle" => latest[c] < fired[c]
    /\ prog[c].pc = "filling" =>
         /\ prog[c].pos \in (cons + 1)..prod
         /\ rec[prog[c].pos] = [ev |-> Current(c), st |-> "busy"]

RecordsAreNew ==
  \A p \in (cons + 1)..prod : \A c \in CPUs : rec[p].ev[1] = c =>
    /\ latest[c] < rec[p].ev[2]
    /\ rec[p].ev[2] <= fired[c]
    /\ prog[c].pc = "entered" => rec[p].ev[2] < fired[c]

RecordsInOrder ==
  \A p, q \in (cons + 1)..prod :
    p < q /\ rec[p].ev[1] = rec[q].ev[1] => rec[p].ev[2] < rec[q].ev[2]

(* What lies between the consumer and the producer: a program that is      *)
(* filling a record holds an unreleased busy one, of its own event; the    *)
(* records of a CPU stand in the order of its events, all of them newer    *)
(* than what handle_event has seen of that CPU.                            *)
RingInv == ProgramsHoldRecords /\ RecordsAreNew /\ RecordsInOrder

(* What can have become of an event. *)
Fates == {"entered", "ring", "handled", "dropped", "discarded"}

HasFate(e, k) ==
  CASE k = "entered" -> prog[e[1]].pc = "entered" /\ e[2] = fired[e[1]]
    [] k = "ring" -> \E p \in (cons + 1)..prod : rec[p].ev = e /\ rec[p].st # "discarded"
    [] k = "handled" -> \E i \in DOMAIN handled : handled[i] = e
    [] k = "dropped" -> e \in dropped
    [] k = "discarded" -> e \in discarded

(* Every event that happened has exactly one fate: its program has not yet *)
(* reserved a record, its record is in the ring, handle_event was given    *)
(* it, or it was dropped or discarded.  Nothing vanishes between the hook  *)
(* and handle_event and nothing is handled twice.                          *)
Accounted ==
  \A c \in CPUs : \A n \in 1..fired[c] :
    Cardinality({k \in Fates : HasFate(<<c, n>>, k)}) = 1

Stream == INSTANCE EventStream

(* handle_event is given real events, at most once each and in the order   *)
(* of each CPU: the tool implements the abstract event stream.             *)
ImplementsStream == Stream!Spec

(* However the tool ends (start-up failure, signal, poll error, SIGKILL),  *)
(* it leaves no program attached to a hook.                                *)
NoProbeLeft == upc = "exit" => ~attached

(* Once the flag is set the tool ends, even when the signal arrives between *)
(* the test of the flag and the poll, unless it never again leaves a drain: *)
(* ring_buffer__poll goes on while records keep coming, whatever the flag  *)
(* says, and that is all that can hold the tool up.                        *)
StopObeyed == stop ~> (upc = "exit" \/ [](upc = "drain"))

InRing(e, st) == \E p \in (cons + 1)..prod : rec[p] = [ev |-> e, st |-> st]
WasHandled(e) == \E i \in DOMAIN handled : handled[i] = e

(* A record that was submitted is given to handle_event unless the tool    *)
(* ends first, even when it was submitted behind a record that another CPU *)
(* was still filling.                                                      *)
SubmittedIsHandled ==
  \A c \in CPUs : \A n \in 1..MaxPerCpu :
    InRing(<<c, n>>, "ready") ~> (WasHandled(<<c, n>>) \/ upc \in Leaving)
=============================================================================
