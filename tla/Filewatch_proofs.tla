-------------------------- MODULE Filewatch_proofs --------------------------
(***************************************************************************)
(* Proofs about Filewatch, for any number of watchers, in any mixture of   *)
(* the two tools and of terminals and files, and rings and buffers of any  *)
(* size.  That no watcher records itself rests on the order of main(): the *)
(* pid is in the map before the first probe is attached, and stays there   *)
(* for as long as one is (PidBeforeProbes).                                *)
(***************************************************************************)
EXTENDS Filewatch, TLAPS

USE FilewatchAssumption

Types ==
  /\ tool \in [Watchers -> {"filewatch", "filewatch_broad"}]
  /\ stdout \in [Watchers -> {"tty", "file"}]
  /\ pc \in [Watchers -> {"load", "ignore", "attach", "newrb", "banner", "banner2", "poll",
                          "cleanup", "flush", "exit"}]
  /\ ignore_pid \in [Watchers -> SUBSET Watchers]
  /\ attached \subseteq Watchers
  /\ events \in [Watchers -> Seq(Watchers \cup {App})]
  /\ unwritten \in [Watchers -> Nat]
  /\ ops \in Nat

(* A watcher that has a probe attached ignores its own pid and no other,   *)
(* and has its probes attached while it prints and polls.                  *)
PidBeforeProbes ==
  \A w \in Watchers :
    /\ pc[w] \in {"load", "ignore"} => w \notin attached
    /\ pc[w] = "attach" \/ w \in attached => w \in ignore_pid[w]
    /\ ignore_pid[w] \subseteq {w}
    /\ pc[w] \in {"newrb", "banner", "banner2", "poll"} => w \in attached

(* Rings in which no watcher has a record of its own. *)
Clean(evs) ==
  /\ evs \in [Watchers -> Seq(Watchers \cup {App})]
  /\ \A w \in Watchers : \A i \in 1..Len(evs[w]) : evs[w][i] # w

-----------------------------------------------------------------------------
(* Lemmas on the operators.                                                *)

(* A record of another pid may be appended. *)
LEMMA AppendClean ==
  ASSUME NEW w \in Watchers, NEW pid \in Watchers \cup {App}, pid # w,
         NEW s \in Seq(Watchers \cup {App}), \A i \in 1..Len(s) : s[i] # w
  PROVE  /\ Append(s, pid) \in Seq(Watchers \cup {App})
         /\ \A i \in 1..Len(Append(s, pid)) : Append(s, pid)[i] # w
<1>1. Append(s, pid) \in Seq(Watchers \cup {App}) /\ Len(Append(s, pid)) = Len(s) + 1
  OBVIOUS
<1>2. ASSUME NEW i \in 1..Len(Append(s, pid)) PROVE Append(s, pid)[i] # w
  <2>1. CASE i = Len(s) + 1
    BY <2>1
  <2>2. CASE i \in 1..Len(s)
    BY <2>2
  <2> QED
    BY <1>1, <2>1, <2>2
<1> QED
  BY <1>1, <1>2

(* submit_event: what any process does to the rings keeps them free of     *)
(* own records, if every attached watcher ignores itself.                  *)
LEMMA AfterOpClean ==
  ASSUME Types, PidBeforeProbes, NEW evs, Clean(evs),
         NEW pid \in Watchers \cup {App}, NEW regular \in BOOLEAN
  PROVE  Clean(AfterOp(evs, pid, regular))
<1> DEFINE new == AfterOp(evs, pid, regular)
<1>1. ASSUME NEW w \in Watchers
      PROVE  /\ new[w] \in Seq(Watchers \cup {App})
             /\ \A i \in 1..Len(new[w]) : new[w][i] # w
  <2>1. evs[w] \in Seq(Watchers \cup {App}) /\ \A i \in 1..Len(evs[w]) : evs[w][i] # w
    BY DEF Clean
  <2>2. CASE Submitted(w, pid, regular)
    <3>1. pid # w
      BY <2>2 DEF Submitted, should_ignore_self, PidBeforeProbes
    <3>2. new[w] = Append(evs[w], pid)
      BY <2>2 DEF AfterOp
    <3> QED
      BY <2>1, <3>1, <3>2, AppendClean
  <2>3. CASE ~Submitted(w, pid, regular)
    BY <2>1, <2>3 DEF AfterOp
  <2> QED
    BY <2>2, <2>3
<1>2. new \in [Watchers -> Seq(Watchers \cup {App})]
  BY <1>1 DEF AfterOp
<1> HIDE DEF new
<1>3. Clean(new)
  BY <1>1, <1>2 DEF Clean
<1> QED
  BY <1>3 DEF new

(* A consumed record leaves the others. *)
LEMMA TailClean ==
  ASSUME NEW w \in Watchers, Clean(events), events[w] # <<>>
  PROVE  Clean([events EXCEPT ![w] = Tail(@)])
<1> DEFINE new == [events EXCEPT ![w] = Tail(@)]
<1>1. Tail(events[w]) \in Seq(Watchers \cup {App})
  BY DEF Clean
<1>2. \A i \in 1..Len(Tail(events[w])) : Tail(events[w])[i] # w
  BY DEF Clean
<1>3. /\ new \in [Watchers -> Seq(Watchers \cup {App})]
      /\ new[w] = Tail(events[w]) /\ \A v \in Watchers : v # w => new[v] = events[v]
  BY <1>1 DEF Clean
<1> HIDE DEF new
<1>4. Clean(new)
  BY <1>2, <1>3 DEF Clean
<1> QED
  BY <1>4 DEF new

(* printf keeps the rings free of own records. *)
LEMMA PrintClean ==
  ASSUME Types, PidBeforeProbes, NEW w \in Watchers, NEW evs, Clean(evs), PrintLine(w, evs)
  PROVE  Clean(events') /\ unwritten' \in [Watchers -> Nat]
<1>1. Clean(AfterOp(evs, w, TRUE)) /\ Clean(AfterOp(evs, w, FALSE))
  BY AfterOpClean
<1>2. events' = evs \/ events' = AfterOp(evs, w, TRUE) \/ events' = AfterOp(evs, w, FALSE)
  BY DEF PrintLine
<1>3. unwritten' \in [Watchers -> Nat]
  <2>1. \/ unwritten' = unwritten
        \/ unwritten' = [unwritten EXCEPT ![w] = 0]
        \/ unwritten' = [unwritten EXCEPT ![w] = @ + 1]
    BY DEF PrintLine
  <2>2. unwritten \in [Watchers -> Nat]
    BY DEF Types
  <2> QED
    BY <2>1, <2>2
<1> QED
  BY <1>1, <1>2, <1>3

LEMMA CleanIsNoSelfRecord ==
  ASSUME Clean(events)
  PROVE  NoSelfRecord
<1>1. ASSUME NEW w \in Watchers PROVE DOMAIN events[w] = 1..Len(events[w])
  BY DEF Clean
<1> QED
  BY <1>1 DEF Clean, NoSelfRecord

-----------------------------------------------------------------------------
Inductive == Types /\ PidBeforeProbes /\ Clean(events)

(* The rings, step by step. *)
LEMMA NextClean ==
  ASSUME Inductive, Next
  PROVE  Clean(events') /\ unwritten' \in [Watchers -> Nat]
<1> USE DEF Inductive
<1>1. ASSUME NEW regular \in BOOLEAN, AppOp(regular)
      PROVE  Clean(events') /\ unwritten' \in [Watchers -> Nat]
  <2>1. events' = AfterOp(events, App, regular) /\ unwritten' = unwritten
    BY <1>1 DEF AppOp
  <2>2. Clean(AfterOp(events, App, regular))
    BY AfterOpClean
  <2> QED
    BY <2>1, <2>2 DEF Types
<1>2. ASSUME NEW w \in Watchers, MainStep(w) \/ StartFails(w) \/ LeaveLoop(w)
      PROVE  Clean(events') /\ unwritten' \in [Watchers -> Nat]
  <2>0. Clean(AfterOp(events, w, TRUE)) /\ Clean(AfterOp(events, w, FALSE))
    BY AfterOpClean
  <2>1. CASE Load(w) \/ SetIgnorePid(w) \/ Attach(w) \/ NewRingBuffer(w)
    BY <2>1 DEF Load, SetIgnorePid, Attach, NewRingBuffer, Types
  <2>2. CASE Banner(w)
    BY <2>2, PrintClean DEF Banner
  <2>3. CASE HandleEvent(w)
    <3>1. PICK evs : evs = [events EXCEPT ![w] = Tail(@)]
      OBVIOUS
    <3>2. Clean(evs)
      BY <2>3, <3>1, TailClean DEF HandleEvent
    <3>3. PrintLine(w, evs)
      BY <2>3, <3>1 DEF HandleEvent
    <3> QED
      BY <3>2, <3>3, PrintClean
  <2>4. CASE StartFails(w) \/ LeaveLoop(w)
    <3>1. unwritten' = unwritten /\ (events' = events \/ events' = AfterOp(events, w, FALSE))
      BY <2>4 DEF StartFails, LeaveLoop
    <3> QED
      BY <2>0, <3>1 DEF Types
  <2>5. CASE Cleanup(w)
    <3>1. unwritten' = unwritten /\ events' = [events EXCEPT ![w] = <<>>]
      BY <2>5 DEF Cleanup
    <3>2. events' \in [Watchers -> Seq(Watchers \cup {App})]
      BY <3>1 DEF Clean
    <3>3. events'[w] = <<>> /\ \A v \in Watchers : v # w => events'[v] = events[v]
      BY <3>1 DEF Clean
    <3>4. \A v \in Watchers : \A i \in 1..Len(events'[v]) : events'[v][i] # v
      <4>1. 1..Len(events'[w]) = {}
        BY <3>3
      <4> QED
        BY <3>3, <4>1 DEF Clean
    <3>5. Clean(events')
      BY <3>2, <3>4 DEF Clean
    <3> QED
      BY <3>1, <3>5 DEF Types
  <2>6. CASE Exit(w)
    <3>1. events' = events \/ events' = AfterOp(events, w, TRUE)
      BY <2>6 DEF Exit
    <3>2. unwritten' = [unwritten EXCEPT ![w] = 0] /\ unwritten \in [Watchers -> Nat]
      BY <2>6 DEF Exit, Types
    <3>3. Clean(events')
      BY <2>0, <3>1
    <3> QED
      BY <3>2, <3>3
  <2> QED
    BY <1>2, <2>1, <2>2, <2>3, <2>4, <2>5, <2>6 DEF MainStep
<1> QED
  BY <1>1, <1>2 DEF Next

(* The program counters, the pids and the probes. *)
LEMMA NextOrder ==
  ASSUME Types, PidBeforeProbes, Next
  PROVE  /\ PidBeforeProbes'
         /\ pc' \in [Watchers -> {"load", "ignore", "attach", "newrb", "banner", "banner2", "poll",
                                  "cleanup", "flush", "exit"}]
         /\ ignore_pid' \in [Watchers -> SUBSET Watchers]
         /\ attached' \subseteq Watchers
         /\ ops' \in Nat /\ tool' = tool /\ stdout' = stdout
<1>1. ASSUME NEW regular \in BOOLEAN, AppOp(regular)
      PROVE  UNCHANGED <<pc, ignore_pid, attached, tool, stdout>> /\ ops' \in Nat
  BY <1>1 DEF AppOp, config, Types
<1>2. ASSUME NEW w \in Watchers, MainStep(w) \/ StartFails(w) \/ LeaveLoop(w)
      PROVE  /\ PidBeforeProbes'
             /\ pc' \in [Watchers -> {"load", "ignore", "attach", "newrb", "banner", "banner2",
                                      "poll", "cleanup", "flush", "exit"}]
             /\ ignore_pid' \in [Watchers -> SUBSET Watchers]
             /\ attached' \subseteq Watchers
             /\ ops' \in Nat /\ tool' = tool /\ stdout' = stdout
  <2>1. CASE Load(w) \/ NewRingBuffer(w) \/ Banner(w) \/ LeaveLoop(w) \/ Exit(w)
    <3>1. /\ UNCHANGED <<ignore_pid, attached, ops, tool, stdout>>
          /\ \E to \in {"ignore", "banner", "banner2", "poll", "cleanup", "exit"} :
               /\ pc' = [pc EXCEPT ![w] = to]
               /\ to = "ignore" => pc[w] = "load"
               /\ to \in {"banner", "banner2", "poll"} => pc[w] \in {"newrb", "banner", "banner2"}
      BY <2>1 DEF Load, NewRingBuffer, Banner, LeaveLoop, Exit, Goto, config
    <3> QED
      BY <3>1 DEF Types, PidBeforeProbes
  <2>2. CASE SetIgnorePid(w)
    BY <2>2 DEF SetIgnorePid, Goto, Types, PidBeforeProbes, config
  <2>3. CASE Attach(w)
    BY <2>3 DEF Attach, Goto, Types, PidBeforeProbes, config
  <2>4. CASE HandleEvent(w)
    BY <2>4 DEF HandleEvent, Types, PidBeforeProbes, config
  <2>5. CASE StartFails(w)
    BY <2>5 DEF StartFails, Types, PidBeforeProbes, config
  <2>6. CASE Cleanup(w)
    BY <2>6 DEF Cleanup, Goto, Types, PidBeforeProbes, config
  <2> QED
    BY <1>2, <2>1, <2>2, <2>3, <2>4, <2>5, <2>6 DEF MainStep
<1> QED
  <2>1. CASE \E regular \in BOOLEAN : AppOp(regular)
    BY <1>1, <2>1 DEF Types, PidBeforeProbes
  <2>2. CASE \E w \in Watchers : MainStep(w) \/ StartFails(w) \/ LeaveLoop(w)
    BY <1>2, <2>2
  <2> QED
    BY <2>1, <2>2 DEF Next

LEMMA InductiveInit == Init => Inductive
<1> SUFFICES ASSUME Init PROVE Inductive
  OBVIOUS
<1>1. Clean(events)
  <2>1. \A w \in Watchers : events[w] = <<>> /\ events[w] \in Seq(Watchers \cup {App})
    BY DEF Init
  <2>2. events \in [Watchers -> Seq(Watchers \cup {App})]
    BY <2>1 DEF Init
  <2> QED
    BY <2>1, <2>2 DEF Clean
<1> QED
  BY <1>1 DEF Init, Inductive, Types, PidBeforeProbes, Clean

LEMMA InductiveNext == Inductive /\ [Next]_vars => Inductive'
<1> SUFFICES ASSUME Inductive, [Next]_vars PROVE Inductive'
  OBVIOUS
<1>1. CASE UNCHANGED vars
  BY <1>1 DEF vars, Inductive, Types, PidBeforeProbes, Clean
<1>2. CASE Next
  <2>1. Clean(events') /\ unwritten' \in [Watchers -> Nat]
    BY <1>2, NextClean
  <2>2. Types' /\ PidBeforeProbes'
    BY <1>2, <2>1, NextOrder DEF Inductive, Types, Clean
  <2> QED
    BY <2>1, <2>2 DEF Inductive, Clean
<1> QED
  BY <1>1, <1>2

LEMMA InductiveAlways == Spec => []Inductive
BY InductiveInit, InductiveNext, PTL DEF Spec

(* should_ignore_self, for any number of watchers printing to each other's *)
(* view, with failed starts and stops in any order: none of them ever has  *)
(* a record of what it did itself.                                         *)
THEOREM NeverRecordsItself == Spec => []NoSelfRecord
<1>1. Inductive => NoSelfRecord
  BY CleanIsNoSelfRecord DEF Inductive
<1> QED
  BY <1>1, InductiveAlways, PTL
-----------------------------------------------------------------------------
(* Echoes.                                                                 *)

(* An operation never empties a ring, and fills the ring of a polling      *)
(* watcher of all files if another process did it.                         *)
LEMMA AfterOpGrows ==
  ASSUME Inductive, NEW evs \in [Watchers -> Seq(Watchers \cup {App})],
         NEW pid \in Watchers \cup {App}, NEW regular \in BOOLEAN, NEW v \in Watchers
  PROVE  /\ evs[v] # <<>> => AfterOp(evs, pid, regular)[v] # <<>>
         /\ tool[v] = "filewatch_broad" /\ pc[v] = "poll" /\ pid # v /\ evs[v] = events[v] =>
              AfterOp(evs, pid, regular)[v] # <<>>
<1>1. AfterOp(evs, pid, regular)[v] =
        IF Submitted(v, pid, regular) THEN Append(evs[v], pid) ELSE evs[v]
  BY DEF AfterOp
<1>2. evs[v] \in Seq(Watchers \cup {App}) /\ Append(evs[v], pid) # <<>>
  <2>1. evs[v] \in Seq(Watchers \cup {App})
    OBVIOUS
  <2>2. Len(Append(evs[v], pid)) = Len(evs[v]) + 1 /\ Len(evs[v]) \in Nat
    BY <2>1
  <2>3. ASSUME Append(evs[v], pid) = <<>> PROVE Len(Append(evs[v], pid)) = 0
    BY <2>3
  <2> QED
    BY <2>1, <2>2, <2>3
<1>3. ASSUME tool[v] = "filewatch_broad", pc[v] = "poll", pid # v, evs[v] = events[v]
      PROVE  Submitted(v, pid, regular) \/ evs[v] # <<>>
  <2>1. v \in attached /\ ~should_ignore_self(v, pid) /\ Reported(v, regular)
    BY <1>3 DEF Inductive, PidBeforeProbes, should_ignore_self, Reported
  <2>2. evs[v] = <<>> => Len(events[v]) < RbSize
    <3>1. ASSUME events[v] = <<>> PROVE Len(events[v]) = 0
      BY <3>1
    <3> QED
      BY <1>3, <3>1
  <2> QED
    BY <2>1, <2>2 DEF Submitted
<1> QED
  BY <1>1, <1>2, <1>3

(* What EchoesForever says of one step. *)
EchoStep ==
  \A w, v \in Watchers :
    Echoing(w, v) /\ pc[w] = "poll" /\ pc[v] = "poll" /\ UNCHANGED pc
    /\ (events[w] # <<>> \/ events[v] # <<>>)
    => events'[w] # <<>> \/ events'[v] # <<>>

(* A watcher that prints to a terminal writes at once. *)
LEMMA HandleEchoes ==
  ASSUME Inductive, NEW x \in Watchers, HandleEvent(x),
         NEW w \in Watchers, NEW v \in Watchers,
         Echoing(w, v), pc[w] = "poll", pc[v] = "poll",
         events[w] # <<>> \/ events[v] # <<>>
  PROVE  events'[w] # <<>> \/ events'[v] # <<>>
<1>0. PICK evs : evs = [events EXCEPT ![x] = Tail(@)]
  OBVIOUS
<1>1. PrintLine(x, evs) /\ events[x] # <<>>
  BY <1>0 DEF HandleEvent
<1>2. events \in [Watchers -> Seq(Watchers \cup {App})]
  BY DEF Inductive, Clean
<1>3. evs \in [Watchers -> Seq(Watchers \cup {App})] /\ \A y \in Watchers : y # x => evs[y] = events[y]
  <2>1. Tail(events[x]) \in Seq(Watchers \cup {App})
    BY <1>1, <1>2
  <2> QED
    BY <1>0, <1>2, <2>1
<1>4. events' = evs \/ events' = AfterOp(evs, x, TRUE) \/ events' = AfterOp(evs, x, FALSE)
  BY <1>1 DEF PrintLine
<1>5. ASSUME NEW y \in Watchers, y # x, events[y] # <<>> PROVE events'[y] # <<>>
  <2>1. evs[y] # <<>>
    BY <1>3, <1>5
  <2>2. AfterOp(evs, x, TRUE)[y] # <<>> /\ AfterOp(evs, x, FALSE)[y] # <<>>
    BY <1>3, <2>1, AfterOpGrows
  <2> QED
    BY <1>4, <2>1, <2>2
<1>6. ASSUME NEW y \in Watchers, y # x, stdout[x] = "tty",
             tool[y] = "filewatch_broad", pc[y] = "poll"
      PROVE  events'[y] # <<>>
  <2>1. events' = AfterOp(evs, x, FALSE)
    BY <1>1, <1>6 DEF PrintLine
  <2>2. evs[y] = events[y]
    BY <1>3, <1>6
  <2> QED
    BY <1>3, <1>6, <2>1, <2>2, AfterOpGrows
<1>7. CASE x = w
  BY <1>6, <1>7 DEF Echoing
<1>8. CASE x = v
  BY <1>6, <1>8 DEF Echoing
<1>9. CASE x # w /\ x # v
  BY <1>5, <1>9
<1> QED
  BY <1>7, <1>8, <1>9

LEMMA NextEchoes == Inductive /\ [Next]_vars => EchoStep
<1> SUFFICES ASSUME Inductive, [Next]_vars, NEW w \in Watchers, NEW v \in Watchers,
                    Echoing(w, v), pc[w] = "poll", pc[v] = "poll", pc' = pc,
                    events[w] # <<>> \/ events[v] # <<>>
             PROVE  events'[w] # <<>> \/ events'[v] # <<>>
  BY DEF EchoStep
<1>1. events \in [Watchers -> Seq(Watchers \cup {App})]
  BY DEF Inductive, Clean
<1>2. ASSUME NEW pid \in Watchers \cup {App}, NEW regular \in BOOLEAN,
             events' = AfterOp(events, pid, regular)
      PROVE  events'[w] # <<>> \/ events'[v] # <<>>
  BY <1>1, <1>2, AfterOpGrows
<1>3. CASE events' = events
  BY <1>3
<1>4. ASSUME NEW regular \in BOOLEAN, AppOp(regular)
      PROVE  events'[w] # <<>> \/ events'[v] # <<>>
  BY <1>2, <1>4 DEF AppOp
<1>5. ASSUME NEW x \in Watchers, MainStep(x) \/ StartFails(x) \/ LeaveLoop(x)
      PROVE  events'[w] # <<>> \/ events'[v] # <<>>
  <2>1. CASE HandleEvent(x)
    BY <2>1, HandleEchoes
  <2>2. CASE Load(x) \/ SetIgnorePid(x) \/ Attach(x) \/ NewRingBuffer(x)
    BY <1>3, <2>2 DEF Load, SetIgnorePid, Attach, NewRingBuffer
  <2>3. CASE Banner(x) \/ StartFails(x) \/ LeaveLoop(x) \/ Exit(x)
    <3>1. \/ events' = events \/ events' = AfterOp(events, x, TRUE)
          \/ events' = AfterOp(events, x, FALSE)
      BY <2>3 DEF Banner, PrintLine, StartFails, LeaveLoop, Exit
    <3> QED
      BY <1>2, <1>3, <3>1
  <2>4. CASE Cleanup(x)
    <3>1. pc[x] = "cleanup" /\ pc'[x] = "flush"
      BY <2>4 DEF Cleanup, Goto, Inductive, Types
    <3> QED
      BY <3>1
  <2> QED
    BY <1>5, <2>1, <2>2, <2>3, <2>4 DEF MainStep
<1>6. CASE UNCHANGED vars
  BY <1>3, <1>6 DEF vars
<1> QED
  BY <1>4, <1>5, <1>6 DEF Next

(* Two filewatch_broad on terminals that have something to report never    *)
(* fall silent: each line of one is a record of the other, for rings of    *)
(* any size and whatever other watchers and programs do.                   *)
THEOREM EchoesNeverEnd == Spec => EchoesForever
<1>1. Inductive /\ [Next]_vars => [EchoStep]_vars
  BY NextEchoes
<1>2. Spec => [][EchoStep]_vars
  BY <1>1, InductiveAlways, PTL DEF Spec
<1> QED
  BY <1>2 DEF EchoStep, EchoesForever
=============================================================================
