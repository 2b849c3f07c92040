----------------------------- MODULE Execguard -----------------------------
(***************************************************************************)
(* execguard's rate counter (execguard/execguard.bpf.c, handle_exec) and   *)
(* the severity that user space derives from it (execguard/execguard.c).   *)
(*                                                                         *)
(* handle_exec runs on every CPU at once.  It looks a (uid, binary) key up *)
(* in a shared hash map and reads and writes the element it finds without  *)
(* any lock or atomic instruction, so every access of the element is a     *)
(* step of its own.                                                        *)
(*                                                                         *)
(* The hash map is kernel code, modelled from its use: its elements are    *)
(* allocated in advance, one more per CPU than it has entries.  An update  *)
(* fills an element that no key has and then publishes it; a replaced      *)
(* element may be filled again at once, for any key, although a program    *)
(* may still hold the pointer that its lookup returned.                    *)
(*                                                                         *)
(* Data: a key is a record of a uid and a name.  Time is a small integer;  *)
(* the unsigned 64-bit difference of the code is taken modulo TimeMod.     *)
(***************************************************************************)
EXTENDS Integers, Sequences, FiniteSets

CONSTANTS
  CPUs,
  Keys,          \* what is executed: records [uid, name]
  Shellish,      \* the names of is_shellish
  AlertShells,   \* those of them that alert for a uid other than 0
  WINDOW,        \* WINDOW_NS
  TimeMod,       \* 2^64 in the code
  ALERT_AT,      \* 20 in the code
  WARN_AT,       \* 12 in the code
  MaxRun,        \* how long a handle_exec may take
  MapSize,       \* max_entries of the map stats, 8192 in the code
  Elems,         \* the elements allocated for stats
  NULL,          \* no element
  MaxTime,       \* bound of the model: the clock
  MaxExecs,      \* bound of the model: executions
  MaxOf          \* bound of the model: executions of each key

ASSUME ExecguardAssumption ==
  /\ IsFiniteSet(CPUs) /\ IsFiniteSet(Elems)
  /\ Cardinality(Elems) = MapSize + Cardinality(CPUs)
  /\ NULL \notin Elems
  /\ \A k \in Keys : k.uid \in Nat
  /\ AlertShells \subseteq Shellish
  /\ WINDOW \in Nat \ {0} /\ MaxTime \in Nat /\ MaxExecs \in Nat /\ MapSize \in Nat
  /\ MaxRun \in Nat /\ MaxOf \in [Keys -> Nat]
  /\ TimeMod \in Nat /\ TimeMod > MaxTime + WINDOW
  /\ WARN_AT \in Nat \ {0} /\ ALERT_AT \in Nat /\ ALERT_AT >= WARN_AT

VARIABLES
  clock,     \* bpf_ktime_get_ns
  prog,      \* what handle_exec is doing on each CPU
  stats,     \* the map: stats[k] is the element of key k, or NULL
  mem,       \* mem[e]: the exec_stat in element e, [start, count]
  execs,     \* history: the executions, in order, [key, now]
  events,    \* history: the records submitted, [key, now, count]
  raced      \* history: keys executed on two CPUs at once, and keys given an
             \* element that a program still held

vars == <<clock, prog, stats, mem, execs, events, raced>>

Idle == [pc |-> "idle"]

(* A running handle_exec: its key, the time it read, the element it looked *)
(* up (or NULL), the count it has computed and the fields still to reset.  *)
Running(k) == [pc |-> "reserve", key |-> k, now |-> clock, st |-> NULL, val |-> 0, todo |-> {}]

Goto(c, p) == prog' = [prog EXCEPT ![c].pc = p]

ExecsOf(k) == {i \in DOMAIN execs : execs[i].key = k}
InFlight(k) == {c \in CPUs : prog[c].pc # "idle" /\ prog[c].key = k}

(* Fault: the counter is kept per uid. *)
SharedKey(k) == CHOOSE q \in Keys : q.uid = k.uid

(* exec_key: uid and binary_path. *)
StatKey(k) == k

Entries == {k \in Keys : stats[k] # NULL}
Unused == Elems \ {stats[k] : k \in Keys}
HasRoom(k) == k \in Entries \/ Cardinality(Entries) < MapSize
Held(e) == \E c \in CPUs : prog[c].pc # "idle" /\ prog[c].st = e
Elem(c) == mem[prog[c].st]

-----------------------------------------------------------------------------
(* severity_for, on the name that handle_exec copied from comm.            *)
severity_for(k, count) ==
  IF k.name \in Shellish
    THEN IF k.name \in AlertShells /\ k.uid # 0 THEN "ALERT" ELSE "WARN"
    ELSE IF count >= ALERT_AT THEN "ALERT"
    ELSE IF count >= WARN_AT THEN "WARN" ELSE "INFO"

-----------------------------------------------------------------------------
(* handle_exec.                                                            *)

Exec(c, k) ==
  /\ prog[c].pc = "idle"
  /\ Len(execs) < MaxExecs /\ Cardinality(ExecsOf(k)) < MaxOf[k]
  /\ prog' = [prog EXCEPT ![c] = Running(k)]
  /\ execs' = Append(execs, [key |-> k, now |-> clock])
  /\ raced' = IF InFlight(k) = {} THEN raced ELSE raced \cup {k}
  /\ UNCHANGED <<clock, stats, mem, events>>

(* No room in the ring buffer: the execution is not counted.  (The buffer  *)
(* is not modelled here: a reservation is one step with what follows it.)  *)
ReserveFails(c) ==
  /\ prog[c].pc = "reserve"
  /\ prog' = [prog EXCEPT ![c] = Idle]
  /\ UNCHANGED <<clock, stats, mem, execs, events, raced>>

(* Fault: the key has bytes that were never set, and is not found again. *)
LookupMisses(c) ==
  /\ prog[c].pc = "reserve"
  /\ Goto(c, "insert")
  /\ UNCHANGED <<clock, stats, mem, execs, events, raced>>

Lookup(c) ==
  /\ prog[c].pc = "reserve"
  /\ LET st == stats[StatKey(prog[c].key)] IN
       prog' = [prog EXCEPT ![c].pc = IF st # NULL THEN "window" ELSE "insert", ![c].st = st]
  /\ UNCHANGED <<clock, stats, mem, execs, events, raced>>

(* bpf_map_update_elem with BPF_ANY: an element inserted meanwhile is      *)
(* replaced; when the map is full nothing is stored and nobody looks.      *)
Insert(c) ==
  LET k == StatKey(prog[c].key) IN
  /\ prog[c].pc = "insert"
  /\ \/ /\ HasRoom(k)
        /\ \E e \in Unused :
             /\ stats' = [stats EXCEPT ![k] = e]
             /\ mem' = [mem EXCEPT ![e] = [start |-> prog[c].now, count |-> 1]]
             /\ raced' = IF Held(e) THEN raced \cup {k} ELSE raced
     \/ ~HasRoom(k) /\ UNCHANGED <<stats, mem, raced>>
  /\ prog' = [prog EXCEPT ![c].pc = "submit", ![c].val = 1]
  /\ UNCHANGED <<clock, execs, events>>

(* Fault: the window is so long that it never ends. *)
WindowOverNever(now, start) == (now - start) % TimeMod > TimeMod - 1

(* now - st->window_start_ns > WINDOW_NS in unsigned arithmetic: a start   *)
(* later than now is a huge difference.                                    *)
WindowOver(now, start) == (now - start) % TimeMod > WINDOW

Window(c) ==
  /\ prog[c].pc = "window"
  /\ prog' = IF WindowOver(prog[c].now, Elem(c).start)
               THEN [prog EXCEPT ![c].pc = "reset", ![c].todo = {"start", "count"}]
               ELSE [prog EXCEPT ![c].pc = "load"]
  /\ UNCHANGED <<clock, stats, mem, execs, events, raced>>

(* The two plain stores of a reset, in either order. *)
Reset(c, f) ==
  /\ prog[c].pc = "reset" /\ f \in prog[c].todo
  /\ mem' = [mem EXCEPT ![prog[c].st][f] = IF f = "start" THEN prog[c].now ELSE 1]
  /\ prog' = [prog EXCEPT ![c].todo = @ \ {f},
                          ![c].pc = IF prog[c].todo = {f} THEN "submit" ELSE "reset",
                          ![c].val = 1]
  /\ UNCHANGED <<clock, stats, execs, events, raced>>

(* st->count++ is a load and a store. *)
Load(c) ==
  /\ prog[c].pc = "load"
  /\ prog' = [prog EXCEPT ![c].pc = "store", ![c].val = Elem(c).count + 1]
  /\ UNCHANGED <<clock, stats, mem, execs, events, raced>>

Store(c) ==
  /\ prog[c].pc = "store"
  /\ mem' = [mem EXCEPT ![prog[c].st].count = prog[c].val]
  /\ Goto(c, "submit")
  /\ UNCHANGED <<clock, stats, execs, events, raced>>

(* e->exec_count = st->count: what the program has just written, or what   *)
(* the element holds now if the compiler reads it again.                   *)
Submit(c) ==
  /\ prog[c].pc = "submit"
  /\ \E count \in {prog[c].val} \cup (IF prog[c].st = NULL THEN {} ELSE {Elem(c).count}) :
       events' = Append(events, [key |-> prog[c].key, now |-> prog[c].now, count |-> count])
  /\ prog' = [prog EXCEPT ![c] = Idle]
  /\ UNCHANGED <<clock, stats, mem, execs, raced>>

(* Only a new execution reads the clock. *)
Tick ==
  /\ clock < MaxTime /\ Len(execs) < MaxExecs
  /\ clock' = clock + 1
  /\ \A c \in CPUs : prog[c].pc # "idle" => clock' - prog[c].now <= MaxRun
  /\ UNCHANGED <<prog, stats, mem, execs, events, raced>>

-----------------------------------------------------------------------------
Init ==
  /\ clock = 0
  /\ prog = [c \in CPUs |-> Idle]
  /\ stats = [k \in Keys |-> NULL]
  /\ mem = [e \in Elems |-> [start |-> 0, count |-> 0]]
  /\ execs = <<>> /\ events = <<>>
  /\ raced = {}

handle_exec(c) ==
  \/ ReserveFails(c) \/ Lookup(c) \/ Insert(c) \/ Window(c)
  \/ \E f \in {"start", "count"} : Reset(c, f)
  \/ Load(c) \/ Store(c) \/ Submit(c)

Next ==
  \/ Tick
  \/ \E c \in CPUs : handle_exec(c) \/ \E k \in Keys : Exec(c, k)

Spec == Init /\ [][Next]_vars

-----------------------------------------------------------------------------
(* Properties.                                                             *)

EventsOf(k) == {i \in DOMAIN events : events[i].key = k}

(* The keys whose programs may write to the elements of k. *)
Group(k) == IF k \in raced THEN raced ELSE {k}
ExecsIn(G) == {i \in DOMAIN execs : execs[i].key \in G}

(* handle_exec: an update lost between two CPUs may lose an execution but  *)
(* never invents one.  No record reports more executions of its key than   *)
(* there have been, or, once another program had a hand in the element     *)
(* that counts the key, than there have been of all the keys that raced:   *)
(* through an element filled again for another key a program does count    *)
(* its execution for that key.                                             *)
NoOvercount ==
  \A i \in DOMAIN events : events[i].count <= Cardinality(ExecsIn(Group(events[i].key)))

(* The executions of k between two times. *)
Between(k, t, u) == Cardinality({i \in ExecsOf(k) : execs[i].now \in t..u})

(* No false alarm: unless two CPUs executed the key at the same time, or   *)
(* the key got an element that a program still held, what is reported did  *)
(* happen within the window (execs of other keys, drops and a full map     *)
(* included).                                                              *)
CountSound ==
  \A i \in DOMAIN events :
    LET e == events[i] IN
      e.key \notin raced => e.count <= Between(e.key, e.now - WINDOW, e.now)

(* Of any n records of a key that came within WINDOW one alerts, if the    *)
(* map has room for the key, the name is rated by its count, no two CPUs   *)
(* executed the key at once and no program still held its element.         *)
Alerted(n) ==
  \A k \in Entries \ raced, t \in 0..MaxTime :
    LET burst == {i \in EventsOf(k) : events[i].now \in t..(t + WINDOW)} IN
      /\ k.name \notin Shellish
      /\ Cardinality(burst) >= n
      => \E i \in burst : severity_for(k, events[i].count) = "ALERT"

(* The window that handle_exec keeps does not slide, so its end can split  *)
(* a burst; a burst of almost twice the rate is always noticed.            *)
BurstDetected == Alerted(2 * ALERT_AT - 1)
=============================================================================
