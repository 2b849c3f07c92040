-------------------------- MODULE Execguard_proofs --------------------------
(***************************************************************************)
(* Proofs about Execguard, for any CPUs, keys, window, thresholds and map  *)
(* size and any number of executions.                                      *)
(*                                                                         *)
(* Apart says who may reach an element: two keys share one only if both    *)
(* raced, and the programs of a key that did not race reach no element but *)
(* the key's own.                                                          *)
(*                                                                         *)
(* NoOvercount needs besides to know how many programs may still add one   *)
(* to a count: every count, in an element somebody reaches or held by a    *)
(* program, is covered by the executions that no pending program stands    *)
(* for.  CountSound and BurstDetected follow, for a key that never raced,  *)
(* the only program in flight from line to line: what the element of the   *)
(* key counts and which of the records so far belong to its window.        *)
(***************************************************************************)
EXTENDS Execguard, TLAPS, FiniteSetTheorems, FunctionTheorems

(* Where a program stands that has not yet read the count. *)
Before == {"reserve", "window", "load", "insert"}
OnElem == {"window", "reset", "load", "store"}
Pcs == Before \cup {"reset", "store", "submit"}

Values == [start : Nat, count : Nat]
Frames == [pc : Pcs, key : Keys, now : Nat, st : Elems \cup {NULL}, val : Nat,
           todo : SUBSET {"start", "count"}]
Execs == [key : Keys, now : Nat]
Reports == [key : Keys, now : Nat, count : Nat]

Types ==
  /\ clock \in Nat /\ clock <= MaxTime
  /\ execs \in Seq(Execs) /\ events \in Seq(Reports)
  /\ stats \in [Keys -> Elems \cup {NULL}] /\ mem \in [Elems -> Values]
  /\ raced \subseteq Keys
  /\ prog \in [CPUs -> Frames \cup {Idle}]
  /\ \A c \in CPUs : /\ prog[c].pc \in OnElem => prog[c].st # NULL
                     /\ prog[c].pc = "insert" => prog[c].st = NULL

-----------------------------------------------------------------------------
(* A step of handle_exec: the program of CPU c goes from r to r2.          *)

Ran(c, r, r2) ==
  /\ r = prog[c] /\ r2 = prog'[c] /\ prog' = [prog EXCEPT ![c] = r2]
  /\ UNCHANGED <<clock, execs>>

Same(r, r2) == r2.key = r.key /\ r2.now = r.now

DidFail(r, r2) == r.pc = "reserve" /\ r2 = Idle /\ UNCHANGED <<stats, mem, raced, events>>

DidLookup(r, r2) ==
  /\ r.pc = "reserve" /\ r2 \in Frames /\ Same(r, r2) /\ r2.val = r.val
  /\ r2.st = stats[r.key]
  /\ r2.pc = (IF stats[r.key] # NULL THEN "window" ELSE "insert")
  /\ UNCHANGED <<stats, mem, raced, events>>

(* The key gets element e. *)
Fills(r, e) ==
  /\ e \in Unused
  /\ stats' = [stats EXCEPT ![r.key] = e]
  /\ mem' = [mem EXCEPT ![e] = [start |-> r.now, count |-> 1]]
  /\ raced' = (IF Held(e) THEN raced \cup {r.key} ELSE raced)

DidInsert(r, r2) ==
  /\ r.pc = "insert" /\ r2 \in Frames /\ r2.pc = "submit" /\ Same(r, r2)
  /\ r2.st = r.st /\ r2.val = 1
  /\ \/ HasRoom(r.key) /\ \E e \in Elems : Fills(r, e)
     \/ ~HasRoom(r.key) /\ UNCHANGED <<stats, mem, raced>>
  /\ UNCHANGED events

DidWindow(r, r2) ==
  /\ r.pc = "window" /\ r2 \in Frames /\ Same(r, r2) /\ r2.st = r.st /\ r2.val = r.val
  /\ \/ /\ WindowOver(r.now, mem[r.st].start)
        /\ r2.pc = "reset" /\ r2.todo = {"start", "count"}
     \/ ~WindowOver(r.now, mem[r.st].start) /\ r2.pc = "load"
  /\ UNCHANGED <<stats, mem, raced, events>>

(* The program writes v to its element. *)
Writes(r, v) == v \in Values /\ mem' = [mem EXCEPT ![r.st] = v]

ResetTo(r, r2, v) ==
  \/ /\ "start" \in r.todo /\ r2.todo = r.todo \ {"start"}
     /\ v.start = r.now /\ v.count = mem[r.st].count
  \/ /\ "count" \in r.todo /\ r2.todo = r.todo \ {"count"}
     /\ v.start = mem[r.st].start /\ v.count = 1

DidReset(r, r2) ==
  /\ r.pc = "reset" /\ r2 \in Frames /\ Same(r, r2) /\ r2.st = r.st /\ r2.val = 1
  /\ r2.pc = (IF r2.todo = {} THEN "submit" ELSE "reset")
  /\ \E v \in Values : Writes(r, v) /\ ResetTo(r, r2, v)
  /\ UNCHANGED <<stats, raced, events>>

DidLoad(r, r2) ==
  /\ r.pc = "load" /\ r2 \in Frames /\ r2.pc = "store" /\ Same(r, r2) /\ r2.st = r.st
  /\ r2.val = mem[r.st].count + 1
  /\ UNCHANGED <<stats, mem, raced, events>>

DidStore(r, r2) ==
  /\ r.pc = "store" /\ r2 \in Frames /\ r2.pc = "submit" /\ Same(r, r2)
  /\ r2.st = r.st /\ r2.val = r.val
  /\ \E v \in Values : Writes(r, v) /\ v.start = mem[r.st].start /\ v.count = r.val
  /\ UNCHANGED <<stats, raced, events>>

DidSubmit(r, r2) ==
  /\ r.pc = "submit" /\ r2 = Idle
  /\ \E n \in Nat : /\ n = r.val \/ (r.st # NULL /\ n = mem[r.st].count)
                    /\ events' = Append(events, [key |-> r.key, now |-> r.now, count |-> n])
  /\ UNCHANGED <<stats, mem, raced>>

Did(r, r2) ==
  \/ DidFail(r, r2) \/ DidLookup(r, r2) \/ DidInsert(r, r2)
  \/ DidWindow(r, r2) \/ DidReset(r, r2) \/ DidLoad(r, r2) \/ DidStore(r, r2) \/ DidSubmit(r, r2)

(* A running program and what it looked up. *)
LEMMA FrameTypes ==
  ASSUME Types, NEW c \in CPUs, prog[c].pc # "idle"
  PROVE  /\ prog[c] \in Frames /\ prog[c].pc \in Pcs /\ prog[c].key \in Keys
         /\ prog[c].now \in Nat /\ prog[c].st \in Elems \cup {NULL} /\ prog[c].val \in Nat
         /\ prog[c].todo \in SUBSET {"start", "count"}
         /\ prog[c].pc \in OnElem => prog[c].st \in Elems
         /\ prog[c].st \in Elems => mem[prog[c].st] \in Values
<1>1. prog[c] \in Frames
  BY DEF Types, Idle
<1>2. prog[c].pc \in OnElem => prog[c].st # NULL
  BY DEF Types
<1>3. prog[c].st \in Elems => mem[prog[c].st] \in Values
  BY DEF Types
<1> QED
  BY <1>1, <1>2, <1>3 DEF Frames

(* Every step of handle_exec is one of these. *)
LEMMA HandleSteps ==
  ASSUME Types, NEW c \in CPUs, handle_exec(c)
  PROVE  \E r \in Frames : \E r2 : Ran(c, r, r2) /\ Did(r, r2)
<1>0. prog[c].pc # "idle"
  BY DEF handle_exec, ReserveFails, Lookup, Insert, Window, Reset, Load, Store, Submit
<1>1. PICK r \in Frames : r = prog[c]
  BY <1>0, FrameTypes
<1>2. /\ r.key \in Keys /\ stats[r.key] \in Elems \cup {NULL}
      /\ r.now \in Nat /\ r.val \in Nat /\ r.st \in Elems \cup {NULL}
      /\ r.todo \in SUBSET {"start", "count"} /\ NULL \notin Elems
      /\ r.pc \in OnElem => r.st \in Elems
      /\ r.st # NULL => mem[r.st] \in Values
  <2>1. stats[prog[c].key] \in Elems \cup {NULL}
    BY <1>0, FrameTypes DEF Types
  <2> QED
    BY <1>0, <1>1, <2>1, FrameTypes, ExecguardAssumption
<1>3. CASE ReserveFails(c)
  <2>1. Ran(c, r, Idle) /\ DidFail(r, Idle)
    BY <1>1, <1>3 DEF ReserveFails, Ran, DidFail, Types
  <2> QED
    BY <2>1 DEF Did
<1>5. CASE Lookup(c)
  <2>0. PICK p \in {"window", "insert"} : p = IF stats[r.key] # NULL THEN "window" ELSE "insert"
    OBVIOUS
  <2>a. PICK l \in Elems \cup {NULL} : l = stats[r.key]
    BY <1>2
  <2>1. PICK r2 : r2 = [r EXCEPT !.pc = p, !.st = l]
    OBVIOUS
  <2>2. prog' = [prog EXCEPT ![c] = r2] /\ prog'[c] = r2
    BY <1>1, <1>5, <2>0, <2>1, <2>a DEF Lookup, StatKey, Types
  <2>3. r2 \in Frames /\ r2.pc = p /\ r2.st = l /\ Same(r, r2) /\ r2.val = r.val
    BY <2>1 DEF Frames, Pcs, Before, Same
  <2>4. Ran(c, r, r2) /\ DidLookup(r, r2)
    BY <1>1, <1>5, <2>0, <2>2, <2>3, <2>a DEF Lookup, Ran, DidLookup
  <2> QED
    BY <2>4 DEF Did
<1>6. CASE Insert(c)
  <2>1. PICK r2 : r2 = [r EXCEPT !.pc = "submit", !.val = 1]
    OBVIOUS
  <2>2. prog' = [prog EXCEPT ![c] = r2] /\ prog'[c] = r2
    BY <1>1, <1>6, <2>1 DEF Insert, Types
  <2>3. r2 \in Frames /\ r2.pc = "submit" /\ Same(r, r2) /\ r2.val = 1 /\ r2.st = r.st
    BY <2>1 DEF Frames, Pcs, Before, Same
  <2>4. \/ HasRoom(r.key) /\ \E e \in Elems : Fills(r, e)
        \/ ~HasRoom(r.key) /\ UNCHANGED <<stats, mem, raced>>
    BY <1>1, <1>6 DEF Insert, StatKey, Fills, Unused
  <2>5. Ran(c, r, r2) /\ DidInsert(r, r2)
    BY <1>1, <1>6, <2>2, <2>3, <2>4 DEF Insert, Ran, DidInsert
  <2> QED
    BY <2>5 DEF Did
<1>7. CASE Window(c)
  <2>0. Elem(c) = mem[r.st]
    BY <1>1 DEF Elem
  <2>1. CASE WindowOver(r.now, mem[r.st].start)
    <3>1. PICK r2 : r2 = [r EXCEPT !.pc = "reset", !.todo = {"start", "count"}]
      OBVIOUS
    <3>2. prog' = [prog EXCEPT ![c] = r2] /\ prog'[c] = r2
      BY <1>1, <1>7, <2>0, <2>1, <3>1 DEF Window, Types
    <3>3. r2 \in Frames /\ r2.pc = "reset" /\ r2.todo = {"start", "count"} /\ Same(r, r2)
          /\ r2.val = r.val /\ r2.st = r.st
      BY <3>1 DEF Frames, Pcs, Before, Same
    <3>4. Ran(c, r, r2) /\ DidWindow(r, r2)
      BY <1>1, <1>7, <2>1, <3>2, <3>3 DEF Window, Ran, DidWindow
    <3> QED
      BY <3>4 DEF Did
  <2>2. CASE ~WindowOver(r.now, mem[r.st].start)
    <3>1. PICK r2 : r2 = [r EXCEPT !.pc = "load"]
      OBVIOUS
    <3>2. prog' = [prog EXCEPT ![c] = r2] /\ prog'[c] = r2
      BY <1>1, <1>7, <2>0, <2>2, <3>1 DEF Window, Types
    <3>3. r2 \in Frames /\ r2.pc = "load" /\ Same(r, r2) /\ r2.val = r.val /\ r2.st = r.st
      BY <3>1 DEF Frames, Pcs, Before, Same
    <3>4. Ran(c, r, r2) /\ DidWindow(r, r2)
      BY <1>1, <1>7, <2>2, <3>2, <3>3 DEF Window, Ran, DidWindow
    <3> QED
      BY <3>4 DEF Did
  <2> QED
    BY <2>1, <2>2
<1>8. ASSUME NEW f \in {"start", "count"}, Reset(c, f)
      PROVE  \E r2 : Ran(c, r, r2) /\ Did(r, r2)
  <2>0. r.pc = "reset" /\ f \in r.todo
    BY <1>1, <1>8 DEF Reset
  <2>a. PICK p \in {"submit", "reset"}, td \in SUBSET {"start", "count"} :
          td = r.todo \ {f} /\ p = IF td = {} THEN "submit" ELSE "reset"
    BY <1>2
  <2>b. td = {} <=> r.todo = {f}
    BY <2>0, <2>a
  <2>1. PICK r2 : r2 = [r EXCEPT !.todo = td, !.pc = p, !.val = 1]
    OBVIOUS
  <2>2. prog' = [prog EXCEPT ![c] = r2] /\ prog'[c] = r2
    BY <1>1, <1>8, <2>1, <2>a, <2>b DEF Reset, Types
  <2>3. r2 \in Frames /\ r2.pc = p /\ r2.todo = td /\ Same(r, r2) /\ r2.val = 1 /\ r2.st = r.st
    BY <2>1 DEF Frames, Pcs, Before, Same
  <2>4. r.st \in Elems /\ mem \in [Elems -> Values]
    BY <1>2, <2>0 DEF OnElem, Types
  <2>5. \E v \in Values : Writes(r, v) /\ ResetTo(r, r2, v)
    <3>1. PICK o \in Values : o = mem[r.st]
      BY <2>4
    <3>2. CASE f = "start"
      <4>1. mem' = [mem EXCEPT ![r.st]["start"] = r.now]
        BY <1>1, <1>8, <3>2 DEF Reset
      <4>2. PICK v : v = [o EXCEPT !["start"] = r.now]
        OBVIOUS
      <4>3. v \in Values /\ v.start = r.now /\ v.count = o.count
        BY <1>2, <4>2 DEF Values
      <4>4. Writes(r, v)
        BY <2>4, <3>1, <4>1, <4>2, <4>3 DEF Writes
      <4> QED
        BY <2>0, <2>3, <2>a, <3>1, <3>2, <4>3, <4>4 DEF ResetTo
    <3>3. CASE f = "count"
      <4>1. mem' = [mem EXCEPT ![r.st]["count"] = 1]
        BY <1>1, <1>8, <3>3 DEF Reset
      <4>2. PICK v : v = [o EXCEPT !["count"] = 1]
        OBVIOUS
      <4>3. v \in Values /\ v.start = o.start /\ v.count = 1
        BY <4>2 DEF Values
      <4>4. Writes(r, v)
        BY <2>4, <3>1, <4>1, <4>2, <4>3 DEF Writes
      <4> QED
        BY <2>0, <2>3, <2>a, <3>1, <3>3, <4>3, <4>4 DEF ResetTo
    <3> QED
      BY <3>2, <3>3
  <2>6. Ran(c, r, r2) /\ DidReset(r, r2)
    BY <1>1, <1>8, <2>0, <2>2, <2>3, <2>5, <2>a DEF Reset, Ran, DidReset
  <2> QED
    BY <2>6 DEF Did
<1>9. CASE Load(c)
  <2>a. PICK o \in Values : o = mem[r.st]
    <3>1. r.st \in Elems
      BY <1>1, <1>2, <1>9 DEF OnElem, Load
    <3> QED
      BY <3>1 DEF Types
  <2>b. o.count + 1 \in Nat
    BY DEF Values
  <2>0. PICK v \in Nat : v = mem[r.st].count + 1
    BY <2>a, <2>b
  <2>1. PICK r2 : r2 = [r EXCEPT !.pc = "store", !.val = v]
    OBVIOUS
  <2>2. prog' = [prog EXCEPT ![c] = r2] /\ prog'[c] = r2
    BY <1>1, <1>9, <2>0, <2>1 DEF Load, Elem, Types
  <2>3. r2 \in Frames /\ r2.pc = "store" /\ Same(r, r2) /\ r2.val = v /\ r2.st = r.st
    BY <2>1 DEF Frames, Pcs, Before, Same
  <2>4. Ran(c, r, r2) /\ DidLoad(r, r2)
    BY <1>1, <1>9, <2>0, <2>2, <2>3 DEF Load, Ran, DidLoad
  <2> QED
    BY <2>4 DEF Did
<1>10. CASE Store(c)
  <2>1. PICK r2 : r2 = [r EXCEPT !.pc = "submit"]
    OBVIOUS
  <2>2. prog' = [prog EXCEPT ![c] = r2] /\ prog'[c] = r2
    BY <1>1, <1>10, <2>1 DEF Store, Goto, Types
  <2>3. r2 \in Frames /\ r2.pc = "submit" /\ Same(r, r2) /\ r2.val = r.val /\ r2.st = r.st
    BY <2>1 DEF Frames, Pcs, Before, Same
  <2>4. r.st \in Elems /\ mem \in [Elems -> Values]
    BY <1>1, <1>2, <1>10 DEF OnElem, Store, Types
  <2>5. \E v \in Values : Writes(r, v) /\ v.start = mem[r.st].start /\ v.count = r.val
    <3>1. PICK o \in Values : o = mem[r.st]
      BY <2>4
    <3>2. mem' = [mem EXCEPT ![r.st].count = r.val]
      BY <1>1, <1>10 DEF Store
    <3>3. PICK v : v = [o EXCEPT !.count = r.val]
      OBVIOUS
    <3>4. v \in Values /\ v.start = o.start /\ v.count = r.val
      BY <1>2, <3>3 DEF Values
    <3>5. Writes(r, v)
      BY <2>4, <3>1, <3>2, <3>3, <3>4 DEF Writes
    <3> QED
      BY <3>1, <3>4, <3>5
  <2>6. Ran(c, r, r2) /\ DidStore(r, r2)
    BY <1>1, <1>10, <2>2, <2>3, <2>5 DEF Store, Ran, DidStore
  <2> QED
    BY <2>6 DEF Did
<1>11. CASE Submit(c)
  <2>1. PICK n \in {r.val} \cup (IF r.st = NULL THEN {} ELSE {Elem(c).count}) :
          events' = Append(events, [key |-> r.key, now |-> r.now, count |-> n])
    BY <1>1, <1>11 DEF Submit
  <2>2. n \in Nat /\ (n = r.val \/ (r.st # NULL /\ n = mem[r.st].count))
    BY <1>1, <1>2, <2>1 DEF Elem, Values
  <2>3. DidSubmit(r, Idle)
    BY <1>1, <1>11, <2>1, <2>2 DEF Submit, DidSubmit
  <2>4. Ran(c, r, Idle)
    BY <1>1, <1>11 DEF Submit, Ran, Types
  <2> QED
    BY <2>3, <2>4 DEF Did
<1> QED
  BY <1>1, <1>3, <1>5, <1>6, <1>7, <1>8, <1>9, <1>10, <1>11, SMTT(40) DEF handle_exec

(* What any such step does: the other programs stay where they are, the    *)
(* program keeps its key and its time and looks up no element but its      *)
(* key's, and a change of the table is an insertion.                       *)
LEMMA StepFacts ==
  ASSUME Types, NEW c \in CPUs, NEW r \in Frames, NEW r2, Ran(c, r, r2), Did(r, r2)
  PROVE  /\ r = prog[c] /\ prog'[c] = r2 /\ r.pc # "idle"
         /\ \A d \in CPUs : d # c => prog'[d] = prog[d]
         /\ r.key \in Keys /\ r.now \in Nat /\ r.val \in Nat /\ r.st \in Elems \cup {NULL}
         /\ r.pc \in OnElem => r.st \in Elems
         /\ r.pc = "insert" => r.st = NULL
         /\ r2 = Idle \/ (r2 \in Frames /\ Same(r, r2) /\ r2.st \in {r.st, stats[r.key]})
         /\ r2.pc = "idle" <=> r2 = Idle
         /\ execs' = execs /\ raced \subseteq raced'
         /\ \/ UNCHANGED <<stats, mem, raced>>
            \/ r.pc = "insert" /\ r2.st = r.st /\ HasRoom(r.key) /\ \E e \in Elems : Fills(r, e)
            \/ UNCHANGED <<stats, raced>> /\ r.st \in Elems /\ \E v \in Values : Writes(r, v)
<1>1. r = prog[c] /\ prog'[c] = r2 /\ prog' = [prog EXCEPT ![c] = r2] /\ execs' = execs
  BY DEF Ran
<1>2. /\ r.key \in Keys /\ r.now \in Nat /\ r.val \in Nat /\ r.st \in Elems \cup {NULL}
      /\ r.pc # "idle"
  BY DEF Frames, Pcs, Before
<1>3. (r.pc \in OnElem => r.st \in Elems) /\ (r.pc = "insert" => r.st = NULL)
  BY <1>1, <1>2 DEF Types
<1>4. \A d \in CPUs : d # c => prog'[d] = prog[d]
  BY <1>1 DEF Types
<1>5. r2 = Idle \/ (r2 \in Frames /\ Same(r, r2) /\ r2.st \in {r.st, stats[r.key]})
  BY DEF Did, DidFail, DidLookup, DidInsert, DidWindow, DidReset, DidLoad, DidStore, DidSubmit
<1>6. r2.pc = "idle" <=> r2 = Idle
  BY <1>5 DEF Idle, Frames, Pcs, Before
<1>7. \/ UNCHANGED <<stats, mem, raced>>
      \/ r.pc = "insert" /\ r2.st = r.st /\ HasRoom(r.key) /\ \E e \in Elems : Fills(r, e)
      \/ UNCHANGED <<stats, raced>> /\ r.st \in Elems /\ \E v \in Values : Writes(r, v)
  BY <1>3 DEF Did, DidFail, DidLookup, DidInsert, DidWindow, DidReset, DidLoad, DidStore,
              DidSubmit, OnElem
<1>8. raced \subseteq raced'
  BY <1>7 DEF Fills
<1> QED
  BY <1>1, <1>2, <1>3, <1>4, <1>5, <1>6, <1>7, <1>8

LEMMA HandleTypes ==
  ASSUME Types, NEW c \in CPUs, NEW r \in Frames, NEW r2, Ran(c, r, r2), Did(r, r2)
  PROVE  Types'
<1>0. /\ r = prog[c] /\ prog' = [prog EXCEPT ![c] = r2] /\ prog'[c] = r2 /\ UNCHANGED <<clock, execs>>
      /\ \A d \in CPUs : d # c => prog'[d] = prog[d]
      /\ r2 \in Frames \cup {Idle} /\ r.key \in Keys /\ r.now \in Nat
  BY StepFacts DEF Ran
<1>1. prog' \in [CPUs -> Frames \cup {Idle}]
  BY <1>0 DEF Types
<1>2. stats' \in [Keys -> Elems \cup {NULL}] /\ mem' \in [Elems -> Values] /\ raced' \subseteq Keys
  <2>1. CASE UNCHANGED <<stats, mem, raced>>
    BY <2>1 DEF Types
  <2>2. ASSUME NEW e \in Elems, Fills(r, e)
        PROVE  stats' \in [Keys -> Elems \cup {NULL}] /\ mem' \in [Elems -> Values] /\ raced' \subseteq Keys
    <3>1. [start |-> r.now, count |-> 1] \in Values
      BY <1>0 DEF Values
    <3>2. PICK v \in Values : v = [start |-> r.now, count |-> 1]
      BY <3>1
    <3> QED
      BY <1>0, <2>2, <3>2 DEF Fills, Types
  <2>3. ASSUME NEW v \in Values, UNCHANGED <<stats, raced>>, Writes(r, v)
        PROVE  stats' \in [Keys -> Elems \cup {NULL}] /\ mem' \in [Elems -> Values] /\ raced' \subseteq Keys
    BY <2>3 DEF Writes, Types
  <2> QED
    BY <2>1, <2>2, <2>3, StepFacts
<1>3. events' \in Seq(Reports)
  <2>1. CASE events' = events
    BY <2>1 DEF Types
  <2>2. CASE DidSubmit(r, r2)
    <3>1. PICK n \in Nat : events' = Append(events, [key |-> r.key, now |-> r.now, count |-> n])
      BY <2>2 DEF DidSubmit
    <3>2. [key |-> r.key, now |-> r.now, count |-> n] \in Reports
      BY <1>0 DEF Reports
    <3> QED
      BY <3>1, <3>2 DEF Types
  <2> QED
    BY <2>1, <2>2 DEF Did, DidFail, DidLookup, DidInsert, DidWindow, DidReset, DidLoad, DidStore
<1>4. /\ r2.pc \in OnElem => r2.st # NULL
      /\ r2.pc = "insert" => r2.st = NULL
  <2>1. r.pc \in OnElem => r.st # NULL
    BY <1>0 DEF Types
  <2> QED
    BY <2>1 DEF Did, DidFail, DidLookup, DidInsert, DidWindow, DidReset, DidLoad, DidStore,
                DidSubmit, OnElem, Idle
<1>5. ASSUME NEW d \in CPUs
      PROVE  /\ prog'[d].pc \in OnElem => prog'[d].st # NULL
             /\ prog'[d].pc = "insert" => prog'[d].st = NULL
  BY <1>0, <1>4 DEF Types
<1> QED
  BY <1>0, <1>1, <1>2, <1>3, <1>5 DEF Types

(* What a new execution does. *)
Began(c, k, r2) ==
  /\ r2 \in Frames /\ r2.pc = "reserve" /\ r2.key = k /\ r2.now = clock /\ r2.val = 0 /\ r2.st = NULL
  /\ prog[c].pc = "idle" /\ prog' = [prog EXCEPT ![c] = r2] /\ prog'[c] = r2
  /\ execs' = Append(execs, [key |-> k, now |-> clock])
  /\ raced' = (IF InFlight(k) = {} THEN raced ELSE raced \cup {k})
  /\ UNCHANGED <<clock, stats, mem, events>>

LEMMA ExecStep ==
  ASSUME Types, NEW c \in CPUs, NEW k \in Keys, Exec(c, k)
  PROVE  \E r2 : Began(c, k, r2)
<1>1. PICK r2 : r2 = Running(k)
  OBVIOUS
<1>2. r2 \in Frames /\ r2.pc = "reserve" /\ r2.key = k /\ r2.now = clock /\ r2.val = 0 /\ r2.st = NULL
  BY <1>1 DEF Running, Frames, Pcs, Before, Types
<1>3. prog' = [prog EXCEPT ![c] = r2] /\ prog'[c] = r2
  BY <1>1 DEF Exec, Types
<1> QED
  BY <1>2, <1>3 DEF Exec, Began

LEMMA ExecTypes ==
  ASSUME Types, NEW c \in CPUs, NEW k \in Keys, NEW r2, Began(c, k, r2)
  PROVE  Types'
<1>1. prog' \in [CPUs -> Frames \cup {Idle}] /\ \A d \in CPUs : d # c => prog'[d] = prog[d]
  BY DEF Began, Types
<1>2. PICK x \in Execs : x = [key |-> k, now |-> clock]
  BY DEF Execs, Types
<1>3. execs' \in Seq(Execs)
  BY <1>2 DEF Began, Types
<1>4. raced' \subseteq Keys
  BY DEF Began, Types
<1>5. ASSUME NEW d \in CPUs
      PROVE  /\ prog'[d].pc \in OnElem => prog'[d].st # NULL
             /\ prog'[d].pc = "insert" => prog'[d].st = NULL
  <2>1. CASE d = c
    BY <2>1 DEF Began, OnElem
  <2>2. CASE d # c
    BY <1>1, <2>2 DEF Types
  <2> QED
    BY <2>1, <2>2
<1> QED
  BY <1>1, <1>3, <1>4, <1>5 DEF Began, Types

LEMMA InitTypes == Init => Types
<1> SUFFICES ASSUME Init PROVE Types
  OBVIOUS
<1>1. \A c \in CPUs : prog[c].pc = "idle"
  BY DEF Init, Idle
<1>2. execs \in Seq(Execs) /\ events \in Seq(Reports)
  BY DEF Init
<1>3. stats \in [Keys -> Elems \cup {NULL}] /\ mem \in [Elems -> Values]
  BY DEF Init, Values
<1>4. clock \in Nat /\ clock <= MaxTime
  BY ExecguardAssumption DEF Init
<1> QED
  BY <1>1, <1>2, <1>3, <1>4 DEF Init, Types, OnElem

(* Every step is the clock's, a new execution, a step of a running program *)
(* or none.                                                                *)
LEMMA StepKinds ==
  ASSUME Types, [Next]_vars
  PROVE  \/ Tick
         \/ UNCHANGED vars
         \/ \E c \in CPUs, k \in Keys : \E r2 : Began(c, k, r2)
         \/ \E c \in CPUs, r \in Frames : \E r2 : Ran(c, r, r2) /\ Did(r, r2)
BY HandleSteps, ExecStep DEF Next

LEMMA TypesStep == Types /\ [Next]_vars => Types'
<1> SUFFICES ASSUME Types, [Next]_vars PROVE Types'
  OBVIOUS
<1>1. CASE Tick
  BY <1>1, ExecguardAssumption DEF Tick, Types
<1>2. CASE UNCHANGED vars
  BY <1>2 DEF vars, Types
<1> QED
  BY <1>1, <1>2, StepKinds, ExecTypes, HandleTypes

-----------------------------------------------------------------------------
(* Who may reach an element: the key that has it, and the programs that    *)
(* looked it up.                                                           *)

Owns(k, e) == stats[k] = e \/ \E c \in InFlight(k) : prog[c].st = e

Apart ==
  /\ \A k \in Keys \ raced : \A c, d \in InFlight(k) : c = d
  /\ \A k \in Keys \ raced : \A c \in InFlight(k) : prog[c].st \in {NULL, stats[k]}
  /\ \A e \in Elems : \A k, q \in Keys : Owns(k, e) /\ Owns(q, e) /\ k # q => k \in raced

LEMMA BeganOwns ==
  ASSUME Types, NEW c \in CPUs, NEW k \in Keys, NEW r2, Began(c, k, r2)
  PROVE  /\ \A q \in Keys : InFlight(q)' = (IF q = k THEN InFlight(q) \cup {c} ELSE InFlight(q))
         /\ \A q \in Keys : \A d \in InFlight(q) : prog'[d] = prog[d]
         /\ \A q \in Keys, e \in Elems : Owns(q, e)' => Owns(q, e)
<1>1. /\ stats' = stats /\ prog'[c] = r2 /\ prog[c].pc = "idle" /\ r2.pc = "reserve" /\ r2.key = k
      /\ r2.st = NULL /\ NULL \notin Elems
      /\ \A d \in CPUs : d # c => prog'[d] = prog[d]
  BY ExecguardAssumption DEF Began, Types
<1>2. \A q \in Keys : InFlight(q)' = (IF q = k THEN InFlight(q) \cup {c} ELSE InFlight(q))
  BY <1>1 DEF InFlight
<1>3. \A q \in Keys : \A d \in InFlight(q) : prog'[d] = prog[d]
  BY <1>1 DEF InFlight
<1>4. ASSUME NEW q \in Keys, NEW e \in Elems, Owns(q, e)' PROVE Owns(q, e)
  <2>1. CASE stats'[q] = e
    BY <1>1, <2>1 DEF Owns
  <2>2. ASSUME NEW d \in InFlight(q)', prog'[d].st = e PROVE Owns(q, e)
    <3>1. d # c
      BY <1>1, <2>2
    <3> QED
      BY <1>2, <1>3, <2>2, <3>1 DEF Owns
  <2> QED
    BY <1>4, <2>1, <2>2 DEF Owns
<1> QED
  BY <1>2, <1>3, <1>4

(* A step of handle_exec: the key of the program may come to reach an      *)
(* element that nobody had.                                                *)
LEMMA HandleOwns ==
  ASSUME Types, NEW c \in CPUs, NEW r \in Frames, NEW r2, Ran(c, r, r2), Did(r, r2)
  PROVE  /\ c \in InFlight(r.key)
         /\ \A q \in Keys : c \in InFlight(q) => q = r.key
         /\ \A q \in Keys : InFlight(q)' = (IF r2.pc = "idle" THEN InFlight(q) \ {c} ELSE InFlight(q))
         /\ \A q \in Keys : \A d \in InFlight(q) : d # c => prog'[d] = prog[d]
         /\ \A q \in Keys, e \in Elems :
              Owns(q, e)' => Owns(q, e) \/ (q = r.key /\ r.pc = "insert" /\ Fills(r, e))
<1>1. /\ r = prog[c] /\ prog'[c] = r2 /\ r.pc # "idle" /\ r.key \in Keys
      /\ \A d \in CPUs : d # c => prog'[d] = prog[d]
      /\ r2 = Idle \/ (r2 \in Frames /\ Same(r, r2) /\ r2.st \in {r.st, stats[r.key]})
      /\ r2.pc = "idle" <=> r2 = Idle
  BY StepFacts
<1>2. c \in InFlight(r.key) /\ \A q \in Keys : c \in InFlight(q) => q = r.key
  BY <1>1 DEF InFlight
<1>3. \A q \in Keys : InFlight(q)' = (IF r2.pc = "idle" THEN InFlight(q) \ {c} ELSE InFlight(q))
  BY <1>1 DEF InFlight, Same
<1>4. \A q \in Keys : \A d \in InFlight(q) : d # c => prog'[d] = prog[d]
  BY <1>1 DEF InFlight
<1>5. ASSUME NEW q \in Keys, NEW e \in Elems, Owns(q, e)'
      PROVE  Owns(q, e) \/ (q = r.key /\ r.pc = "insert" /\ Fills(r, e))
  <2>1. CASE stats'[q] = e
    <3>1. CASE stats' = stats
      BY <2>1, <3>1 DEF Owns
    <3>2. ASSUME r.pc = "insert", NEW f \in Elems, Fills(r, f)
          PROVE  Owns(q, e) \/ (q = r.key /\ r.pc = "insert" /\ Fills(r, e))
      <4>1. CASE q = r.key
        <5>1. e = f
          BY <1>1, <2>1, <3>2, <4>1 DEF Fills, Types
        <5> QED
          BY <3>2, <4>1, <5>1
      <4>2. CASE q # r.key
        BY <1>1, <2>1, <3>2, <4>2 DEF Fills, Types, Owns
      <4> QED
        BY <4>1, <4>2
    <3> QED
      BY <3>1, <3>2, StepFacts
  <2>2. ASSUME NEW d \in InFlight(q)', prog'[d].st = e PROVE Owns(q, e)
    <3>0. d \in InFlight(q)
      BY <1>3, <2>2
    <3>1. CASE d # c
      BY <1>4, <2>2, <3>0, <3>1 DEF Owns
    <3>2. CASE d = c
      <4>1. q = r.key /\ r2.pc # "idle"
        BY <1>2, <1>3, <2>2, <3>0, <3>2
      <4>2. e \in {r.st, stats[r.key]}
        BY <1>1, <2>2, <3>2, <4>1
      <4> QED
        BY <1>1, <1>2, <4>1, <4>2 DEF Owns
    <3> QED
      BY <3>1, <3>2
  <2> QED
    BY <1>5, <2>1, <2>2 DEF Owns
<1> QED
  BY <1>2, <1>3, <1>4, <1>5

(* An element that is filled and that another key reaches: both raced.     *)
LEMMA FilledOwners ==
  ASSUME Types, Apart, NEW c \in CPUs, NEW r \in Frames, NEW r2, Ran(c, r, r2), Did(r, r2),
         NEW e \in Elems, Fills(r, e), NEW q \in Keys, Owns(q, e)
  PROVE  q \in raced /\ r.key \in raced'
<1>1. e # NULL /\ stats[q] # e
  BY ExecguardAssumption DEF Fills, Unused
<1>2. PICK d \in InFlight(q) : prog[d].st = e
  BY <1>1 DEF Owns
<1>3. q \in raced
  BY <1>1, <1>2 DEF Apart
<1>4. Held(e)
  BY <1>2 DEF Held, InFlight
<1> QED
  BY <1>3, <1>4 DEF Fills

LEMMA ApartStep == Types /\ Apart /\ [Next]_vars => Apart'
<1> SUFFICES ASSUME Types, Apart, [Next]_vars PROVE Apart'
  OBVIOUS
<1>1. CASE Tick \/ UNCHANGED vars
  <2>1. UNCHANGED <<prog, stats, raced>>
    BY <1>1 DEF Tick, vars
  <2>2. \A k : InFlight(k)' = InFlight(k)
    BY <2>1 DEF InFlight
  <2>3. \A k, e : Owns(k, e)' <=> Owns(k, e)
    BY <2>1, <2>2 DEF Owns
  <2> QED
    BY <2>1, <2>2, <2>3 DEF Apart
<1>2. ASSUME NEW c \in CPUs, NEW k \in Keys, NEW r2, Began(c, k, r2) PROVE Apart'
  <2>0. /\ stats' = stats /\ raced' = (IF InFlight(k) = {} THEN raced ELSE raced \cup {k})
        /\ prog'[c] = r2 /\ r2.st = NULL
    BY <1>2 DEF Began
  <2>1. /\ \A q \in Keys : InFlight(q)' = (IF q = k THEN InFlight(q) \cup {c} ELSE InFlight(q))
        /\ \A q \in Keys : \A d \in InFlight(q) : prog'[d] = prog[d]
        /\ \A q \in Keys, e \in Elems : Owns(q, e)' => Owns(q, e)
    BY <1>2, BeganOwns
  <2>2. ASSUME NEW q \in Keys \ raced', NEW a \in InFlight(q)', NEW d \in InFlight(q)'
        PROVE  a = d /\ prog'[a].st \in {NULL, stats'[q]}
    <3>1. q \in Keys \ raced /\ (q = k => InFlight(q) = {})
      BY <2>0, <2>2
    <3> QED
      BY <2>0, <2>1, <2>2, <3>1 DEF Apart
  <2>3. ASSUME NEW e \in Elems, NEW q \in Keys, NEW s \in Keys, Owns(q, e)', Owns(s, e)', q # s
        PROVE  q \in raced'
    <3>1. q \in raced
      BY <2>1, <2>3 DEF Apart
    <3> QED
      BY <2>0, <3>1
  <2> QED
    BY <2>2, <2>3 DEF Apart
<1>3. ASSUME NEW c \in CPUs, NEW r \in Frames, NEW r2, Ran(c, r, r2), Did(r, r2) PROVE Apart'
  <2>0. /\ r = prog[c] /\ prog'[c] = r2 /\ r.key \in Keys /\ raced \subseteq raced'
        /\ r2 = Idle \/ (r2 \in Frames /\ Same(r, r2) /\ r2.st \in {r.st, stats[r.key]})
        /\ r2.pc = "idle" <=> r2 = Idle
        /\ r.pc = "insert" => r.st = NULL
        /\ stats' = stats \/ (r.pc = "insert" /\ r2.st = r.st /\ \E e \in Elems : Fills(r, e))
    BY <1>3, StepFacts
  <2>1. /\ c \in InFlight(r.key)
        /\ \A q \in Keys : c \in InFlight(q) => q = r.key
        /\ \A q \in Keys : InFlight(q)' = (IF r2.pc = "idle" THEN InFlight(q) \ {c} ELSE InFlight(q))
        /\ \A q \in Keys : \A d \in InFlight(q) : d # c => prog'[d] = prog[d]
        /\ \A q \in Keys, e \in Elems :
             Owns(q, e)' => Owns(q, e) \/ (q = r.key /\ r.pc = "insert" /\ Fills(r, e))
    BY <1>3, HandleOwns
  <2>2. ASSUME NEW q \in Keys \ raced', NEW a \in InFlight(q)', NEW d \in InFlight(q)'
        PROVE  a = d /\ prog'[a].st \in {NULL, stats'[q]}
    <3>1. q \in Keys \ raced /\ a \in InFlight(q) /\ d \in InFlight(q)
      BY <2>0, <2>1, <2>2
    <3>2. a = d /\ prog[a].st \in {NULL, stats[q]}
      BY <3>1 DEF Apart
    <3>3. CASE q # r.key
      <4>1. stats'[q] = stats[q]
        BY <2>0, <3>3 DEF Fills, Types
      <4>2. prog'[a] = prog[a]
        BY <2>1, <3>1, <3>3
      <4> QED
        BY <3>2, <4>1, <4>2
    <3>4. CASE q = r.key
      <4>1. a = c
        BY <2>1, <3>1, <3>4 DEF Apart
      <4>2. r2.pc # "idle"
        BY <2>1, <2>2, <4>1
      <4>3. CASE stats' = stats
        BY <2>0, <3>2, <3>4, <4>1, <4>2, <4>3
      <4>4. CASE r.pc = "insert" /\ r2.st = r.st
        BY <2>0, <3>2, <4>1, <4>4
      <4> QED
        BY <2>0, <4>3, <4>4
    <3> QED
      BY <3>3, <3>4
  <2>3. ASSUME NEW e \in Elems, NEW q \in Keys, NEW s \in Keys, Owns(q, e)', Owns(s, e)', q # s
        PROVE  q \in raced'
    <3>1. CASE Owns(q, e) /\ Owns(s, e)
      BY <2>0, <2>3, <3>1 DEF Apart
    <3>2. CASE q = r.key /\ Fills(r, e) /\ Owns(s, e)
      BY <1>3, <3>2, FilledOwners
    <3>3. CASE s = r.key /\ Fills(r, e) /\ Owns(q, e)
      BY <1>3, <2>0, <3>3, FilledOwners
    <3> QED
      BY <2>1, <2>3, <3>1, <3>2, <3>3
  <2> QED
    BY <2>2, <2>3 DEF Apart
<1> QED
  BY <1>1, <1>2, <1>3, StepKinds

LEMMA InitApart == Init => Apart
<1> SUFFICES ASSUME Init PROVE Apart
  OBVIOUS
<1>1. \A k \in Keys : InFlight(k) = {} /\ stats[k] = NULL
  BY DEF Init, InFlight, Idle
<1>2. \A k \in Keys, e \in Elems : ~Owns(k, e)
  BY <1>1, ExecguardAssumption DEF Owns
<1> QED
  BY <1>1, <1>2 DEF Apart

-----------------------------------------------------------------------------
(* No count is larger than the executions it may count.                    *)

(* The executions of the keys in G, the programs of those keys that may    *)
(* still add one to a count, and what the others amount to.                *)
Of(ex, G) == {i \in DOMAIN ex : ex[i].key \in G}
Pending(p, G) == {c \in CPUs : p[c].pc \in Before /\ p[c].key \in G}
Credit(ex, p, G) == Cardinality(Of(ex, G)) - Cardinality(Pending(p, G))

Grp(k, R) == IF k \in R THEN R ELSE {k}

Covered ==
  /\ \A G \in SUBSET Keys : Credit(execs, prog, G) \in Nat
  /\ \A k \in Keys, e \in Elems :
       Owns(k, e) => mem[e].count <= Credit(execs, prog, Grp(k, raced))
  /\ \A c \in CPUs : prog[c].pc # "idle" =>
       /\ prog[c].val <= Credit(execs, prog, Grp(prog[c].key, raced))
       /\ prog[c].pc = "reset" => 1 <= Credit(execs, prog, Grp(prog[c].key, raced))
  /\ \A i \in DOMAIN events :
       events[i].count <= Cardinality(Of(execs, Grp(events[i].key, raced)))

LEMMA GrpGrows ==
  ASSUME NEW k \in Keys, NEW R \in SUBSET Keys, NEW S \in SUBSET Keys, R \subseteq S
  PROVE  Grp(k, R) \in SUBSET Keys /\ Grp(k, S) \in SUBSET Keys /\ Grp(k, R) \subseteq Grp(k, S)
BY DEF Grp

LEMMA CreditFinite ==
  ASSUME NEW ex \in Seq(Execs), NEW p, NEW G
  PROVE  /\ IsFiniteSet(Of(ex, G)) /\ Cardinality(Of(ex, G)) \in Nat
         /\ IsFiniteSet(Pending(p, G)) /\ Cardinality(Pending(p, G)) \in Nat
         /\ Credit(ex, p, G) \in Int /\ Credit(ex, p, G) <= Cardinality(Of(ex, G))
<1>1. IsFiniteSet(1..Len(ex)) /\ DOMAIN ex = 1..Len(ex)
  BY FS_Interval
<1>2. Of(ex, G) \subseteq 1..Len(ex)
  BY <1>1 DEF Of
<1>3. Pending(p, G) \subseteq CPUs /\ IsFiniteSet(CPUs)
  BY ExecguardAssumption DEF Pending
<1>4. IsFiniteSet(Of(ex, G)) /\ Cardinality(Of(ex, G)) \in Nat
  BY <1>1, <1>2, FS_Subset, FS_CardinalityType
<1>5. IsFiniteSet(Pending(p, G)) /\ Cardinality(Pending(p, G)) \in Nat
  BY <1>3, FS_Subset, FS_CardinalityType
<1> QED
  BY <1>4, <1>5 DEF Credit

LEMMA Disjoint ==
  ASSUME NEW A, NEW B, NEW S, S = A \cup B, A \cap B = {}, IsFiniteSet(A), IsFiniteSet(B)
  PROVE  Cardinality(S) = Cardinality(A) + Cardinality(B)
<1>1. Cardinality(A \cup B) = Cardinality(A) + Cardinality(B) - Cardinality(A \cap B)
  BY FS_Union
<1>2. Cardinality(A \cap B) = 0 /\ Cardinality(A) \in Nat /\ Cardinality(B) \in Nat
  BY FS_EmptySet, FS_CardinalityType
<1> QED
  BY <1>1, <1>2

(* More keys, more credit. *)
LEMMA CreditMonotone ==
  ASSUME NEW ex \in Seq(Execs), NEW p, NEW G, NEW H, G \subseteq H, Credit(ex, p, H \ G) \in Nat
  PROVE  Credit(ex, p, G) <= Credit(ex, p, H)
<1>1. PICK D : D = H \ G
  OBVIOUS
<1>2. Of(ex, H) = Of(ex, G) \cup Of(ex, D) /\ Of(ex, G) \cap Of(ex, D) = {}
  BY <1>1 DEF Of
<1>3. Pending(p, H) = Pending(p, G) \cup Pending(p, D) /\ Pending(p, G) \cap Pending(p, D) = {}
  BY <1>1 DEF Pending
<1>4. \A S : IsFiniteSet(Of(ex, S)) /\ IsFiniteSet(Pending(p, S))
  BY CreditFinite
<1>5. Cardinality(Of(ex, H)) = Cardinality(Of(ex, G)) + Cardinality(Of(ex, D))
  BY <1>2, <1>4, Disjoint
<1>6. Cardinality(Pending(p, H)) = Cardinality(Pending(p, G)) + Cardinality(Pending(p, D))
  BY <1>3, <1>4, Disjoint
<1>7. \A S : Cardinality(Of(ex, S)) \in Nat /\ Cardinality(Pending(p, S)) \in Nat
  BY CreditFinite
<1>8. Cardinality(Of(ex, D)) - Cardinality(Pending(p, D)) \in Nat
  BY <1>1 DEF Credit
<1> QED
  BY <1>5, <1>6, <1>7, <1>8 DEF Credit

Grown(ex, x, ex2) == ex2 = Append(ex, x)

LEMMA OfGrows ==
  ASSUME NEW ex \in Seq(Execs), NEW x \in Execs, NEW ex2 \in Seq(Execs), Grown(ex, x, ex2),
         NEW G, NEW H, G \subseteq H
  PROVE  Cardinality(Of(ex, G)) <= Cardinality(Of(ex2, H))
<1>1. DOMAIN ex \subseteq DOMAIN ex2 /\ \A i \in DOMAIN ex : ex2[i] = ex[i]
  BY DEF Grown
<1>2. Of(ex, G) \subseteq Of(ex2, H)
  BY <1>1 DEF Of
<1>3. IsFiniteSet(Of(ex2, H))
  BY CreditFinite
<1> QED
  BY <1>2, <1>3, FS_Subset

(* A new execution is one more, with a program that stands for it.         *)
LEMMA ExecCredit ==
  ASSUME NEW ex \in Seq(Execs), NEW x \in Execs, NEW ex2, Grown(ex, x, ex2),
         NEW p, NEW q, NEW c \in CPUs, p[c].pc = "idle", q[c].pc = "reserve", q[c].key = x.key,
         \A d \in CPUs : d # c => q[d] = p[d], NEW G
  PROVE  Credit(ex2, q, G) = Credit(ex, p, G)
<1>1. /\ DOMAIN ex2 = DOMAIN ex \cup {Len(ex) + 1} /\ Len(ex) + 1 \notin DOMAIN ex
      /\ \A i \in DOMAIN ex : ex2[i] = ex[i]
      /\ ex2[Len(ex) + 1] = x
  BY DEF Grown
<1>2. /\ Cardinality(Of(ex, G)) \in Nat /\ Cardinality(Pending(p, G)) \in Nat
      /\ IsFiniteSet(Of(ex, G)) /\ IsFiniteSet(Pending(p, G))
  BY CreditFinite
<1>3. CASE x.key \in G
  <2>1. Of(ex2, G) = Of(ex, G) \cup {Len(ex) + 1} /\ Len(ex) + 1 \notin Of(ex, G)
    BY <1>1, <1>3 DEF Of
  <2>2. Pending(q, G) = Pending(p, G) \cup {c} /\ c \notin Pending(p, G)
    BY <1>3 DEF Pending, Before
  <2>3. Cardinality(Of(ex2, G)) = Cardinality(Of(ex, G)) + 1
    BY <1>2, <2>1, FS_AddElement
  <2>4. Cardinality(Pending(q, G)) = Cardinality(Pending(p, G)) + 1
    BY <1>2, <2>2, FS_AddElement
  <2> QED
    BY <1>2, <2>3, <2>4 DEF Credit
<1>4. CASE x.key \notin G
  <2>1. Of(ex2, G) = Of(ex, G)
    BY <1>1, <1>4 DEF Of
  <2>2. Pending(q, G) = Pending(p, G)
    BY <1>4 DEF Pending, Before
  <2> QED
    BY <2>1, <2>2 DEF Credit
<1> QED
  BY <1>3, <1>4

(* A program on its way can only free credit, one as soon as it is no      *)
(* longer pending.                                                         *)
LEMMA RunCredit ==
  ASSUME NEW ex \in Seq(Execs), NEW p, NEW q, NEW c \in CPUs,
         \A d \in CPUs : d # c => q[d] = p[d],
         q[c].pc \in Before => p[c].pc \in Before /\ q[c].key = p[c].key, NEW G
  PROVE  /\ Credit(ex, p, G) <= Credit(ex, q, G)
         /\ p[c].pc \in Before /\ p[c].key \in G /\ q[c].pc \notin Before
              => Credit(ex, p, G) + 1 <= Credit(ex, q, G)
<1>1. /\ Cardinality(Of(ex, G)) \in Nat /\ Cardinality(Pending(p, G)) \in Nat
      /\ IsFiniteSet(Pending(p, G)) /\ Credit(ex, p, G) \in Int
  BY CreditFinite
<1>2. CASE c \in Pending(p, G) /\ q[c].pc \notin Before
  <2>1. Pending(q, G) = Pending(p, G) \ {c}
    BY <1>2 DEF Pending
  <2>2. Cardinality(Pending(q, G)) = Cardinality(Pending(p, G)) - 1
    BY <1>1, <1>2, <2>1, FS_RemoveElement
  <2> QED
    BY <1>1, <2>2 DEF Credit
<1>3. CASE ~(c \in Pending(p, G) /\ q[c].pc \notin Before)
  <2>1. c \in Pending(p, G) <=> p[c].pc \in Before /\ p[c].key \in G
    BY DEF Pending
  <2>2. Pending(q, G) = Pending(p, G)
    BY <1>3, <2>1 DEF Pending
  <2>3. Credit(ex, q, G) = Credit(ex, p, G)
    BY <2>2 DEF Credit
  <2> QED
    BY <1>1, <1>3, <2>1, <2>3
<1> QED
  BY <1>2, <1>3

LEMMA HistoryTypes ==
  ASSUME Types
  PROVE  /\ \A i \in DOMAIN execs : execs[i] \in Execs /\ execs[i].key \in Keys /\ execs[i].now \in Nat
         /\ \A i \in DOMAIN events : /\ events[i] \in Reports /\ events[i].key \in Keys
                                     /\ events[i].now \in Nat /\ events[i].count \in Nat
<1>1. /\ \A i \in DOMAIN execs : execs[i] \in Execs
      /\ \A i \in DOMAIN events : events[i] \in Reports
  BY DEF Types
<1> QED
  BY <1>1 DEF Execs, Reports

(* Credit over a step: a group of keys that only grew has no less.         *)
CreditKept ==
  /\ \A G \in SUBSET Keys : Credit(execs', prog', G) \in Nat
  /\ \A k \in Keys : /\ Credit(execs, prog, Grp(k, raced)) \in Nat
                     /\ Credit(execs, prog, Grp(k, raced)) <= Credit(execs', prog', Grp(k, raced'))
  /\ \A k \in Keys : /\ Cardinality(Of(execs, Grp(k, raced))) \in Nat
                     /\ Cardinality(Of(execs', Grp(k, raced'))) \in Nat
                     /\ Cardinality(Of(execs, Grp(k, raced))) <= Cardinality(Of(execs', Grp(k, raced')))

LEMMA BeganCredit ==
  ASSUME Types, Covered, NEW c \in CPUs, NEW k \in Keys, NEW r2, Began(c, k, r2)
  PROVE  CreditKept
<1>1. PICK x \in Execs : x = [key |-> k, now |-> clock] /\ x.key = k
  <2>1. [key |-> k, now |-> clock] \in Execs
    BY DEF Execs, Types
  <2> QED
    BY <2>1
<1>2. PICK ex \in Seq(Execs), ex2 \in Seq(Execs) : ex = execs /\ ex2 = execs' /\ Grown(ex, x, ex2)
  <2>1. execs \in Seq(Execs) /\ execs' = Append(execs, x)
    BY <1>1 DEF Began, Types
  <2>2. execs' \in Seq(Execs)
    BY <2>1
  <2> QED
    BY <2>1, <2>2 DEF Grown
<1>3. /\ prog[c].pc = "idle" /\ prog'[c].pc = "reserve" /\ prog'[c].key = x.key
      /\ \A d \in CPUs : d # c => prog'[d] = prog[d]
  BY <1>1 DEF Began, Types
<1>4. \A G : Credit(ex2, prog', G) = Credit(ex, prog, G)
  BY <1>2, <1>3, ExecCredit
<1>5. \A G \in SUBSET Keys : Credit(ex, prog, G) \in Nat /\ Credit(ex2, prog', G) \in Nat
  BY <1>2, <1>4 DEF Covered
<1>6. ASSUME NEW q \in Keys
      PROVE  /\ Credit(ex, prog, Grp(q, raced)) \in Nat
             /\ Credit(ex, prog, Grp(q, raced)) <= Credit(ex2, prog', Grp(q, raced'))
             /\ Cardinality(Of(ex, Grp(q, raced))) \in Nat
             /\ Cardinality(Of(ex2, Grp(q, raced'))) \in Nat
             /\ Cardinality(Of(ex, Grp(q, raced))) <= Cardinality(Of(ex2, Grp(q, raced')))
  <2>1. PICK G \in SUBSET Keys, H \in SUBSET Keys :
          G = Grp(q, raced) /\ H = Grp(q, raced') /\ G \subseteq H
    <3>1. raced \in SUBSET Keys /\ raced' \in SUBSET Keys /\ raced \subseteq raced'
      BY DEF Began, Types
    <3> QED
      BY <3>1, GrpGrows
  <2>2. Credit(ex, prog, G) <= Credit(ex, prog, H)
    BY <1>5, <2>1, CreditMonotone
  <2>3. Cardinality(Of(ex, G)) \in Nat /\ Cardinality(Of(ex2, H)) \in Nat
    BY CreditFinite
  <2>4. Cardinality(Of(ex, G)) <= Cardinality(Of(ex2, H))
    BY <1>2, <2>1, OfGrows
  <2> QED
    BY <1>4, <1>5, <2>1, <2>2, <2>3, <2>4
<1> QED
  BY <1>2, <1>5, <1>6 DEF CreditKept

LEMMA HandleCredit ==
  ASSUME Types, Covered, NEW c \in CPUs, NEW r \in Frames, NEW r2, Ran(c, r, r2), Did(r, r2)
  PROVE  /\ CreditKept
         /\ r.pc \in Before /\ r2.pc \notin Before => 1 <= Credit(execs', prog', Grp(r.key, raced'))
         /\ r.pc \in Before /\ r2.pc \notin Before =>
              Credit(execs, prog, Grp(r.key, raced)) + 1 <= Credit(execs', prog', Grp(r.key, raced'))
<1>0. /\ r = prog[c] /\ prog'[c] = r2 /\ \A d \in CPUs : d # c => prog'[d] = prog[d]
      /\ raced \subseteq raced' /\ execs' = execs /\ r.key \in Keys
  BY StepFacts
<1>1. PICK ex \in Seq(Execs) : ex = execs /\ ex = execs'
  BY <1>0 DEF Types
<1>2. r2.pc \in Before => r.pc \in Before /\ r2.key = r.key
  BY DEF Did, DidFail, DidLookup, DidInsert, DidWindow, DidReset, DidLoad,
         DidStore, DidSubmit, Same, Before, Idle
<1>3. \A G : /\ Credit(ex, prog, G) <= Credit(ex, prog', G)
             /\ r.pc \in Before /\ r.key \in G /\ r2.pc \notin Before
                  => Credit(ex, prog, G) + 1 <= Credit(ex, prog', G)
  BY <1>0, <1>2, RunCredit
<1>4. \A G \in SUBSET Keys : Credit(ex, prog, G) \in Nat /\ Credit(ex, prog', G) \in Nat
  <2>1. \A G \in SUBSET Keys : Credit(ex, prog, G) \in Nat /\ Credit(ex, prog', G) \in Int
    BY <1>1, CreditFinite DEF Covered
  <2> QED
    BY <1>3, <2>1
<1>5. ASSUME NEW q \in Keys
      PROVE  /\ Credit(ex, prog, Grp(q, raced)) \in Nat
             /\ Credit(ex, prog', Grp(q, raced')) \in Nat
             /\ Credit(ex, prog, Grp(q, raced)) <= Credit(ex, prog', Grp(q, raced'))
             /\ q = r.key /\ r.pc \in Before /\ r2.pc \notin Before =>
                  Credit(ex, prog, Grp(q, raced)) + 1 <= Credit(ex, prog', Grp(q, raced'))
             /\ Cardinality(Of(ex, Grp(q, raced))) \in Nat
             /\ Cardinality(Of(ex, Grp(q, raced'))) \in Nat
             /\ Cardinality(Of(ex, Grp(q, raced))) <= Cardinality(Of(ex, Grp(q, raced')))
  <2>1. PICK G \in SUBSET Keys, H \in SUBSET Keys :
          G = Grp(q, raced) /\ H = Grp(q, raced') /\ G \subseteq H /\ q \in G
    <3>1. raced \in SUBSET Keys /\ raced' \in SUBSET Keys /\ raced \subseteq raced'
      BY <1>0, HandleTypes DEF Types
    <3>2. q \in Grp(q, raced)
      BY DEF Grp
    <3> QED
      BY <3>1, <3>2, GrpGrows
  <2>2. Credit(ex, prog', G) <= Credit(ex, prog', H)
    BY <1>4, <2>1, CreditMonotone
  <2>3. /\ Cardinality(Of(ex, G)) \in Nat /\ Cardinality(Of(ex, H)) \in Nat
        /\ IsFiniteSet(Of(ex, H))
    BY CreditFinite
  <2>4. Cardinality(Of(ex, G)) <= Cardinality(Of(ex, H))
    <3>1. Of(ex, G) \subseteq Of(ex, H)
      BY <2>1 DEF Of
    <3> QED
      BY <2>3, <3>1, FS_Subset
  <2>5. /\ Credit(ex, prog, G) \in Nat /\ Credit(ex, prog', G) \in Nat /\ Credit(ex, prog', H) \in Nat
        /\ Credit(ex, prog, G) <= Credit(ex, prog', G)
        /\ q = r.key /\ r.pc \in Before /\ r2.pc \notin Before
             => Credit(ex, prog, G) + 1 <= Credit(ex, prog', G)
    BY <1>3, <1>4, <2>1
  <2> QED
    BY <2>1, <2>2, <2>3, <2>4, <2>5
<1>6. CreditKept
  BY <1>1, <1>4, <1>5 DEF CreditKept
<1> QED
  BY <1>0, <1>1, <1>5, <1>6

LEMMA BeganCovered ==
  ASSUME Types, Covered, NEW c \in CPUs, NEW k \in Keys, NEW r2, Began(c, k, r2)
  PROVE  Covered'
<1>0. /\ mem' = mem /\ events' = events /\ prog'[c] = r2
      /\ r2.pc = "reserve" /\ r2.key = k /\ r2.val = 0
      /\ \A d \in CPUs : d # c => prog'[d] = prog[d]
      /\ \A q \in Keys, e \in Elems : Owns(q, e)' => Owns(q, e)
  BY BeganOwns DEF Began, Types
<1>1. CreditKept
  BY BeganCredit
<1>2. ASSUME NEW q \in Keys, NEW e \in Elems, Owns(q, e)'
      PROVE  mem'[e].count <= Credit(execs', prog', Grp(q, raced'))
  <2>1. mem[e].count \in Nat /\ mem[e].count <= Credit(execs, prog, Grp(q, raced))
    BY <1>0, <1>2 DEF Covered, Types, Values
  <2>2. Credit(execs', prog', Grp(q, raced')) \in Int
    BY ExecTypes, CreditFinite DEF Types
  <2> QED
    BY <1>0, <1>1, <2>1, <2>2 DEF CreditKept
<1>3. ASSUME NEW d \in CPUs, prog'[d].pc # "idle"
      PROVE  /\ prog'[d].val <= Credit(execs', prog', Grp(prog'[d].key, raced'))
             /\ prog'[d].pc = "reset" => 1 <= Credit(execs', prog', Grp(prog'[d].key, raced'))
  <2>0. \A q \in Keys : Credit(execs', prog', Grp(q, raced')) \in Int
    BY ExecTypes, CreditFinite DEF Types
  <2>1. CASE d = c
    BY <1>0, <1>1, <2>0, <2>1 DEF CreditKept
  <2>2. CASE d # c
    <3>1. prog'[d] = prog[d] /\ prog[d].val \in Nat /\ prog[d].key \in Keys
      BY <1>0, <1>3, <2>2, FrameTypes
    <3>2. /\ prog[d].val <= Credit(execs, prog, Grp(prog[d].key, raced))
          /\ prog[d].pc = "reset" => 1 <= Credit(execs, prog, Grp(prog[d].key, raced))
      BY <1>3, <3>1 DEF Covered
    <3> QED
      BY <1>1, <2>0, <3>1, <3>2 DEF CreditKept
  <2> QED
    BY <2>1, <2>2
<1>4. ASSUME NEW i \in DOMAIN events'
      PROVE  events'[i].count <= Cardinality(Of(execs', Grp(events'[i].key, raced')))
  <2>1. i \in DOMAIN events /\ events'[i] = events[i] /\ events[i].key \in Keys /\ events[i].count \in Nat
    BY <1>0, HistoryTypes
  <2>2. events[i].count <= Cardinality(Of(execs, Grp(events[i].key, raced)))
    BY <2>1 DEF Covered
  <2> QED
    BY <1>1, <2>1, <2>2 DEF CreditKept
<1> QED
  BY <1>1, <1>2, <1>3, <1>4 DEF Covered, CreditKept

LEMMA HandleCovered ==
  ASSUME Types, Apart, Covered, NEW c \in CPUs, NEW r \in Frames, NEW r2, Ran(c, r, r2), Did(r, r2)
  PROVE  Covered'
<1>0. /\ r = prog[c] /\ prog'[c] = r2 /\ r.pc # "idle" /\ r.key \in Keys /\ r.val \in Nat
      /\ \A d \in CPUs : d # c => prog'[d] = prog[d]
      /\ r2.pc = "idle" \/ r2.key = r.key
      /\ r.pc \in OnElem => r.st \in Elems
      /\ mem \in [Elems -> Values]
  BY StepFacts DEF Same, Types
<1>1. /\ CreditKept
      /\ r.pc \in Before /\ r2.pc \notin Before =>
           /\ 1 <= Credit(execs', prog', Grp(r.key, raced'))
           /\ Credit(execs, prog, Grp(r.key, raced)) + 1 <= Credit(execs', prog', Grp(r.key, raced'))
  BY HandleCredit
<1>2. PICK old \in [Keys -> Nat], new \in [Keys -> Nat] :
        \A q \in Keys : /\ old[q] = Credit(execs, prog, Grp(q, raced))
                        /\ new[q] = Credit(execs', prog', Grp(q, raced'))
                        /\ old[q] <= new[q]
  <2>1. \A q \in Keys : Credit(execs', prog', Grp(q, raced')) \in Nat
    <3>1. \A q \in Keys : Grp(q, raced') \in SUBSET Keys
      BY HandleTypes DEF Types, Grp
    <3> QED
      BY <1>1, <3>1 DEF CreditKept
  <2>2. [q \in Keys |-> Credit(execs, prog, Grp(q, raced))] \in [Keys -> Nat]
    BY <1>1 DEF CreditKept
  <2>3. [q \in Keys |-> Credit(execs', prog', Grp(q, raced'))] \in [Keys -> Nat]
    BY <2>1
  <2> QED
    BY <1>1, <2>2, <2>3 DEF CreditKept
<1>3. r.pc \in Before /\ r2.pc \notin Before => 1 <= new[r.key] /\ old[r.key] + 1 <= new[r.key]
  BY <1>0, <1>1, <1>2
<1>4. \A q \in Keys, e \in Elems : Owns(q, e) => mem[e].count \in Nat /\ mem[e].count <= old[q]
  BY <1>0, <1>2 DEF Covered, Values
<1>5. r.val <= old[r.key] /\ (r.pc = "reset" => 1 <= old[r.key])
  BY <1>0, <1>2 DEF Covered
<1>6. r.st \in Elems => Owns(r.key, r.st)
  BY <1>0, HandleOwns DEF Owns
<1>7. ASSUME NEW q \in Keys, NEW e \in Elems, Owns(q, e)' PROVE mem'[e].count <= new[q]
  <2>0. old[q] \in Nat /\ new[q] \in Nat /\ old[q] <= new[q] /\ old[r.key] <= new[r.key]
        /\ old[r.key] \in Nat /\ new[r.key] \in Nat
    BY <1>0, <1>2
  <2>1. Owns(q, e) \/ (q = r.key /\ r.pc = "insert" /\ Fills(r, e))
    BY <1>7, HandleOwns
  <2>2. CASE mem' = mem /\ raced' = raced /\ stats' = stats
    <3>1. Owns(q, e)
      BY <2>1, <2>2, ExecguardAssumption DEF Fills, Unused, Types
    <3> QED
      BY <1>4, <2>0, <2>2, <3>1
  <2>3. ASSUME NEW v \in Values, Writes(r, v), UNCHANGED <<stats, raced>>, r.st \in Elems,
               v.count <= new[r.key]
        PROVE  mem'[e].count <= new[q]
    <3>1. Owns(q, e)
      BY <1>0, <2>1, <2>3, ExecguardAssumption DEF Fills, Unused, Types
    <3>2. CASE e # r.st
      <4>1. mem'[e] = mem[e]
        BY <1>0, <2>3, <3>2 DEF Writes
      <4> QED
        BY <1>4, <2>0, <3>1, <4>1
    <3>3. CASE e = r.st
      <4>1. mem'[e] = v
        BY <1>0, <2>3, <3>3 DEF Writes
      <4>2. q = r.key \/ (q \in raced' /\ r.key \in raced')
        BY <1>0, <1>6, <2>3, <3>1, <3>3 DEF Apart
      <4>3. new[q] = new[r.key]
        BY <1>0, <1>2, <4>2 DEF Grp
      <4> QED
        BY <2>3, <4>1, <4>3
    <3> QED
      BY <3>2, <3>3
  <2>4. ASSUME NEW f \in Elems, Fills(r, f), r.pc = "insert", r2.pc = "submit" PROVE mem'[e].count <= new[q]
    <3>0. r.pc \in Before /\ r2.pc \notin Before
      BY <2>4 DEF Before
    <3>1. CASE e # f
      <4>1. mem'[e] = mem[e]
        BY <1>0, <2>4, <3>1 DEF Fills
      <4>2. Owns(q, e)
        <5>1. Fills(r, e) => e = f
          BY <1>0, <2>4 DEF Fills, Types
        <5> QED
          BY <2>1, <3>1, <5>1
      <4> QED
        BY <1>4, <2>0, <4>1, <4>2
    <3>2. CASE e = f
      <4>1. mem'[e].count = 1
        BY <1>0, <2>4, <3>2 DEF Fills
      <4>2. q = r.key \/ (q \in raced' /\ r.key \in raced')
        <5>1. CASE Owns(q, e)
          BY <2>4, <3>2, <5>1, FilledOwners, StepFacts
        <5> QED
          BY <2>1, <5>1
      <4>3. new[q] = new[r.key]
        BY <1>0, <1>2, <4>2 DEF Grp
      <4> QED
        BY <1>3, <3>0, <4>1, <4>3
    <3> QED
      BY <3>1, <3>2
  <2>5. CASE DidReset(r, r2)
    <3>1. PICK v \in Values : Writes(r, v) /\ (v.count = 1 \/ v.count = mem[r.st].count)
      BY <2>5 DEF DidReset, ResetTo
    <3>2. r.pc = "reset" /\ r.st \in Elems /\ UNCHANGED <<stats, raced>>
      BY <1>0, <2>5 DEF DidReset, OnElem
    <3>3. mem[r.st].count <= old[r.key] /\ mem[r.st].count \in Nat
      BY <1>0, <1>4, <1>6, <3>2
    <3>4. v.count <= new[r.key]
      BY <1>5, <2>0, <3>1, <3>2, <3>3
    <3> QED
      BY <2>3, <3>1, <3>2, <3>4
  <2>6. CASE DidStore(r, r2)
    <3>1. PICK v \in Values : Writes(r, v) /\ v.count = r.val
      BY <2>6 DEF DidStore
    <3>2. r.st \in Elems /\ UNCHANGED <<stats, raced>>
      BY <1>0, <2>6 DEF DidStore, OnElem
    <3>3. v.count <= new[r.key]
      BY <1>0, <1>5, <2>0, <3>1
    <3> QED
      BY <2>3, <3>1, <3>2, <3>3
  <2>7. CASE DidInsert(r, r2)
    BY <2>2, <2>4, <2>7 DEF DidInsert
  <2> QED
    BY <2>2, <2>5, <2>6, <2>7 DEF Did, DidFail, DidLookup, DidWindow, DidLoad, DidSubmit
<1>8. ASSUME NEW d \in CPUs, prog'[d].pc # "idle"
      PROVE  /\ prog'[d].val <= Credit(execs', prog', Grp(prog'[d].key, raced'))
             /\ prog'[d].pc = "reset" => 1 <= Credit(execs', prog', Grp(prog'[d].key, raced'))
  <2>1. CASE d # c
    <3>1. prog'[d] = prog[d] /\ prog[d].val \in Nat /\ prog[d].key \in Keys
      BY <1>0, <1>8, <2>1, FrameTypes
    <3>2. prog[d].val <= old[prog[d].key] /\ (prog[d].pc = "reset" => 1 <= old[prog[d].key])
      BY <1>2, <1>8, <3>1 DEF Covered
    <3>3. old[prog[d].key] \in Nat /\ new[prog[d].key] \in Nat /\ old[prog[d].key] <= new[prog[d].key]
      BY <1>2, <3>1
    <3> QED
      BY <1>2, <3>1, <3>2, <3>3
  <2>2. CASE d = c
    <3>0. /\ prog'[d] = r2 /\ r2.pc # "idle" /\ r2.key = r.key
          /\ new[r.key] = Credit(execs', prog', Grp(prog'[d].key, raced'))
          /\ old[r.key] \in Nat /\ new[r.key] \in Nat /\ old[r.key] <= new[r.key]
      BY <1>0, <1>2, <1>8, <2>2
    <3> SUFFICES r2.val <= new[r.key] /\ (r2.pc = "reset" => 1 <= new[r.key])
      BY <3>0
    <3>1. CASE DidLookup(r, r2)
      BY <1>0, <1>5, <3>0, <3>1 DEF DidLookup
    <3>2. CASE DidInsert(r, r2)
      BY <1>3, <3>2 DEF DidInsert, Before
    <3>3. CASE DidWindow(r, r2)
      <4>1. r2.val = r.val /\ r.pc \in Before /\ (r2.pc = "reset" => r2.pc \notin Before)
        BY <3>3 DEF DidWindow, Before
      <4> QED
        BY <1>0, <1>3, <1>5, <3>0, <4>1
    <3>4. CASE DidReset(r, r2)
      BY <1>5, <3>0, <3>4 DEF DidReset
    <3>5. CASE DidLoad(r, r2)
      <4>1. r2.val = mem[r.st].count + 1 /\ r2.pc = "store" /\ r.st \in Elems
            /\ r.pc \in Before /\ r2.pc \notin Before
        BY <1>0, <3>5 DEF DidLoad, OnElem, Before
      <4>2. mem[r.st].count <= old[r.key] /\ mem[r.st].count \in Nat
        BY <1>0, <1>4, <1>6, <4>1
      <4> QED
        BY <1>3, <3>0, <4>1, <4>2
    <3>6. CASE DidStore(r, r2)
      BY <1>0, <1>5, <3>0, <3>6 DEF DidStore
    <3>7. ~DidFail(r, r2) /\ ~DidSubmit(r, r2)
      BY <3>0 DEF DidFail, DidSubmit, Idle
    <3> QED
      BY <3>1, <3>2, <3>3, <3>4, <3>5, <3>6, <3>7 DEF Did
  <2> QED
    BY <2>1, <2>2
<1>9. ASSUME NEW i \in DOMAIN events'
      PROVE  events'[i].count <= Cardinality(Of(execs', Grp(events'[i].key, raced')))
  <2>1. ASSUME i \in DOMAIN events, events'[i] = events[i]
        PROVE  events'[i].count <= Cardinality(Of(execs', Grp(events'[i].key, raced')))
    <3>1. events[i].key \in Keys /\ events[i].count \in Nat
      BY <2>1, HistoryTypes
    <3>2. events[i].count <= Cardinality(Of(execs, Grp(events[i].key, raced)))
      BY <2>1 DEF Covered
    <3> QED
      BY <1>1, <2>1, <3>1, <3>2 DEF CreditKept
  <2>2. CASE events' = events
    BY <2>1, <2>2
  <2>3. CASE DidSubmit(r, r2)
    <3>1. PICK n \in Nat : /\ n = r.val \/ (r.st # NULL /\ n = mem[r.st].count)
                           /\ events' = Append(events, [key |-> r.key, now |-> r.now, count |-> n])
      BY <2>3 DEF DidSubmit
    <3>2. PICK z \in Reports : z = [key |-> r.key, now |-> r.now, count |-> n] /\ z.key = r.key /\ z.count = n
      <4>1. [key |-> r.key, now |-> r.now, count |-> n] \in Reports
        BY <1>0, StepFacts DEF Reports
      <4> QED
        BY <4>1
    <3>3. (i \in DOMAIN events /\ events'[i] = events[i]) \/ events'[i] = z
      BY <3>1, <3>2 DEF Types
    <3>4. n <= old[r.key]
      <4>1. r.st # NULL => r.st \in Elems
        BY StepFacts
      <4> QED
        BY <1>0, <1>4, <1>5, <1>6, <3>1, <4>1
    <3>5. /\ old[r.key] <= Cardinality(Of(execs, Grp(r.key, raced))) /\ old[r.key] \in Nat
          /\ Cardinality(Of(execs, Grp(r.key, raced))) \in Nat
          /\ Cardinality(Of(execs', Grp(r.key, raced'))) \in Nat
          /\ Cardinality(Of(execs, Grp(r.key, raced))) <= Cardinality(Of(execs', Grp(r.key, raced')))
      <4>1. Credit(execs, prog, Grp(r.key, raced)) <= Cardinality(Of(execs, Grp(r.key, raced)))
        BY CreditFinite DEF Types
      <4> QED
        BY <1>0, <1>1, <1>2, <4>1 DEF CreditKept
    <3> QED
      BY <2>1, <3>2, <3>3, <3>4, <3>5
  <2> QED
    BY <2>2, <2>3 DEF Did, DidFail, DidLookup, DidInsert, DidWindow, DidReset, DidLoad, DidStore
<1>10. \A q \in Keys, e \in Elems : Owns(q, e)' => mem'[e].count <= Credit(execs', prog', Grp(q, raced'))
  BY <1>2, <1>7
<1> QED
  BY <1>1, <1>8, <1>9, <1>10 DEF Covered, CreditKept

LEMMA CoveredStep == Types /\ Apart /\ Covered /\ [Next]_vars => Covered'
<1> SUFFICES ASSUME Types, Apart, Covered, [Next]_vars PROVE Covered'
  OBVIOUS
<1>1. CASE Tick \/ UNCHANGED vars
  <2>1. UNCHANGED <<prog, stats, mem, execs, events, raced>>
    BY <1>1 DEF Tick, vars
  <2>2. \A k, e : Owns(k, e)' <=> Owns(k, e)
    BY <2>1 DEF Owns, InFlight
  <2> QED
    BY <2>1, <2>2 DEF Covered
<1> QED
  BY <1>1, StepKinds, BeganCovered, HandleCovered

(* No record of handle_exec reports more executions of its key than there  *)
(* have been, or, once another program had a hand in the element that      *)
(* counts the key, than of all the keys that raced: a lost update may lose *)
(* an execution but never invents one, and an element filled again under a *)
(* program that holds it passes on no more than that program's execution.  *)
THEOREM NeverOvercounts == Spec => []NoOvercount
<1>1. Init => Covered
  <2> SUFFICES ASSUME Init PROVE Covered
    OBVIOUS
  <2>1. /\ \A c \in CPUs : prog[c].pc = "idle"
        /\ DOMAIN execs = {} /\ DOMAIN events = {}
        /\ \A k \in Keys : stats[k] = NULL /\ InFlight(k) = {}
    BY DEF Init, Idle, InFlight
  <2>2. \A k \in Keys, e \in Elems : ~Owns(k, e)
    BY <2>1, ExecguardAssumption DEF Owns
  <2>3. \A G : Of(execs, G) = {} /\ Pending(prog, G) = {}
    BY <2>1 DEF Of, Pending, Before
  <2>4. \A G : Credit(execs, prog, G) = 0
    BY <2>3, FS_EmptySet DEF Credit
  <2> QED
    BY <2>1, <2>2, <2>4 DEF Covered
<1>2. Covered => NoOvercount
  BY DEF Covered, NoOvercount, Of, Grp, ExecsIn, Group
<1> QED
  BY <1>1, <1>2, InitTypes, InitApart, TypesStep, ApartStep, CoveredStep, PTL DEF Spec

-----------------------------------------------------------------------------
(* What is reported for a key that never raced did happen in the window.   *)

(* What the map holds for k: nothing, or the value of its element. *)
View(s, m, k) == IF s[k] = NULL THEN <<>> ELSE <<m[s[k]]>>

(* The executions of k since time s. *)
Since(ex, k, s) == {i \in DOMAIN ex : ex[i].key = k /\ ex[i].now >= s}

(* An element counts no more than happened since its window began; before  *)
(* the program in flight has read it, at least one less.                   *)
Within(ex, k, e) == e.count <= Cardinality(Since(ex, k, e.start))
Room(ex, k, e) == e.count + 1 <= Cardinality(Since(ex, k, e.start))

(* The only program of k, where it stands. *)
Sound(r, es, ex, k) ==
  /\ \E i \in DOMAIN ex : ex[i].key = k /\ ex[i].now = r.now
  /\ \A i \in DOMAIN ex : ex[i].key = k => ex[i].now <= r.now
  /\ \A j \in 1..Len(es) : es[j].start <= r.now
  /\ r.pc \in OnElem => Len(es) = 1
  /\ r.pc = "insert" => Len(es) = 0
  /\ r.pc \in Before => \A j \in 1..Len(es) : Room(ex, k, es[j])
  /\ r.pc \in {"load", "store"} => r.now - es[1].start <= WINDOW
  /\ r.pc = "store" => r.val = es[1].count + 1 /\ Room(ex, k, es[1])
  /\ r.pc = "reset" => /\ "count" \in r.todo \/ es[1].count = 1
                       /\ "start" \in r.todo \/ es[1].start = r.now
  /\ r.pc = "submit" =>
       /\ \A j \in 1..Len(es) : /\ Within(ex, k, es[j]) /\ r.val = es[j].count
                                /\ r.now - es[j].start <= WINDOW
       /\ \/ r.st = NULL /\ r.val = 1
          \/ r.st # NULL /\ Len(es) = 1

Single(k) ==
  /\ InFlight(k) = {} => \A j \in 1..Len(View(stats, mem, k)) : Within(execs, k, View(stats, mem, k)[j])
  /\ \A c \in InFlight(k) : Sound(prog[c], View(stats, mem, k), execs, k)

AllSingle == \A k \in Keys \ raced : Single(k)

(* No time that was noted lies in the future. *)
Clocked ==
  /\ \A i \in DOMAIN execs : execs[i].now <= clock
  /\ \A c \in CPUs : prog[c].pc # "idle" => prog[c].now <= clock
  /\ \A e \in Elems : mem[e].start <= clock

LEMMA SinceFinite ==
  ASSUME NEW ex \in Seq(Execs), NEW k, NEW s
  PROVE  IsFiniteSet(Since(ex, k, s)) /\ Cardinality(Since(ex, k, s)) \in Nat
<1>1. IsFiniteSet(1..Len(ex)) /\ DOMAIN ex = 1..Len(ex)
  BY FS_Interval
<1>2. Since(ex, k, s) \subseteq 1..Len(ex)
  BY <1>1 DEF Since
<1> QED
  BY <1>1, <1>2, FS_Subset, FS_CardinalityType

LEMMA SinceOne ==
  ASSUME NEW ex \in Seq(Execs), NEW k, NEW i \in DOMAIN ex, ex[i].key = k, NEW s \in Nat, ex[i].now >= s
  PROVE  1 <= Cardinality(Since(ex, k, s))
<1>1. i \in Since(ex, k, s)
  BY DEF Since
<1>2. Cardinality(Since(ex, k, s)) # 0
  BY <1>1, SinceFinite, FS_EmptySet
<1> QED
  BY <1>2, SinceFinite
LEMMA SinceOther ==
  ASSUME NEW ex \in Seq(Execs), NEW x \in Execs, NEW s, NEW ex2, Grown(ex, x, ex2), NEW k \in Keys, k # x.key
  PROVE  Since(ex2, k, s) = Since(ex, k, s)
<1>1. /\ DOMAIN ex2 = DOMAIN ex \cup {Len(ex) + 1} /\ Len(ex) + 1 \notin DOMAIN ex
      /\ \A i \in DOMAIN ex : ex2[i] = ex[i]
      /\ ex2[Len(ex) + 1] = x
  BY DEF Grown
<1> QED
  BY <1>1 DEF Since

LEMMA SinceGrows ==
  ASSUME NEW ex \in Seq(Execs), NEW x \in Execs, NEW s \in Nat, NEW ex2, Grown(ex, x, ex2), s <= x.now
  PROVE  Cardinality(Since(ex2, x.key, s)) = Cardinality(Since(ex, x.key, s)) + 1
<1>1. /\ DOMAIN ex2 = DOMAIN ex \cup {Len(ex) + 1} /\ Len(ex) + 1 \notin DOMAIN ex
      /\ \A i \in DOMAIN ex : ex2[i] = ex[i]
      /\ ex2[Len(ex) + 1] = x
  BY DEF Grown
<1>2. x.now \in Nat /\ x.now >= s
  BY DEF Execs
<1>3. Since(ex2, x.key, s) = Since(ex, x.key, s) \cup {Len(ex) + 1}
      /\ Len(ex) + 1 \notin Since(ex, x.key, s)
  BY <1>1, <1>2 DEF Since
<1> QED
  BY <1>3, SinceFinite, FS_AddElement

(* Within the model's time the unsigned difference is the difference.      *)
LEMMA WindowDiffers ==
  ASSUME NEW n \in Nat, NEW s \in Nat, s <= n, n <= MaxTime
  PROVE  WindowOver(n, s) <=> n - s > WINDOW
<1>0. TimeMod \in Nat /\ n < TimeMod
  BY ExecguardAssumption
<1>1. n - s \in Nat /\ n - s < TimeMod
  BY <1>0
<1>2. \A a, b \in Nat : a < b => a % b = a
  OBVIOUS
<1>3. (n - s) % TimeMod = n - s
  BY <1>0, <1>1, <1>2
<1> QED
  BY <1>3 DEF WindowOver
LEMMA ViewIs ==
  ASSUME NEW s \in [Keys -> Elems \cup {NULL}], NEW m \in [Elems -> Values], NEW k \in Keys
  PROVE  /\ View(s, m, k) \in Seq(Values)
         /\ s[k] = NULL => View(s, m, k) = <<>> /\ Len(View(s, m, k)) = 0
         /\ s[k] # NULL => /\ s[k] \in Elems /\ m[s[k]] \in Values
                           /\ View(s, m, k) = <<m[s[k]]>> /\ Len(View(s, m, k)) = 1
                           /\ View(s, m, k)[1] = m[s[k]]
<1>1. CASE s[k] = NULL
  BY <1>1 DEF View
<1>2. CASE s[k] # NULL
  <2>1. s[k] \in Elems /\ m[s[k]] \in Values
    BY <1>2
  <2>2. PICK v \in Values : v = m[s[k]]
    BY <2>1
  <2>3. View(s, m, k) = <<v>> /\ <<v>> \in Seq(Values) /\ Len(<<v>>) = 1 /\ <<v>>[1] = v
    BY <1>2, <2>2 DEF View
  <2> QED
    BY <1>2, <2>1, <2>2, <2>3
<1> QED
  BY <1>1, <1>2

LEMMA ViewTypes ==
  ASSUME Types, NEW k \in Keys
  PROVE  /\ View(stats, mem, k) \in Seq(Values)
         /\ stats[k] = NULL => View(stats, mem, k) = <<>> /\ Len(View(stats, mem, k)) = 0
         /\ stats[k] # NULL => /\ stats[k] \in Elems /\ mem[stats[k]] \in Values
                               /\ View(stats, mem, k) = <<mem[stats[k]]>>
                               /\ Len(View(stats, mem, k)) = 1
                               /\ View(stats, mem, k)[1] = mem[stats[k]]
BY ViewIs DEF Types

(* What a program of a key that did not race makes of the key's element.   *)
LEMMA OwnView ==
  ASSUME Types, Apart, NEW c \in CPUs, NEW r \in Frames, NEW r2, Ran(c, r, r2), Did(r, r2),
         NEW k \in Keys, k = r.key, k \notin raced'
  PROVE  /\ InFlight(k) = {c} /\ r.st \in {NULL, stats[k]}
         /\ r.st # NULL => mem[r.st] = View(stats, mem, k)[1]
         /\ UNCHANGED <<stats, mem>> => View(stats', mem', k) = View(stats, mem, k)
         /\ \A v \in Values : stats' = stats /\ r.st # NULL /\ Writes(r, v) =>
              View(stats', mem', k) = <<v>>
         /\ \A e \in Elems : Fills(r, e) =>
              stats'[k] = e /\ View(stats', mem', k) = <<[start |-> r.now, count |-> 1]>>
<1>0. /\ r = prog[c] /\ k \notin raced /\ stats \in [Keys -> Elems \cup {NULL}]
      /\ mem \in [Elems -> Values] /\ NULL \notin Elems /\ r.st \in Elems \cup {NULL}
  BY StepFacts, ExecguardAssumption DEF Types
<1>1. c \in InFlight(k) /\ \A d \in InFlight(k) : d = c
  BY <1>0, HandleOwns DEF Apart
<1>2. r.st \in {NULL, stats[k]}
  BY <1>0, <1>1 DEF Apart
<1>3. r.st # NULL => mem[r.st] = View(stats, mem, k)[1]
  BY <1>2, ViewTypes
<1>4. UNCHANGED <<stats, mem>> => View(stats', mem', k) = View(stats, mem, k)
  OBVIOUS
<1>5. ASSUME NEW v \in Values, stats' = stats, r.st # NULL, Writes(r, v)
      PROVE  View(stats', mem', k) = <<v>>
  <2>1. stats'[k] = r.st /\ mem'[r.st] = v
    BY <1>0, <1>2, <1>5 DEF Writes
  <2> QED
    BY <1>5, <2>1 DEF View
<1>6. ASSUME NEW e \in Elems, Fills(r, e)
      PROVE  stats'[k] = e /\ View(stats', mem', k) = <<[start |-> r.now, count |-> 1]>>
  <2>1. stats'[k] = e /\ mem'[e] = [start |-> r.now, count |-> 1] /\ e # NULL
    BY <1>0, <1>6 DEF Fills
  <2> QED
    BY <2>1 DEF View
<1> QED
  BY <1>1, <1>2, <1>3, <1>4, <1>5, <1>6

(* A program of another key does not touch it. *)
LEMMA OtherView ==
  ASSUME Types, Apart, NEW c \in CPUs, NEW r \in Frames, NEW r2, Ran(c, r, r2), Did(r, r2),
         NEW q \in Keys, q # r.key, q \notin raced'
  PROVE  /\ stats'[q] = stats[q] /\ View(stats', mem', q) = View(stats, mem, q)
         /\ stats[q] # NULL => mem'[stats[q]] = mem[stats[q]]
         /\ InFlight(q)' = InFlight(q) /\ \A d \in InFlight(q) : prog'[d] = prog[d]
<1>0. /\ r = prog[c] /\ r.key \in Keys /\ q \notin raced /\ NULL \notin Elems
      /\ stats \in [Keys -> Elems \cup {NULL}] /\ mem \in [Elems -> Values]
  BY StepFacts, ExecguardAssumption DEF Types
<1>1. c \in InFlight(r.key) /\ c \notin InFlight(q)
      /\ InFlight(q)' = (IF r2.pc = "idle" THEN InFlight(q) \ {c} ELSE InFlight(q))
      /\ \A d \in InFlight(q) : d # c => prog'[d] = prog[d]
  BY HandleOwns
<1>2. InFlight(q)' = InFlight(q) /\ \A d \in InFlight(q) : prog'[d] = prog[d]
  BY <1>1
<1>3. stats'[q] = stats[q] /\ (stats[q] # NULL => mem'[stats[q]] = mem[stats[q]])
  <2>1. CASE UNCHANGED <<stats, mem>>
    BY <2>1
  <2>2. ASSUME NEW e \in Elems, Fills(r, e)
        PROVE  stats'[q] = stats[q] /\ (stats[q] # NULL => mem'[stats[q]] = mem[stats[q]])
    BY <1>0, <2>2 DEF Fills, Unused
  <2>3. ASSUME NEW v \in Values, stats' = stats, r.st \in Elems, Writes(r, v)
        PROVE  stats[q] # NULL => mem'[stats[q]] = mem[stats[q]]
    <3>1. Owns(r.key, r.st)
      BY <1>0, <1>1 DEF Owns
    <3>2. stats[q] # r.st
      BY <1>0, <2>3, <3>1 DEF Apart, Owns
    <3> QED
      BY <1>0, <2>3, <3>2 DEF Writes
  <2> QED
    BY <2>1, <2>2, <2>3, StepFacts
<1> QED
  BY <1>2, <1>3 DEF View

(* Clocked is kept. *)
LEMMA ClockedStep == Types /\ Clocked /\ [Next]_vars => Clocked'
<1> SUFFICES ASSUME Types, Clocked, [Next]_vars PROVE Clocked'
  OBVIOUS
<1>1. CASE UNCHANGED vars
  BY <1>1 DEF vars, Clocked
<1>2. CASE Tick
  <2>1. /\ clock \in Nat /\ clock' = clock + 1 /\ UNCHANGED <<prog, mem, execs>>
        /\ \A i \in DOMAIN execs : execs[i].now \in Nat
    BY <1>2, HistoryTypes DEF Tick, Types
  <2>2. \A c \in CPUs : prog[c].pc # "idle" => prog[c].now \in Nat
    BY FrameTypes
  <2>3. \A e \in Elems : mem[e].start \in Nat
    BY DEF Types, Values
  <2> QED
    BY <2>1, <2>2, <2>3 DEF Clocked
<1>3. ASSUME NEW c \in CPUs, NEW k \in Keys, NEW r2, Began(c, k, r2) PROVE Clocked'
  <2>1. [key |-> k, now |-> clock] \in Execs /\ [key |-> k, now |-> clock].now = clock
    BY DEF Execs, Types
  <2>2. PICK x \in Execs : x = [key |-> k, now |-> clock] /\ x.now = clock
    BY <2>1
  <2>3. execs' = Append(execs, x) /\ execs \in Seq(Execs) /\ clock \in Nat
    BY <1>3, <2>2 DEF Began, Types
  <2>4. \A i \in DOMAIN execs' : (i \in DOMAIN execs /\ execs'[i] = execs[i]) \/ execs'[i] = x
    BY <2>3
  <2>5. \A i \in DOMAIN execs' : execs'[i].now <= clock
    BY <2>2, <2>3, <2>4 DEF Clocked
  <2>6. \A d \in CPUs : prog'[d] = prog[d] \/ prog'[d].now = clock
    BY <1>3 DEF Began, Types
  <2> QED
    BY <1>3, <2>3, <2>5, <2>6 DEF Began, Clocked
<1>4. ASSUME NEW c \in CPUs, NEW r \in Frames, NEW r2, Ran(c, r, r2), Did(r, r2) PROVE Clocked'
  <2>a. UNCHANGED <<clock, execs>> /\ mem \in [Elems -> Values]
    BY <1>4 DEF Ran, Types
  <2>b. /\ r = prog[c] /\ r.pc # "idle" /\ prog'[c] = r2
        /\ \A d \in CPUs : d # c => prog'[d] = prog[d]
        /\ r2 = Idle \/ Same(r, r2)
    BY <1>4, StepFacts
  <2>0. /\ r = prog[c] /\ r.pc # "idle" /\ prog'[c] = r2 /\ UNCHANGED <<clock, execs>>
        /\ \A d \in CPUs : d # c => prog'[d] = prog[d]
        /\ r2.pc # "idle" => r2.now = r.now
        /\ mem \in [Elems -> Values]
    BY <2>a, <2>b DEF Same, Idle
  <2>1. r.now <= clock
    BY <2>0 DEF Clocked
  <2>2. \A d \in CPUs : prog'[d].pc # "idle" => prog'[d].now <= clock
    BY <2>0, <2>1 DEF Clocked
  <2>3. ASSUME NEW v \in Values, Writes(r, v), r.st \in Elems, v.start = r.now \/ v.start = mem[r.st].start
        PROVE  \A e \in Elems : mem'[e].start <= clock
    BY <2>0, <2>1, <2>3 DEF Writes, Clocked
  <2>4. \A e \in Elems : mem'[e].start <= clock
    <3>1. CASE mem' = mem
      BY <3>1 DEF Clocked
    <3>2. CASE DidReset(r, r2)
      <4>1. PICK v \in Values : Writes(r, v) /\ (v.start = r.now \/ v.start = mem[r.st].start)
        BY <3>2 DEF DidReset, ResetTo
      <4> QED
        BY <1>4, <2>3, <3>2, <4>1, StepFacts DEF DidReset, OnElem
    <3>3. CASE DidStore(r, r2)
      <4>1. PICK v \in Values : Writes(r, v) /\ v.start = mem[r.st].start
        BY <3>3 DEF DidStore
      <4> QED
        BY <1>4, <2>3, <3>3, <4>1, StepFacts DEF DidStore, OnElem
    <3>4. ASSUME NEW f \in Elems, Fills(r, f) PROVE \A e \in Elems : mem'[e].start <= clock
      BY <2>0, <2>1, <3>4 DEF Fills, Clocked
    <3> QED
      BY <1>4, <3>1, <3>2, <3>3, <3>4
      DEF Did, DidFail, DidLookup, DidInsert, DidWindow, DidLoad, DidSubmit
  <2> QED
    BY <2>0, <2>2, <2>4 DEF Clocked
<1> QED
  BY <1>1, <1>2, <1>3, <1>4, StepKinds

(* What a step of the only program of a key makes of its element: es       *)
(* becomes es2.                                                            *)
Keeps(r2, es2, ex, k) ==
  /\ r2.pc = "idle" => \A j \in 1..Len(es2) : Within(ex, k, es2[j])
  /\ r2.pc # "idle" => Sound(r2, es2, ex, k)

LEMMA SoundStep ==
  ASSUME Types, Apart, Clocked, NEW c \in CPUs, NEW r \in Frames, NEW r2, Ran(c, r, r2), Did(r, r2),
         NEW k \in Keys, k = r.key, k \notin raced', Sound(r, View(stats, mem, k), execs, k)
  PROVE  Keeps(r2, View(stats', mem', k), execs, k)
<1>0. /\ r = prog[c] /\ r.pc # "idle" /\ execs' = execs
      /\ r.now \in Nat /\ r.val \in Nat /\ r.now <= clock
      /\ r.pc \in OnElem => r.st \in Elems /\ r.st # NULL
      /\ r.pc = "insert" => r.st = NULL
  BY StepFacts, ExecguardAssumption DEF Clocked
<1>1. PICK ex \in Seq(Execs) : ex = execs
  BY DEF Types
<1>2. PICK es \in Seq(Values), es2 \in Seq(Values) : es = View(stats, mem, k) /\ es2 = View(stats', mem', k)
  <2>1. Types /\ Types'
    BY HandleTypes
  <2> QED
    BY <2>1, ViewIs DEF Types
<1>3. /\ Sound(r, es, ex, k) /\ Len(es) \in {0, 1}
      /\ stats[k] = NULL <=> Len(es) = 0
      /\ r.st \in {NULL, stats[k]}
      /\ r.st # NULL => mem[r.st] = es[1]
  BY <1>1, <1>2, ViewTypes, OwnView
<1>4. SUFFICES Keeps(r2, es2, ex, k)
  BY <1>1, <1>2
<1>5. \A j \in 1..Len(es) : es[j] \in Values /\ es[j].start \in Nat /\ es[j].count \in Nat
  <2>1. \A j \in 1..Len(es) : es[j] \in Values
    OBVIOUS
  <2> QED
    BY <2>1 DEF Values
<1>6. \A t \in Nat : Cardinality(Since(ex, k, t)) \in Nat
  BY SinceFinite
<1>7. 1 <= Cardinality(Since(ex, k, r.now))
  <2>1. PICK i \in DOMAIN ex : ex[i].key = k /\ ex[i].now = r.now
    BY <1>3 DEF Sound
  <2> QED
    BY <1>0, <2>1, SinceOne
<1>8. \A j \in 1..Len(es) : Room(ex, k, es[j]) => Within(ex, k, es[j])
  BY <1>5, <1>6 DEF Room, Within
<1>a. UNCHANGED <<stats, mem>> => es2 = es
  BY <1>2
<1>b. ASSUME NEW v \in Values, stats' = stats, r.pc \in OnElem, Writes(r, v)
      PROVE  /\ Len(es) = 1 /\ Len(es2) = 1 /\ es2[1] = v /\ \A j \in 1..Len(es2) : es2[j] = v
             /\ mem[r.st] = es[1]
  <2>1. es2 = <<v>>
    BY <1>0, <1>2, <1>b, OwnView
  <2>2. Len(es) = 1
    BY <1>3, <1>b DEF Sound
  <2>3. mem[r.st] = es[1]
    BY <1>0, <1>3, <1>b
  <2> QED
    BY <2>1, <2>2, <2>3
<1>9. CASE DidFail(r, r2)
  <2>1. es2 = es /\ r.pc \in Before /\ r2.pc = "idle"
    BY <1>a, <1>9 DEF DidFail, Before, Idle
  <2>2. \A j \in 1..Len(es) : Within(ex, k, es[j])
    BY <1>3, <1>8, <2>1 DEF Sound
  <2> QED
    BY <2>1, <2>2 DEF Keeps
<1>11. CASE DidLookup(r, r2)
  <2>1. es2 = es /\ r.pc \in Before /\ r2.now = r.now
        /\ r2.pc = (IF stats[k] # NULL THEN "window" ELSE "insert")
    BY <1>a, <1>11 DEF DidLookup, Before, Same
  <2> QED
    BY <1>3, <2>1 DEF Keeps, Sound, OnElem
<1>12. CASE DidInsert(r, r2)
  <2>1. r.pc = "insert" /\ r2.pc = "submit" /\ r2.now = r.now /\ r2.st = NULL /\ r2.val = 1
    BY <1>0, <1>12 DEF DidInsert, Same
  <2>2. Len(es) = 0
    BY <1>3, <2>1 DEF Sound
  <2>3. CASE UNCHANGED <<stats, mem>>
    <3>1. es2 = es
      BY <1>a, <2>3
    <3> QED
      BY <1>3, <2>1, <2>2, <3>1 DEF Keeps, Sound, OnElem, Before
  <2>4. ASSUME NEW f \in Elems, Fills(r, f) PROVE Keeps(r2, es2, ex, k)
    <3>a. [start |-> r.now, count |-> 1] \in Values
      BY <1>0 DEF Values
    <3>1. PICK e \in Values : e = [start |-> r.now, count |-> 1] /\ e.start = r.now /\ e.count = 1
      BY <3>a
    <3>2. es2 = <<e>>
      BY <1>2, <2>4, <3>1, OwnView
    <3>3. Len(es2) = 1 /\ \A j \in 1..Len(es2) : es2[j] = e
      BY <3>2
    <3>4. Within(ex, k, e) /\ r.now - e.start <= WINDOW
      BY <1>0, <1>7, <3>1, ExecguardAssumption DEF Within
    <3> QED
      BY <1>0, <1>3, <2>1, <2>2, <3>1, <3>3, <3>4 DEF Keeps, Sound, OnElem, Before
  <2> QED
    BY <1>12, <2>3, <2>4 DEF DidInsert
<1>13. CASE DidWindow(r, r2)
  <2>1. r.pc = "window" /\ es2 = es /\ r2.now = r.now /\ r2.st = r.st /\ r2.val = r.val
    BY <1>a, <1>13 DEF DidWindow, Same
  <2>a. r.pc \in OnElem /\ r.pc \in Before
    BY <2>1 DEF OnElem, Before
  <2>b. Len(es) = 1 /\ mem[r.st] = es[1]
    BY <1>0, <1>3, <2>a DEF Sound
  <2>2. es[1].start <= r.now /\ Room(ex, k, es[1])
    BY <1>3, <2>a, <2>b DEF Sound
  <2>c. es[1].start \in Nat /\ r.now <= MaxTime
    <3>1. clock \in Nat /\ clock <= MaxTime /\ MaxTime \in Nat
      BY ExecguardAssumption DEF Types
    <3> QED
      BY <1>0, <1>5, <2>b, <3>1
  <2>3. WindowOver(r.now, es[1].start) <=> r.now - es[1].start > WINDOW
    BY <1>0, <2>2, <2>c, WindowDiffers
  <2>4. CASE WindowOver(r.now, es[1].start) /\ r2.pc = "reset" /\ r2.todo = {"start", "count"}
    BY <1>3, <2>1, <2>b, <2>2, <2>4 DEF Keeps, Sound, OnElem, Before
  <2>5. CASE ~WindowOver(r.now, es[1].start) /\ r2.pc = "load"
    <3>1. r.now - es[1].start <= WINDOW
      BY <1>0, <2>c, <2>3, <2>5, ExecguardAssumption
    <3> QED
      BY <1>3, <2>1, <2>b, <2>2, <2>5, <3>1 DEF Keeps, Sound, OnElem, Before
  <2> QED
    BY <1>13, <2>b, <2>4, <2>5 DEF DidWindow
<1>15. CASE DidReset(r, r2)
  <2>1. /\ r.pc = "reset" /\ r.pc \in OnElem /\ r2.now = r.now /\ r2.st = r.st /\ r2.val = 1
        /\ r2.pc = (IF r2.todo = {} THEN "submit" ELSE "reset")
    BY <1>15 DEF DidReset, Same, OnElem
  <2>2. PICK e \in Values : Writes(r, e) /\ ResetTo(r, r2, e)
    BY <1>15 DEF DidReset
  <2>3. /\ Len(es) = 1 /\ Len(es2) = 1 /\ es2[1] = e /\ mem[r.st] = es[1] /\ r.st # NULL
        /\ \A j \in 1..Len(es2) : es2[j] = e
    BY <1>0, <1>15, <1>b, <2>1, <2>2 DEF DidReset
  <2>4. /\ "count" \in r.todo \/ es[1].count = 1
        /\ "start" \in r.todo \/ es[1].start = r.now
        /\ es[1].start <= r.now
    BY <1>3, <2>1, <2>3 DEF Sound
  <2>5. /\ "count" \in r2.todo \/ e.count = 1
        /\ "start" \in r2.todo \/ e.start = r.now
        /\ e.start <= r.now
    BY <1>0, <2>2, <2>3, <2>4 DEF ResetTo
  <2>6. \A j \in 1..Len(es2) : j = 1
    BY <2>3
  <2>7. CASE r2.todo = {}
    <3>1. r2.pc = "submit" /\ e.count = 1 /\ e.start = r.now
      BY <2>1, <2>5, <2>7
    <3>2. Within(ex, k, e) /\ r.now - e.start <= WINDOW
      BY <1>0, <1>7, <3>1, ExecguardAssumption DEF Within
    <3> QED
      BY <1>0, <1>3, <2>1, <2>3, <2>6, <3>1, <3>2, SMTT(40) DEF Keeps, Sound, OnElem, Before
  <2>8. CASE r2.todo # {}
    BY <1>3, <2>1, <2>3, <2>5, <2>6, <2>8 DEF Keeps, Sound, OnElem, Before
  <2> QED
    BY <2>7, <2>8
<1>16. CASE DidLoad(r, r2)
  <2>1. r.pc = "load" /\ r.pc \in OnElem /\ r.pc \in Before /\ es2 = es /\ r2.now = r.now
        /\ r2.pc = "store" /\ r2.val = mem[r.st].count + 1
    BY <1>a, <1>16 DEF DidLoad, Same, OnElem, Before
  <2>2. Len(es) = 1 /\ mem[r.st] = es[1]
    BY <1>0, <1>3, <2>1 DEF Sound
  <2>3. Room(ex, k, es[1]) /\ r.now - es[1].start <= WINDOW
    BY <1>3, <2>1, <2>2 DEF Sound
  <2> QED
    BY <1>3, <2>1, <2>2, <2>3 DEF Keeps, Sound, OnElem, Before
<1>17. CASE DidStore(r, r2)
  <2>1. r.pc = "store" /\ r.pc \in OnElem /\ r2.now = r.now /\ r2.st = r.st /\ r2.val = r.val
        /\ r2.pc = "submit"
    BY <1>17 DEF DidStore, Same, OnElem
  <2>2. PICK e \in Values : Writes(r, e) /\ e.start = mem[r.st].start /\ e.count = r.val
    BY <1>17 DEF DidStore
  <2>3. /\ Len(es) = 1 /\ Len(es2) = 1 /\ es2[1] = e /\ mem[r.st] = es[1] /\ r.st # NULL
        /\ \A j \in 1..Len(es2) : es2[j] = e
    BY <1>0, <1>17, <1>b, <2>1, <2>2 DEF DidStore
  <2>4. /\ r.now - es[1].start <= WINDOW /\ es[1].start <= r.now
        /\ r.val = es[1].count + 1 /\ Room(ex, k, es[1])
    BY <1>3, <2>1, <2>3 DEF Sound
  <2>5. Within(ex, k, e) /\ e.start = es[1].start
    BY <2>2, <2>3, <2>4 DEF Within, Room
  <2>6. \A j \in 1..Len(es2) : j = 1
    BY <2>3
  <2> QED
    BY <1>3, <2>1, <2>2, <2>3, <2>4, <2>5, <2>6 DEF Keeps, Sound, OnElem, Before
<1>18. CASE DidSubmit(r, r2)
  <2>1. es2 = es /\ r.pc = "submit" /\ r2.pc = "idle"
    BY <1>a, <1>18 DEF DidSubmit, Idle
  <2> QED
    BY <1>3, <2>1 DEF Keeps, Sound
<1> QED
  BY <1>9, <1>11, <1>12, <1>13, <1>15, <1>16, <1>17, <1>18 DEF Did

(* An execution of another key changes nothing for k. *)
LEMMA OtherExec ==
  ASSUME NEW ex \in Seq(Execs), NEW x \in Execs, NEW ex2, Grown(ex, x, ex2), NEW es \in Seq(Values),
         NEW k \in Keys, k # x.key
  PROVE  /\ \A j \in 1..Len(es) : Within(ex, k, es[j]) => Within(ex2, k, es[j])
         /\ \A r \in Frames : Sound(r, es, ex, k) => Sound(r, es, ex2, k)
<1>1. \A j \in 1..Len(es) : es[j] \in Values
  OBVIOUS
<1>2. \A j \in 1..Len(es) : es[j].start \in Nat
  BY <1>1 DEF Values
<1>3. \A j \in 1..Len(es) : Since(ex2, k, es[j].start) = Since(ex, k, es[j].start)
  BY SinceOther
<1>4. \A j \in 1..Len(es) : /\ Within(ex2, k, es[j]) <=> Within(ex, k, es[j])
                            /\ Room(ex2, k, es[j]) <=> Room(ex, k, es[j])
  BY <1>3 DEF Within, Room
<1>5. /\ DOMAIN ex2 = DOMAIN ex \cup {Len(ex) + 1}
      /\ \A i \in DOMAIN ex : ex2[i] = ex[i]
      /\ ex2[Len(ex) + 1] = x
  BY DEF Grown
<1>6. ASSUME NEW r \in Frames, Sound(r, es, ex, k) PROVE Sound(r, es, ex2, k)
  <2>1. \E i \in DOMAIN ex2 : ex2[i].key = k /\ ex2[i].now = r.now
    BY <1>5, <1>6 DEF Sound
  <2>2. \A i \in DOMAIN ex2 : ex2[i].key = k => ex2[i].now <= r.now
    BY <1>5, <1>6 DEF Sound
  <2>3. r.pc = "store" => Len(es) = 1
    BY <1>6 DEF Sound, OnElem
  <2>4. r.pc = "store" => Room(ex2, k, es[1])
    <3> SUFFICES ASSUME r.pc = "store" PROVE Room(ex2, k, es[1])
      OBVIOUS
    <3>1. Len(es) = 1 /\ Room(ex, k, es[1])
      BY <1>6, <2>3 DEF Sound
    <3>2. 1 \in 1..1
      OBVIOUS
    <3> QED
      BY <1>4, <3>1, <3>2
  <2> QED
    BY <1>4, <1>6, <2>1, <2>2, <2>4 DEF Sound
<1> QED
  BY <1>4, <1>6

(* The first program in flight of its key finds room for its own count. *)
LEMMA OwnExec ==
  ASSUME NEW ex \in Seq(Execs), NEW x \in Execs, NEW ex2, Grown(ex, x, ex2), NEW es \in Seq(Values),
         \A i \in DOMAIN ex : ex[i].now <= x.now,
         \A j \in 1..Len(es) : es[j].start <= x.now /\ Within(ex, x.key, es[j]),
         NEW r, r.pc = "reserve", r.now = x.now
  PROVE  Sound(r, es, ex2, x.key)
<1>1. \A j \in 1..Len(es) : es[j] \in Values
  OBVIOUS
<1>2. \A j \in 1..Len(es) : es[j].start \in Nat /\ es[j].count \in Nat
  BY <1>1 DEF Values
<1>3. \A j \in 1..Len(es) : Cardinality(Since(ex2, x.key, es[j].start)) = Cardinality(Since(ex, x.key, es[j].start)) + 1
  BY <1>2, SinceGrows
<1>4. \A j \in 1..Len(es) : Cardinality(Since(ex, x.key, es[j].start)) \in Nat
  BY SinceFinite
<1>5. \A j \in 1..Len(es) : Room(ex2, x.key, es[j])
  BY <1>2, <1>3, <1>4 DEF Within, Room
<1>6. /\ DOMAIN ex2 = DOMAIN ex \cup {Len(ex) + 1}
      /\ \A i \in DOMAIN ex : ex2[i] = ex[i]
      /\ ex2[Len(ex) + 1] = x
  BY DEF Grown
<1>7. x.now \in Nat
  BY DEF Execs
<1>8. /\ \E i \in DOMAIN ex2 : ex2[i].key = x.key /\ ex2[i].now = r.now
      /\ \A i \in DOMAIN ex2 : ex2[i].key = x.key => ex2[i].now <= r.now
  BY <1>6, <1>7
<1> QED
  BY <1>5, <1>8 DEF Sound, OnElem

LEMMA BeganSingle ==
  ASSUME Types, Clocked, AllSingle, NEW c \in CPUs, NEW k \in Keys, NEW r2, Began(c, k, r2),
         NEW q \in Keys, q \notin raced'
  PROVE  Single(q)'
<1>0. /\ stats' = stats /\ mem' = mem /\ prog'[c] = r2 /\ prog[c].pc = "idle" /\ clock \in Nat
      /\ r2.pc = "reserve" /\ r2.key = k /\ r2.now = clock
      /\ \A d \in CPUs : d # c => prog'[d] = prog[d]
      /\ q \notin raced /\ (q = k => InFlight(k) = {})
  BY DEF Began, Types
<1>1. Single(q)
  BY <1>0 DEF AllSingle
<1>2. [key |-> k, now |-> clock] \in Execs
  BY <1>0 DEF Execs
<1>3. PICK x \in Execs : x = [key |-> k, now |-> clock] /\ x.key = k /\ x.now = clock
  BY <1>2
<1>4. PICK ex \in Seq(Execs), ex2 \in {execs'} : ex = execs /\ ex2 = execs' /\ Grown(ex, x, ex2)
  BY <1>3 DEF Began, Types, Grown
<1>5. PICK es \in Seq(Values) : es = View(stats, mem, q) /\ es = View(stats', mem', q)
  BY <1>0, ViewTypes
<1>6. CASE q # k
  <2>1. InFlight(q)' = InFlight(q) /\ \A d \in InFlight(q) : prog'[d] = prog[d] /\ prog[d] \in Frames
    <3>1. InFlight(q)' = InFlight(q) /\ \A d \in InFlight(q) : prog'[d] = prog[d]
      BY <1>0, <1>6 DEF InFlight
    <3> QED
      BY <3>1, FrameTypes DEF InFlight
  <2>2. /\ \A j \in 1..Len(es) : Within(ex, q, es[j]) => Within(ex2, q, es[j])
        /\ \A r \in Frames : Sound(r, es, ex, q) => Sound(r, es, ex2, q)
    BY <1>3, <1>4, <1>6, OtherExec
  <2>3. \A d \in InFlight(q) : Sound(prog'[d], es, ex2, q)
    BY <1>1, <1>4, <1>5, <2>1, <2>2 DEF Single
  <2>4. InFlight(q) = {} => \A j \in 1..Len(es) : Within(ex2, q, es[j])
    BY <1>1, <1>4, <1>5, <2>2 DEF Single
  <2> QED
    BY <1>4, <1>5, <2>1, <2>3, <2>4 DEF Single
<1>7. CASE q = k
  <2>1. InFlight(q)' = {c}
    BY <1>0, <1>7 DEF InFlight
  <2>a. \A j \in 1..Len(es) : es[j].start <= clock
    <3>1. CASE stats[q] = NULL
      <4>1. Len(es) = 0
        BY <1>5, <3>1, ViewTypes
      <4> QED
        BY <4>1
    <3>2. CASE stats[q] # NULL
      <4>1. stats[q] \in Elems /\ Len(es) = 1 /\ es[1] = mem[stats[q]]
        BY <1>5, <3>2, ViewTypes
      <4>2. \A j \in 1..Len(es) : j = 1
        BY <4>1
      <4> QED
        BY <4>1, <4>2 DEF Clocked
    <3> QED
      BY <3>1, <3>2
  <2>2. /\ \A i \in DOMAIN ex : ex[i].now <= x.now
        /\ \A j \in 1..Len(es) : es[j].start <= x.now /\ Within(ex, x.key, es[j])
    BY <1>0, <1>1, <1>3, <1>4, <1>5, <1>7, <2>a DEF Clocked, Single
  <2>3. Sound(r2, es, ex2, q)
    BY <1>0, <1>3, <1>4, <1>7, <2>2, OwnExec
  <2> QED
    BY <1>0, <1>4, <1>5, <2>1, <2>3 DEF Single
<1> QED
  BY <1>6, <1>7

LEMMA HandleSingle ==
  ASSUME Types, Apart, Clocked, AllSingle, NEW c \in CPUs, NEW r \in Frames, NEW r2, Ran(c, r, r2), Did(r, r2),
         NEW q \in Keys, q \notin raced'
  PROVE  Single(q)'
<1>0. r = prog[c] /\ prog'[c] = r2 /\ execs' = execs /\ q \notin raced
  BY StepFacts
<1>1. Single(q)
  BY <1>0 DEF AllSingle
<1>3. CASE q # r.key
  BY <1>0, <1>1, <1>3, OtherView DEF Single
<1>4. CASE q = r.key
  <2>1. InFlight(q) = {c}
    BY <1>4, OwnView
  <2>2. InFlight(q)' = (IF r2.pc = "idle" THEN {} ELSE {c})
    BY <2>1, HandleOwns
  <2>3. Sound(r, View(stats, mem, q), execs, q)
    BY <1>0, <1>1, <2>1 DEF Single
  <2>4. Keeps(r2, View(stats', mem', q), execs, q)
    BY <1>4, <2>3, SoundStep
  <2> QED
    BY <1>0, <2>2, <2>4 DEF Keeps, Single
<1> QED
  BY <1>3, <1>4

LEMMA SingleStep == Types /\ Apart /\ Clocked /\ AllSingle /\ [Next]_vars => AllSingle'
<1> SUFFICES ASSUME Types, Apart, Clocked, AllSingle, [Next]_vars, NEW q \in Keys, q \notin raced'
             PROVE  Single(q)'
  BY DEF AllSingle, Types
<1>1. CASE Tick \/ UNCHANGED vars
  <2>1. UNCHANGED <<prog, stats, mem, execs, raced>>
    BY <1>1 DEF Tick, vars
  <2>2. InFlight(q)' = InFlight(q) /\ Single(q)
    BY <2>1 DEF InFlight, AllSingle
  <2> QED
    BY <2>1, <2>2 DEF Single
<1> QED
  BY <1>1, StepKinds, BeganSingle, HandleSingle

(* The executions of k in an interval. *)
During(ex, k, t, u) == {i \in DOMAIN ex : ex[i].key = k /\ ex[i].now \in t..u}

LEMMA DuringFinite ==
  ASSUME NEW ex \in Seq(Execs), NEW k, NEW t, NEW u
  PROVE  IsFiniteSet(During(ex, k, t, u)) /\ Cardinality(During(ex, k, t, u)) \in Nat
<1>1. IsFiniteSet(1..Len(ex)) /\ DOMAIN ex = 1..Len(ex)
  BY FS_Interval
<1>2. During(ex, k, t, u) \subseteq 1..Len(ex)
  BY <1>1 DEF During
<1> QED
  BY <1>1, <1>2, FS_Subset, FS_CardinalityType

LEMMA DuringGrows ==
  ASSUME NEW ex \in Seq(Execs), NEW x \in Execs, NEW ex2 \in Seq(Execs), Grown(ex, x, ex2),
         NEW k, NEW t, NEW u
  PROVE  Cardinality(During(ex, k, t, u)) <= Cardinality(During(ex2, k, t, u))
<1>1. /\ DOMAIN ex2 = DOMAIN ex \cup {Len(ex) + 1}
      /\ \A i \in DOMAIN ex : ex2[i] = ex[i]
  BY DEF Grown
<1>2. During(ex, k, t, u) \subseteq During(ex2, k, t, u)
  BY <1>1 DEF During
<1> QED
  BY <1>2, DuringFinite, FS_Subset

LEMMA BetweenDuring ==
  /\ \A k, t, u : Between(k, t, u) = Cardinality(During(execs, k, t, u))
  /\ \A k, t, u : Between(k, t, u)' = Cardinality(During(execs', k, t, u))
<1>1. \A k, t, u : {i \in ExecsOf(k) : execs[i].now \in t..u} = During(execs, k, t, u)
  BY DEF ExecsOf, During
<1>2. \A k, t, u : {i \in ExecsOf(k)' : execs'[i].now \in t..u} = During(execs', k, t, u)
  BY DEF ExecsOf, During
<1> QED
  BY <1>1, <1>2 DEF Between

(* Everything since the window of the element began lies in the WINDOW     *)
(* before the program's time.                                              *)
LEMMA SinceDuring ==
  ASSUME NEW ex \in Seq(Execs), NEW k, NEW n \in Nat, NEW s \in Nat, n - s <= WINDOW,
         \A i \in DOMAIN ex : ex[i].key = k => ex[i].now <= n
  PROVE  Cardinality(Since(ex, k, s)) <= Cardinality(During(ex, k, n - WINDOW, n))
<1>0. WINDOW \in Nat
  BY ExecguardAssumption
<1>1. \A i \in DOMAIN ex : ex[i] \in Execs
  OBVIOUS
<1>2. \A i \in DOMAIN ex : ex[i].now \in Nat
  BY <1>1 DEF Execs
<1>3. Since(ex, k, s) \subseteq During(ex, k, n - WINDOW, n)
  BY <1>0, <1>2 DEF Since, During
<1> QED
  BY <1>3, DuringFinite, SinceFinite, FS_Subset

(* What the only program of k submits. *)
LEMMA SubmitSound ==
  ASSUME NEW ex \in Seq(Execs), NEW es \in Seq(Values), NEW r \in Frames, NEW k, Sound(r, es, ex, k),
         r.pc = "submit", NEW n \in Nat, n = r.val \/ (r.st # NULL /\ n = es[1].count)
  PROVE  n <= Cardinality(During(ex, k, r.now - WINDOW, r.now))
<1>0. /\ r.now \in Nat /\ \A i \in DOMAIN ex : ex[i].key = k => ex[i].now <= r.now
      /\ r.now - r.now <= WINDOW
  BY ExecguardAssumption DEF Sound, Frames
<1>1. Cardinality(During(ex, k, r.now - WINDOW, r.now)) \in Nat
  BY DuringFinite
<1>2. CASE r.st = NULL /\ r.val = 1
  <2>1. n = 1
    BY <1>2
  <2>2. PICK i \in DOMAIN ex : ex[i].key = k /\ ex[i].now = r.now
    BY DEF Sound
  <2>3. 1 <= Cardinality(Since(ex, k, r.now))
    BY <1>0, <2>2, SinceOne
  <2>4. Cardinality(Since(ex, k, r.now)) <= Cardinality(During(ex, k, r.now - WINDOW, r.now))
    BY <1>0, SinceDuring
  <2> QED
    BY <1>1, <2>1, <2>3, <2>4, SinceFinite
<1>3. CASE r.st # NULL /\ Len(es) = 1
  <2>1. 1 \in 1..Len(es) /\ es[1] \in Values
    <3>1. \A j \in 1..Len(es) : es[j] \in Values
      OBVIOUS
    <3>2. 1 \in 1..1
      OBVIOUS
    <3> QED
      BY <1>3, <3>1, <3>2
  <2>2. n = es[1].count /\ Within(ex, k, es[1]) /\ r.now - es[1].start <= WINDOW /\ es[1].start \in Nat
    BY <1>3, <2>1 DEF Sound, Values
  <2>3. Cardinality(Since(ex, k, es[1].start)) <= Cardinality(During(ex, k, r.now - WINDOW, r.now))
    BY <1>0, <2>2, SinceDuring
  <2>4. Cardinality(Since(ex, k, es[1].start)) \in Nat
    BY SinceFinite
  <2> QED
    BY <1>1, <2>2, <2>3, <2>4 DEF Within
<1> QED
  BY <1>2, <1>3 DEF Sound

LEMMA CountStep == Types /\ Apart /\ AllSingle /\ CountSound /\ [Next]_vars => CountSound'
<1> SUFFICES ASSUME Types, Apart, AllSingle, CountSound, [Next]_vars, NEW i \in DOMAIN events',
                    events'[i].key \notin raced'
             PROVE  events'[i].count <= Cardinality(During(execs', events'[i].key, events'[i].now - WINDOW, events'[i].now))
  BY BetweenDuring DEF CountSound
<1>0. execs \in Seq(Execs) /\ execs' \in Seq(Execs) /\ events' \in Seq(Reports)
  BY TypesStep DEF Types
<1>1. ASSUME i \in DOMAIN events, events'[i] = events[i], raced \subseteq raced'
      PROVE  events'[i].count <= Cardinality(During(execs, events'[i].key, events'[i].now - WINDOW, events'[i].now))
  BY <1>1, BetweenDuring DEF CountSound
<1>2. CASE Tick \/ UNCHANGED vars
  <2>1. UNCHANGED <<execs, events, raced>>
    BY <1>2 DEF Tick, vars
  <2> QED
    BY <1>1, <2>1
<1>3. ASSUME NEW c \in CPUs, NEW k \in Keys, NEW r2, Began(c, k, r2)
      PROVE  events'[i].count <= Cardinality(During(execs', events'[i].key, events'[i].now - WINDOW, events'[i].now))
  <2>1. events' = events /\ raced \subseteq raced'
    BY <1>3 DEF Began
  <2>2. [key |-> k, now |-> clock] \in Execs
    BY DEF Execs, Types
  <2>3. PICK x \in Execs : x = [key |-> k, now |-> clock]
    BY <2>2
  <2>4. Grown(execs, x, execs')
    BY <1>3, <2>3 DEF Began, Grown
  <2>5. PICK a, t, u : a = events'[i].key /\ t = events'[i].now - WINDOW /\ u = events'[i].now
    OBVIOUS
  <2>6. Cardinality(During(execs, a, t, u)) <= Cardinality(During(execs', a, t, u))
    BY <1>0, <2>4, DuringGrows
  <2>7. Cardinality(During(execs, a, t, u)) \in Nat /\ Cardinality(During(execs', a, t, u)) \in Nat
    BY <1>0, DuringFinite
  <2>8. events'[i].count \in Nat
    BY <2>1, HistoryTypes
  <2>9. events'[i].count <= Cardinality(During(execs, a, t, u))
    BY <1>1, <2>1, <2>5
  <2> QED
    BY <2>5, <2>6, <2>7, <2>8, <2>9
<1>4. ASSUME NEW c \in CPUs, NEW r \in Frames, NEW r2, Ran(c, r, r2), Did(r, r2)
      PROVE  events'[i].count <= Cardinality(During(execs', events'[i].key, events'[i].now - WINDOW, events'[i].now))
  <2>0. execs' = execs /\ raced \subseteq raced' /\ r = prog[c] /\ r.key \in Keys /\ r.now \in Nat
    BY <1>4, StepFacts
  <2>1. CASE events' = events
    BY <1>1, <2>0, <2>1
  <2>2. CASE DidSubmit(r, r2)
    <3>1. PICK n \in Nat : /\ n = r.val \/ (r.st # NULL /\ n = mem[r.st].count)
                           /\ events' = Append(events, [key |-> r.key, now |-> r.now, count |-> n])
      BY <2>2 DEF DidSubmit
    <3>a. [key |-> r.key, now |-> r.now, count |-> n] \in Reports
      BY <2>0 DEF Reports
    <3>2. PICK z \in Reports : z = [key |-> r.key, now |-> r.now, count |-> n]
      BY <3>a
    <3>3. z.key = r.key /\ z.count = n /\ z.now = r.now
      BY <3>2
    <3>4. (i \in DOMAIN events /\ events'[i] = events[i]) \/ events'[i] = z
      BY <3>1, <3>2 DEF Types
    <3>5. CASE events'[i] = z
      <4>1. r.pc = "submit" /\ r.key \notin raced' /\ c \in InFlight(r.key)
        BY <1>4, <2>2, <3>3, <3>5, HandleOwns DEF DidSubmit
      <4>2. Sound(r, View(stats, mem, r.key), execs, r.key)
        BY <2>0, <4>1 DEF AllSingle, Single
      <4>3. PICK es \in Seq(Values) : es = View(stats, mem, r.key)
        BY <2>0, ViewTypes
      <4>4. n = r.val \/ (r.st # NULL /\ n = es[1].count)
        BY <1>4, <2>0, <3>1, <4>1, <4>3, OwnView
      <4>5. n <= Cardinality(During(execs, r.key, r.now - WINDOW, r.now))
        BY <1>0, <4>1, <4>2, <4>3, <4>4, SubmitSound
      <4> QED
        BY <2>0, <3>3, <3>5, <4>5
    <3> QED
      BY <1>1, <2>0, <3>4, <3>5
  <2> QED
    BY <1>4, <2>1, <2>2 DEF Did, DidFail, DidLookup, DidInsert, DidWindow, DidReset, DidLoad, DidStore
<1> QED
  BY <1>2, <1>3, <1>4, StepKinds

LEMMA InitSingle == Init => Clocked /\ AllSingle
<1> SUFFICES ASSUME Init PROVE Clocked /\ AllSingle
  OBVIOUS
<1>1. /\ \A c \in CPUs : prog[c].pc = "idle"
      /\ \A k \in Keys : stats[k] = NULL
      /\ \A e \in Elems : mem[e].start = 0
      /\ DOMAIN execs = {} /\ clock = 0
  BY DEF Init, Idle
<1>2. \A k \in Keys : InFlight(k) = {} /\ Len(View(stats, mem, k)) = 0
  BY <1>1 DEF InFlight, View
<1> QED
  BY <1>1, <1>2 DEF Clocked, AllSingle, Single

(* No false alarm: unless two CPUs executed the key at the same time, or a *)
(* program still held the element it was given, what a record reports did  *)
(* happen within the window before it, drops and a full map included.      *)
THEOREM NoFalseAlarm == Spec => []CountSound
<1>1. Init => CountSound
  BY DEF Init, CountSound
<1> QED
  BY <1>1, InitTypes, InitApart, InitSingle, TypesStep, ApartStep, ClockedStep, SingleStep, CountStep,
     PTL DEF Spec

-----------------------------------------------------------------------------
(* A burst is noticed.                                                     *)
(*                                                                         *)
(* w names, for every record of k, the start of the window that counted    *)
(* it.  Two windows of a key do not overlap, and no window reports the     *)
(* same count twice.                                                       *)

Spaced(a, b) == a < b => a + WINDOW < b

Windows(k, ev, w) ==
  \A i \in DOMAIN ev : ev[i].key = k =>
    /\ w[i] <= ev[i].now /\ ev[i].now <= w[i] + WINDOW /\ ev[i].count >= 1
    /\ \A j \in DOMAIN ev : ev[j].key = k =>
         /\ Spaced(w[i], w[j])
         /\ w[i] = w[j] /\ i # j => ev[i].count # ev[j].count

(* A record with count n of the window that began at s would be the next. *)
Fits(k, ev, w, s, n) ==
  \A i \in DOMAIN ev : ev[i].key = k =>
    /\ w[i] <= s /\ Spaced(w[i], s)
    /\ w[i] = s => ev[i].count < n

(* At time t all windows reported so far are over. *)
Elapsed(k, ev, w, t) == \A i \in DOMAIN ev : ev[i].key = k => w[i] + WINDOW < t

Burst(r, e, k, ev, w) ==
  /\ r.pc = "reset" => Elapsed(k, ev, w, r.now)
  /\ r.pc = "submit" => e.count >= 1 /\ Fits(k, ev, w, e.start, e.count)
  /\ r.pc \notin {"reset", "submit", "idle"} => Fits(k, ev, w, e.start, e.count + 1)

MapFull == ~(Cardinality(Entries) < MapSize)

(* The records of a key that is in the map, and of one that is not. *)
Bursts(k) ==
  /\ stats[k] # NULL =>
       \E w \in [DOMAIN events -> Nat] :
         /\ Windows(k, events, w)
         /\ InFlight(k) = {} => Fits(k, events, w, mem[stats[k]].start, mem[stats[k]].count + 1)
         /\ \A c \in InFlight(k) : Burst(prog[c], mem[stats[k]], k, events, w)
  /\ stats[k] = NULL =>
       /\ MapFull \/ EventsOf(k) = {}
       /\ \A c \in InFlight(k) : prog[c].pc = "submit" => MapFull

(* A record of another key changes nothing for k. *)
LEMMA OtherRecord ==
  ASSUME NEW ev \in Seq(Reports), NEW z \in Reports, NEW ev2, Grown(ev, z, ev2),
         NEW k \in Keys, k # z.key, NEW w \in [DOMAIN ev -> Nat]
  PROVE  \E w2 \in [DOMAIN ev2 -> Nat] :
           /\ Windows(k, ev, w) => Windows(k, ev2, w2)
           /\ \A s, n : Fits(k, ev, w, s, n) => Fits(k, ev2, w2, s, n)
           /\ \A t : Elapsed(k, ev, w, t) => Elapsed(k, ev2, w2, t)
<1>1. /\ DOMAIN ev2 = DOMAIN ev \cup {Len(ev) + 1} /\ Len(ev) + 1 \notin DOMAIN ev
      /\ \A i \in DOMAIN ev : ev2[i] = ev[i]
      /\ ev2[Len(ev) + 1] = z
  BY DEF Grown
<1>2. PICK w2 : w2 = [i \in DOMAIN ev2 |-> IF i \in DOMAIN ev THEN w[i] ELSE 0]
  OBVIOUS
<1>3. w2 \in [DOMAIN ev2 -> Nat] /\ \A i \in DOMAIN ev : w2[i] = w[i]
  BY <1>1, <1>2
<1>4. \A i \in DOMAIN ev2 : ev2[i].key = k => i \in DOMAIN ev /\ ev2[i] = ev[i] /\ w2[i] = w[i]
  BY <1>1, <1>3
<1>5. Windows(k, ev, w) => Windows(k, ev2, w2)
  BY <1>4 DEF Windows
<1>6. \A s, n : Fits(k, ev, w, s, n) => Fits(k, ev2, w2, s, n)
  BY <1>4 DEF Fits
<1>7. \A t : Elapsed(k, ev, w, t) => Elapsed(k, ev2, w2, t)
  BY <1>4 DEF Elapsed
<1> QED
  BY <1>3, <1>5, <1>6, <1>7

(* The next record of k itself. *)
LEMMA OwnRecord ==
  ASSUME NEW ev \in Seq(Reports), NEW z \in Reports, NEW ev2, Grown(ev, z, ev2),
         NEW w \in [DOMAIN ev -> Nat], NEW s \in Nat, Windows(z.key, ev, w), Fits(z.key, ev, w, s, z.count),
         s <= z.now, z.now - s <= WINDOW, z.count >= 1
  PROVE  \E w2 \in [DOMAIN ev2 -> Nat] :
           Windows(z.key, ev2, w2) /\ Fits(z.key, ev2, w2, s, z.count + 1)
<1>0. WINDOW \in Nat /\ z.now \in Nat /\ z.count \in Nat
  BY ExecguardAssumption DEF Reports
<1>1. /\ DOMAIN ev2 = DOMAIN ev \cup {Len(ev) + 1} /\ Len(ev) + 1 \notin DOMAIN ev
      /\ \A i \in DOMAIN ev : ev2[i] = ev[i]
      /\ ev2[Len(ev) + 1] = z
  BY DEF Grown
<1>a. \A i \in DOMAIN ev : ev[i] \in Reports
  OBVIOUS
<1>b. \A i \in DOMAIN ev : ev[i].count \in Nat /\ ev[i].now \in Nat /\ w[i] \in Nat
  BY <1>a DEF Reports
<1>2. PICK w2 : w2 = [i \in DOMAIN ev2 |-> IF i \in DOMAIN ev THEN w[i] ELSE s]
  OBVIOUS
<1>3. w2 \in [DOMAIN ev2 -> Nat] /\ w2[Len(ev) + 1] = s /\ \A i \in DOMAIN ev : w2[i] = w[i]
  BY <1>1, <1>2
<1>4. PICK l : l = Len(ev) + 1
  OBVIOUS
<1>5. \A i \in DOMAIN ev2 : \/ i \in DOMAIN ev /\ ev2[i] = ev[i] /\ w2[i] = w[i] /\ i # l
                            \/ i = l /\ ev2[i] = z /\ w2[i] = s
  BY <1>1, <1>3, <1>4
<1>6. Fits(z.key, ev2, w2, s, z.count + 1)
  <2> SUFFICES ASSUME NEW i \in DOMAIN ev2, ev2[i].key = z.key
               PROVE  /\ w2[i] <= s /\ Spaced(w2[i], s)
                      /\ w2[i] = s => ev2[i].count < z.count + 1
    BY DEF Fits
  <2>1. CASE i \in DOMAIN ev /\ ev2[i] = ev[i] /\ w2[i] = w[i]
    BY <1>0, <1>b, <2>1 DEF Fits
  <2>2. CASE ev2[i] = z /\ w2[i] = s
    BY <1>0, <2>2 DEF Spaced
  <2> QED
    BY <1>5, <2>1, <2>2
<1>7. Windows(z.key, ev2, w2)
  <2>1. ASSUME NEW i \in DOMAIN ev2, ev2[i].key = z.key
        PROVE  w2[i] <= ev2[i].now /\ ev2[i].now <= w2[i] + WINDOW /\ ev2[i].count >= 1
    <3>1. CASE i \in DOMAIN ev /\ ev2[i] = ev[i] /\ w2[i] = w[i]
      BY <2>1, <3>1 DEF Windows
    <3>2. CASE ev2[i] = z /\ w2[i] = s
      BY <1>0, <3>2
    <3> QED
      BY <1>5, <3>1, <3>2
  <2>2. ASSUME NEW i \in DOMAIN ev2, ev2[i].key = z.key, NEW j \in DOMAIN ev2, ev2[j].key = z.key
        PROVE  /\ Spaced(w2[i], w2[j])
               /\ w2[i] = w2[j] /\ i # j => ev2[i].count # ev2[j].count
    <3>1. CASE /\ i \in DOMAIN ev /\ ev2[i] = ev[i] /\ w2[i] = w[i]
               /\ j \in DOMAIN ev /\ ev2[j] = ev[j] /\ w2[j] = w[j]
      BY <2>2, <3>1 DEF Windows
    <3>2. CASE /\ i \in DOMAIN ev /\ ev2[i] = ev[i] /\ w2[i] = w[i]
               /\ j = l /\ ev2[j] = z /\ w2[j] = s
      BY <1>0, <1>b, <2>2, <3>2 DEF Fits
    <3>3. CASE /\ i = l /\ ev2[i] = z /\ w2[i] = s
               /\ j \in DOMAIN ev /\ ev2[j] = ev[j] /\ w2[j] = w[j]
      <4>1. w[j] <= s /\ (w[j] = s => ev[j].count < z.count) /\ w[j] \in Nat
        BY <1>b, <2>2, <3>3 DEF Fits
      <4>2. ~(s < w[j])
        BY <4>1
      <4> QED
        BY <1>0, <1>b, <3>3, <4>1, <4>2 DEF Spaced
    <3>4. CASE i = l /\ j = l /\ w2[i] = s /\ w2[j] = s
      BY <3>4 DEF Spaced
    <3> QED
      BY <1>5, <3>1, <3>2, <3>3, <3>4
  <2> QED
    BY <2>1, <2>2 DEF Windows
<1> QED
  BY <1>3, <1>6, <1>7

(* Nothing is deleted from the map: once full it stays full. *)
LEMMA FullStays ==
  ASSUME Types, NEW c \in CPUs, NEW r \in Frames, NEW r2, Ran(c, r, r2), Did(r, r2), MapFull
  PROVE  MapFull'
<1>1. CASE stats' = stats
  BY <1>1 DEF MapFull, Entries
<1>2. ASSUME HasRoom(r.key), NEW e \in Elems, Fills(r, e) PROVE MapFull'
  <2>1. r.key \in Keys /\ stats[r.key] # NULL
    BY <1>2 DEF HasRoom, MapFull, Entries
  <2>2. stats' = [stats EXCEPT ![r.key] = e] /\ e # NULL /\ stats \in [Keys -> Elems \cup {NULL}]
    BY <1>2, ExecguardAssumption DEF Fills, Types
  <2>3. \A k \in Keys : stats'[k] # NULL <=> stats[k] # NULL
    BY <2>1, <2>2
  <2>4. Entries' = Entries
    BY <2>3 DEF Entries
  <2> QED
    BY <2>4 DEF MapFull
<1> QED
  BY <1>1, <1>2, StepFacts

(* The window and the records of a key when its program goes from r to r2  *)
(* and its element from e to e2, without a record.                         *)
LEMMA BurstMoves ==
  ASSUME NEW r \in Frames, NEW r2, NEW e \in Values, NEW e2 \in Values, NEW k, NEW ev \in Seq(Reports),
         NEW w \in [DOMAIN ev -> Nat], Burst(r, e, k, ev, w), r.pc # "idle",
         \/ r.pc \notin {"reset", "submit"} /\ r2.pc \notin {"reset", "submit"} /\ e2 = e
         \/ /\ r.pc = "window" /\ r2.pc = "reset" /\ e.start + WINDOW < r.now /\ r2.now = r.now
         \/ r.pc = "reset" /\ r2.pc = "reset" /\ r2.now = r.now
         \/ r.pc = "reset" /\ r2.pc = "submit" /\ e2.start = r.now /\ e2.count = 1
         \/ r.pc = "store" /\ r2.pc = "submit" /\ e2.start = e.start /\ e2.count = e.count + 1
  PROVE  /\ r2.pc = "idle" => Fits(k, ev, w, e2.start, e2.count + 1)
         /\ r2.pc # "idle" => Burst(r2, e2, k, ev, w)
<1>0. /\ WINDOW \in Nat /\ r.now \in Nat /\ e.start \in Nat /\ e.count \in Nat
      /\ \A i \in DOMAIN ev : w[i] \in Nat
  BY ExecguardAssumption DEF Frames, Values
<1>1. CASE r.pc \notin {"reset", "submit"} /\ r2.pc \notin {"reset", "submit"} /\ e2 = e
  BY <1>1 DEF Burst
<1>2. CASE r.pc = "window" /\ r2.pc = "reset" /\ e.start + WINDOW < r.now /\ r2.now = r.now
  <2>1. Fits(k, ev, w, e.start, e.count + 1)
    BY <1>2 DEF Burst
  <2>2. \A i \in DOMAIN ev : ev[i].key = k => w[i] <= e.start
    BY <2>1 DEF Fits
  <2>3. \A i \in DOMAIN ev : ev[i].key = k => w[i] + WINDOW < r.now
    BY <1>0, <1>2, <2>2
  <2> QED
    BY <1>2, <2>3 DEF Burst, Elapsed
<1>3. CASE r.pc = "reset" /\ r2.pc = "reset" /\ r2.now = r.now
  BY <1>3 DEF Burst
<1>4. CASE r.pc = "reset" /\ r2.pc = "submit" /\ e2.start = r.now /\ e2.count = 1
  <2>1. \A i \in DOMAIN ev : ev[i].key = k => w[i] + WINDOW < r.now
    BY <1>4 DEF Burst, Elapsed
  <2>2. \A i \in DOMAIN ev : ev[i].key = k => w[i] < r.now /\ w[i] # r.now /\ w[i] <= r.now
    BY <1>0, <2>1
  <2>3. Fits(k, ev, w, r.now, 1)
    BY <2>1, <2>2 DEF Fits, Spaced
  <2> QED
    BY <1>4, <2>3 DEF Burst
<1>5. CASE r.pc = "store" /\ r2.pc = "submit" /\ e2.start = e.start /\ e2.count = e.count + 1
  <2>1. Fits(k, ev, w, e2.start, e2.count)
    BY <1>5 DEF Burst
  <2>2. e2.count >= 1
    BY <1>0, <1>5
  <2> QED
    BY <1>5, <2>1, <2>2 DEF Burst
<1> QED
  BY <1>1, <1>2, <1>3, <1>4, <1>5

(* The same, over a step of the only program of k. *)
Followed(r2, e2, k, ev2) ==
  \E w2 \in [DOMAIN ev2 -> Nat] :
    /\ Windows(k, ev2, w2)
    /\ r2.pc = "idle" => Fits(k, ev2, w2, e2.start, e2.count + 1)
    /\ r2.pc # "idle" => Burst(r2, e2, k, ev2, w2)

LEMMA StoredBurst ==
  ASSUME Types, Apart, Clocked, NEW c \in CPUs, NEW r \in Frames, NEW r2, Ran(c, r, r2), Did(r, r2),
         NEW k \in Keys, k = r.key, k \notin raced', stats[k] # NULL, Sound(r, View(stats, mem, k), execs, k),
         NEW w \in [DOMAIN events -> Nat], Windows(k, events, w), Burst(r, mem[stats[k]], k, events, w)
  PROVE  stats'[k] = stats[k] /\ Followed(r2, mem'[stats[k]], k, events')
<1>0. /\ r = prog[c] /\ r.pc # "idle" /\ r.now \in Nat /\ r.now <= clock /\ clock \in Nat
      /\ clock <= MaxTime /\ MaxTime \in Nat /\ r.val \in Nat
      /\ r.pc \in OnElem => r.st # NULL
      /\ mem \in [Elems -> Values]
  BY StepFacts, ExecguardAssumption DEF Clocked, Types
<1>1. PICK es \in Seq(Values) : es = View(stats, mem, k)
  BY ViewTypes
<1>2. PICK ev \in Seq(Reports) : ev = events
  BY DEF Types
<1>3. Len(es) = 1 /\ Sound(r, es, execs, k)
  BY <1>1, ViewTypes
<1>4. PICK e \in Values : e = es[1] /\ e = mem[stats[k]] /\ stats[k] \in Elems
  BY <1>1, ViewTypes
<1>5. Windows(k, ev, w) /\ Burst(r, e, k, ev, w) /\ w \in [DOMAIN ev -> Nat]
  BY <1>2, <1>4
<1>6. ASSUME NEW e2 \in Values, e2 = mem'[stats[k]], events' = events,
             \/ r.pc \notin {"reset", "submit"} /\ r2.pc \notin {"reset", "submit"} /\ e2 = e
             \/ /\ r.pc = "window" /\ r2.pc = "reset" /\ e.start + WINDOW < r.now /\ r2.now = r.now
             \/ r.pc = "reset" /\ r2.pc = "reset" /\ r2.now = r.now
             \/ r.pc = "reset" /\ r2.pc = "submit" /\ e2.start = r.now /\ e2.count = 1
             \/ r.pc = "store" /\ r2.pc = "submit" /\ e2.start = e.start /\ e2.count = e.count + 1
      PROVE  Followed(r2, mem'[stats[k]], k, events')
  <2>1. /\ r2.pc = "idle" => Fits(k, ev, w, e2.start, e2.count + 1)
        /\ r2.pc # "idle" => Burst(r2, e2, k, ev, w)
    BY <1>0, <1>5, <1>6, BurstMoves, ZenonT(60)
  <2> QED
    BY <1>2, <1>5, <1>6, <2>1 DEF Followed
<1>a. ASSUME r.pc \in OnElem, NEW v \in Values, Writes(r, v)
      PROVE  v = mem'[stats[k]] /\ mem[r.st] = e
  <2>1. r.st = stats[k]
    <3>1. r.st \in {NULL, stats[k]}
      BY OwnView
    <3> QED
      BY <1>0, <1>a, <3>1
  <2> QED
    BY <1>0, <1>4, <1>a, <2>1 DEF Writes
<1>7. CASE DidFail(r, r2) \/ DidLookup(r, r2) \/ DidLoad(r, r2)
  <2>1. UNCHANGED <<stats, mem, events>> /\ r.pc \notin {"reset", "submit"} /\ r2.pc \notin {"reset", "submit"}
    BY <1>7 DEF DidFail, DidLookup, DidLoad, Idle
  <2>2. e = mem'[stats[k]]
    BY <1>4, <2>1
  <2> QED
    BY <1>6, <2>1, <2>2
<1>8. CASE DidInsert(r, r2)
  <2>1. r.pc = "insert"
    BY <1>8 DEF DidInsert
  <2>2. Len(es) = 0
    BY <1>3, <2>1 DEF Sound
  <2> QED
    BY <1>3, <2>2
<1>9. CASE DidWindow(r, r2)
  <2>1. UNCHANGED <<stats, mem, events>> /\ r.pc = "window" /\ r2.now = r.now /\ r.pc \in OnElem
    BY <1>9 DEF DidWindow, Same, OnElem
  <2>2. e = mem'[stats[k]]
    BY <1>4, <2>1
  <2>3. mem[r.st] = e /\ e.start <= r.now /\ e.start \in Nat
    <3>1. 1 \in 1..1
      OBVIOUS
    <3>2. e.start <= r.now
      BY <1>3, <1>4, <3>1 DEF Sound
    <3>3. mem[r.st] = e
      BY <1>0, <1>1, <1>4, <2>1, OwnView
    <3> QED
      BY <3>2, <3>3 DEF Values
  <2>4. CASE WindowOver(r.now, e.start) /\ r2.pc = "reset"
    <3>1. r.now - e.start > WINDOW
      BY <1>0, <2>3, <2>4, WindowDiffers
    <3>2. e.start + WINDOW < r.now
      BY <1>0, <2>3, <3>1, ExecguardAssumption, SMTT(40)
    <3> QED
      BY <1>6, <2>1, <2>2, <2>4, <3>2
  <2>5. CASE r2.pc = "load"
    BY <1>6, <2>1, <2>2, <2>5
  <2> QED
    BY <1>9, <2>3, <2>4, <2>5 DEF DidWindow
<1>10. CASE DidReset(r, r2)
  <2>1. /\ r.pc = "reset" /\ r.pc \in OnElem /\ r2.now = r.now /\ UNCHANGED <<stats, events>>
        /\ r2.pc = (IF r2.todo = {} THEN "submit" ELSE "reset")
    BY <1>10 DEF DidReset, Same, OnElem
  <2>2. PICK e2 \in Values : Writes(r, e2) /\ ResetTo(r, r2, e2)
    BY <1>10 DEF DidReset
  <2>3. e2 = mem'[stats[k]] /\ mem[r.st] = e
    BY <1>a, <2>1, <2>2
  <2>4. /\ "count" \in r.todo \/ e.count = 1
        /\ "start" \in r.todo \/ e.start = r.now
    BY <1>3, <1>4, <2>1 DEF Sound
  <2>5. r2.todo = {} => e2.count = 1 /\ e2.start = r.now
    BY <2>2, <2>3, <2>4 DEF ResetTo
  <2> QED
    BY <1>6, <2>1, <2>3, <2>5
<1>11. CASE DidStore(r, r2)
  <2>1. r.pc = "store" /\ r.pc \in OnElem /\ r2.pc = "submit" /\ UNCHANGED <<stats, events>>
    BY <1>11 DEF DidStore, OnElem
  <2>2. PICK e2 \in Values : Writes(r, e2) /\ e2.start = mem[r.st].start /\ e2.count = r.val
    BY <1>11 DEF DidStore
  <2>3. e2 = mem'[stats[k]] /\ mem[r.st] = e
    BY <1>a, <2>1, <2>2
  <2>4. r.val = e.count + 1
    BY <1>3, <1>4, <2>1 DEF Sound
  <2> QED
    BY <1>6, <2>1, <2>2, <2>3, <2>4
<1>12. CASE DidSubmit(r, r2)
  <2>0. r.pc = "submit" /\ r2.pc = "idle" /\ UNCHANGED <<stats, mem>>
    BY <1>12 DEF DidSubmit, Idle
  <2>1. PICK n \in Nat : /\ n = r.val \/ (r.st # NULL /\ n = mem[r.st].count)
                         /\ events' = Append(events, [key |-> k, now |-> r.now, count |-> n])
    BY <1>12 DEF DidSubmit
  <2>2. /\ r.val = e.count /\ r.now - e.start <= WINDOW /\ e.start <= r.now /\ e.start \in Nat
        /\ r.st # NULL => mem[r.st] = e
    <3>1. 1 \in 1..1 /\ e.start \in Nat
      BY DEF Values
    <3>2. \A j \in 1..1 : r.val = es[j].count /\ r.now - es[j].start <= WINDOW /\ es[j].start <= r.now
      BY <1>3, <2>0 DEF Sound
    <3>3. r.st # NULL => mem[r.st] = e
      BY <1>1, <1>4, OwnView
    <3> QED
      BY <1>4, <3>1, <3>2, <3>3
  <2>3. n = e.count
    BY <2>1, <2>2
  <2>a. [key |-> k, now |-> r.now, count |-> n] \in Reports
    BY <1>0 DEF Reports
  <2>4. PICK z \in Reports : z = [key |-> k, now |-> r.now, count |-> n] /\ z.key = k /\ z.now = r.now /\ z.count = n
    BY <2>a
  <2>5. PICK ev2 : ev2 = events' /\ Grown(ev, z, ev2)
    BY <1>2, <2>1, <2>4 DEF Grown
  <2>6. z.count >= 1 /\ Fits(z.key, ev, w, e.start, z.count) /\ Windows(z.key, ev, w)
    BY <1>5, <2>0, <2>3, <2>4 DEF Burst
  <2>7. PICK w2 \in [DOMAIN ev2 -> Nat] : Windows(z.key, ev2, w2) /\ Fits(z.key, ev2, w2, e.start, z.count + 1)
    <3>1. e.start <= z.now /\ z.now - e.start <= WINDOW /\ e.start \in Nat
      BY <2>2, <2>4
    <3>2. Grown(ev, z, ev2)
      BY <2>5
    <3>3. \E w2 \in [DOMAIN ev2 -> Nat] : Windows(z.key, ev2, w2) /\ Fits(z.key, ev2, w2, e.start, z.count + 1)
      BY <1>5, <2>6, <3>1, <3>2, OwnRecord, Zenon
    <3> QED
      BY <3>3
  <2>8. mem'[stats[k]] = e
    BY <1>4, <2>0
  <2> QED
    BY <2>0, <2>3, <2>4, <2>5, <2>7, <2>8 DEF Followed
<1>13. stats'[k] = stats[k]
  BY <1>8 DEF Did, DidFail, DidLookup, DidWindow, DidReset, DidLoad, DidStore, DidSubmit
<1> QED
  BY <1>7, <1>8, <1>9, <1>10, <1>11, <1>12, <1>13 DEF Did

(* A key that is not in the map has no records, unless the map is full. *)
LEMMA NewBurst ==
  ASSUME Types, Apart, NEW c \in CPUs, NEW r \in Frames, NEW r2, Ran(c, r, r2), Did(r, r2),
         NEW k \in Keys, k = r.key, k \notin raced', stats[k] = NULL,
         MapFull \/ EventsOf(k) = {}, r.pc = "submit" => MapFull
  PROVE  /\ stats'[k] # NULL => Followed(r2, mem'[stats'[k]], k, events')
         /\ stats'[k] = NULL => /\ MapFull' \/ EventsOf(k)' = {}
                                /\ r2.pc = "submit" => MapFull'
<1>0. MapFull => MapFull'
  BY FullStays
<1>1. r.pc \notin OnElem /\ r.now \in Nat
  BY StepFacts, OwnView, ExecguardAssumption
<1>2. CASE DidFail(r, r2) \/ DidLookup(r, r2)
  <2>1. stats' = stats /\ events' = events /\ r2.pc # "submit"
    BY <1>2 DEF DidFail, DidLookup, Idle
  <2>2. EventsOf(k)' = EventsOf(k)
    BY <2>1 DEF EventsOf
  <2> QED
    BY <1>0, <2>1, <2>2
<1>3. CASE DidSubmit(r, r2)
  <2>1. stats' = stats /\ r.pc = "submit"
    BY <1>3 DEF DidSubmit
  <2> QED
    BY <1>0, <2>1
<1>4. CASE DidInsert(r, r2)
  <2>1. events' = events /\ r2.pc = "submit" /\ EventsOf(k)' = EventsOf(k)
    BY <1>4 DEF DidInsert, EventsOf
  <2>2. CASE ~HasRoom(k) /\ stats' = stats
    <3>1. MapFull
      BY <2>2 DEF HasRoom, MapFull
    <3> QED
      BY <1>0, <2>2, <3>1
  <2>3. ASSUME HasRoom(k), NEW f \in Elems, Fills(r, f)
        PROVE  stats'[k] # NULL /\ Followed(r2, mem'[stats'[k]], k, events')
    <3>1. \A i \in DOMAIN events : events[i].key # k
      BY <2>3 DEF HasRoom, Entries, MapFull, EventsOf
    <3>2. PICK w : w = [i \in DOMAIN events |-> 0]
      OBVIOUS
    <3>3. w \in [DOMAIN events' -> Nat] /\ Windows(k, events', w)
      BY <2>1, <3>1, <3>2 DEF Windows
    <3>4. \A s, n : Fits(k, events', w, s, n)
      BY <2>1, <3>1 DEF Fits
    <3>a. [start |-> r.now, count |-> 1] \in Values
      BY <1>1 DEF Values
    <3>5. PICK e \in Values : e = [start |-> r.now, count |-> 1] /\ e.count = 1
      BY <3>a
    <3>6. stats'[k] = f /\ f # NULL /\ mem'[f] = e
      BY <2>3, <3>5, ExecguardAssumption DEF Fills, Types
    <3>7. Burst(r2, e, k, events', w)
      BY <2>1, <3>4, <3>5 DEF Burst
    <3> QED
      BY <2>1, <3>3, <3>6, <3>7 DEF Followed
  <2> QED
    BY <1>4, <2>2, <2>3 DEF DidInsert
<1> QED
  BY <1>1, <1>2, <1>3, <1>4 DEF Did, DidWindow, DidReset, DidLoad, DidStore, OnElem

AllBursts == \A k \in Keys \ raced : Bursts(k)

LEMMA BeganBursts ==
  ASSUME Types, AllBursts, NEW c \in CPUs, NEW k \in Keys, NEW r2, Began(c, k, r2),
         NEW q \in Keys, q \notin raced'
  PROVE  Bursts(q)'
<1>0. /\ stats' = stats /\ mem' = mem /\ events' = events /\ prog'[c] = r2 /\ prog[c].pc = "idle"
      /\ r2.pc = "reserve" /\ r2.key = k
      /\ \A d \in CPUs : d # c => prog'[d] = prog[d]
      /\ q \notin raced /\ (q = k => InFlight(k) = {})
  BY DEF Began, Types
<1>1. Bursts(q)
  BY <1>0 DEF AllBursts
<1>2. EventsOf(q)' = EventsOf(q) /\ (MapFull' <=> MapFull)
  BY <1>0 DEF EventsOf, MapFull, Entries
<1>3. CASE q # k
  <2>1. InFlight(q)' = InFlight(q) /\ \A d \in InFlight(q) : prog'[d] = prog[d]
    BY <1>0, <1>3 DEF InFlight
  <2> QED
    BY <1>0, <1>1, <1>2, <2>1 DEF Bursts
<1>4. CASE q = k
  <2>1. InFlight(q)' = {c} /\ InFlight(q) = {}
    BY <1>0, <1>4 DEF InFlight
  <2>2. ASSUME stats[q] # NULL
        PROVE  \E w \in [DOMAIN events -> Nat] : Windows(q, events, w) /\ Burst(r2, mem[stats[q]], q, events, w)
    <3>1. PICK w \in [DOMAIN events -> Nat] :
            Windows(q, events, w) /\ Fits(q, events, w, mem[stats[q]].start, mem[stats[q]].count + 1)
      BY <1>1, <2>1, <2>2 DEF Bursts
    <3>2. Burst(r2, mem[stats[q]], q, events, w)
      BY <1>0, <3>1 DEF Burst
    <3> QED
      BY <3>1, <3>2
  <2> QED
    BY <1>0, <1>1, <1>2, <2>1, <2>2 DEF Bursts
<1> QED
  BY <1>3, <1>4

(* A step of another key's program. *)
LEMMA OtherBursts ==
  ASSUME Types, Apart, NEW c \in CPUs, NEW r \in Frames, NEW r2, Ran(c, r, r2), Did(r, r2),
         NEW q \in Keys, q # r.key, q \notin raced', Bursts(q)
  PROVE  Bursts(q)'
<1>1. MapFull => MapFull'
  BY FullStays
<1>2. /\ stats'[q] = stats[q] /\ (stats[q] # NULL => mem'[stats[q]] = mem[stats[q]])
      /\ InFlight(q)' = InFlight(q) /\ \A d \in InFlight(q) : prog'[d] = prog[d]
  BY OtherView
<1>3. CASE events' = events
  <2>1. EventsOf(q)' = EventsOf(q)
    BY <1>3 DEF EventsOf
  <2> QED
    BY <1>1, <1>2, <1>3, <2>1 DEF Bursts
<1>4. CASE DidSubmit(r, r2)
  <2>1. PICK n \in Nat : events' = Append(events, [key |-> r.key, now |-> r.now, count |-> n])
    BY <1>4 DEF DidSubmit
  <2>2. [key |-> r.key, now |-> r.now, count |-> n] \in Reports
    BY StepFacts DEF Reports
  <2>3. PICK z \in Reports : z = [key |-> r.key, now |-> r.now, count |-> n] /\ z.key = r.key
    BY <2>2
  <2>4. PICK ev \in Seq(Reports), ev2 \in {events'} : ev = events /\ ev2 = events' /\ Grown(ev, z, ev2)
    BY <2>1, <2>3 DEF Grown, Types
  <2>5. EventsOf(q)' = EventsOf(q)
    <3>1. /\ DOMAIN ev2 = DOMAIN ev \cup {Len(ev) + 1} /\ Len(ev) + 1 \notin DOMAIN ev
          /\ \A i \in DOMAIN ev : ev2[i] = ev[i]
          /\ ev2[Len(ev) + 1] = z
      BY <2>4 DEF Grown
    <3> QED
      BY <2>3, <2>4, <3>1 DEF EventsOf
  <2>6. ASSUME stats[q] # NULL
        PROVE  \E w2 \in [DOMAIN ev2 -> Nat] :
                 /\ Windows(q, ev2, w2)
                 /\ InFlight(q) = {} => Fits(q, ev2, w2, mem[stats[q]].start, mem[stats[q]].count + 1)
                 /\ \A d \in InFlight(q) : Burst(prog[d], mem[stats[q]], q, ev2, w2)
    <3>1. PICK w \in [DOMAIN ev -> Nat] :
            /\ Windows(q, ev, w)
            /\ InFlight(q) = {} => Fits(q, ev, w, mem[stats[q]].start, mem[stats[q]].count + 1)
            /\ \A d \in InFlight(q) : Burst(prog[d], mem[stats[q]], q, ev, w)
      BY <2>4, <2>6 DEF Bursts
    <3>2. PICK w2 \in [DOMAIN ev2 -> Nat] :
            /\ Windows(q, ev, w) => Windows(q, ev2, w2)
            /\ \A s, m : Fits(q, ev, w, s, m) => Fits(q, ev2, w2, s, m)
            /\ \A t : Elapsed(q, ev, w, t) => Elapsed(q, ev2, w2, t)
      BY <2>3, <2>4, OtherRecord
    <3>3. \A d \in InFlight(q) : Burst(prog[d], mem[stats[q]], q, ev2, w2)
      BY <3>1, <3>2 DEF Burst
    <3> QED
      BY <3>1, <3>2, <3>3
  <2> QED
    BY <1>1, <1>2, <2>4, <2>5, <2>6 DEF Bursts
<1> QED
  BY <1>3, <1>4 DEF Did, DidFail, DidLookup, DidInsert, DidWindow, DidReset, DidLoad, DidStore

LEMMA HandleBursts ==
  ASSUME Types, Apart, Clocked, AllSingle, AllBursts,
         NEW c \in CPUs, NEW r \in Frames, NEW r2, Ran(c, r, r2), Did(r, r2),
         NEW q \in Keys, q \notin raced'
  PROVE  Bursts(q)'
<1>0. r = prog[c] /\ prog'[c] = r2 /\ r.pc # "idle" /\ q \notin raced
  BY StepFacts
<1>1. Bursts(q) /\ Single(q)
  BY <1>0 DEF AllBursts, AllSingle
<1>2. CASE q # r.key
  BY <1>1, <1>2, OtherBursts
<1>3. CASE q = r.key
  <2>1. InFlight(q) = {c}
    BY <1>3, OwnView
  <2>2. InFlight(q)' = (IF r2.pc = "idle" THEN {} ELSE {c})
    BY <2>1, HandleOwns
  <2>3. Sound(r, View(stats, mem, q), execs, q)
    BY <1>0, <1>1, <2>1 DEF Single
  <2>4. ASSUME stats'[q] # NULL, Followed(r2, mem'[stats'[q]], q, events') PROVE Bursts(q)'
    BY <1>0, <2>2, <2>4 DEF Followed, Bursts
  <2>5. CASE stats[q] # NULL
    <3>1. PICK w \in [DOMAIN events -> Nat] : Windows(q, events, w) /\ Burst(r, mem[stats[q]], q, events, w)
      BY <1>0, <1>1, <2>1, <2>5 DEF Bursts
    <3>2. stats'[q] = stats[q] /\ Followed(r2, mem'[stats[q]], q, events')
      BY <1>3, <2>3, <2>5, <3>1, StoredBurst
    <3> QED
      BY <2>4, <2>5, <3>2
  <2>6. CASE stats[q] = NULL
    <3>1. (MapFull \/ EventsOf(q) = {}) /\ (r.pc = "submit" => MapFull)
      BY <1>0, <1>1, <2>1, <2>6 DEF Bursts
    <3>2. /\ stats'[q] # NULL => Followed(r2, mem'[stats'[q]], q, events')
          /\ stats'[q] = NULL => /\ MapFull' \/ EventsOf(q)' = {}
                                 /\ r2.pc = "submit" => MapFull'
      BY <1>3, <2>6, <3>1, NewBurst
    <3>3. CASE stats'[q] = NULL
      BY <1>0, <2>2, <3>2, <3>3 DEF Bursts
    <3> QED
      BY <2>4, <3>2, <3>3
  <2> QED
    BY <2>5, <2>6
<1> QED
  BY <1>2, <1>3

LEMMA BurstsStep == Types /\ Apart /\ Clocked /\ AllSingle /\ AllBursts /\ [Next]_vars => AllBursts'
<1> SUFFICES ASSUME Types, Apart, Clocked, AllSingle, AllBursts, [Next]_vars, NEW q \in Keys, q \notin raced'
             PROVE  Bursts(q)'
  BY DEF AllBursts
<1>1. CASE Tick \/ UNCHANGED vars
  <2>1. UNCHANGED <<prog, stats, mem, events, raced>>
    BY <1>1 DEF Tick, vars
  <2>2. InFlight(q)' = InFlight(q) /\ Bursts(q) /\ EventsOf(q)' = EventsOf(q) /\ (MapFull' <=> MapFull)
    BY <2>1 DEF InFlight, AllBursts, EventsOf, MapFull, Entries
  <2> QED
    BY <2>1, <2>2 DEF Bursts
<1> QED
  BY <1>1, StepKinds, BeganBursts, HandleBursts

(* The counts of one window are all different. *)
LEMMA OneWindow ==
  ASSUME NEW ev \in Seq(Reports), NEW w \in [DOMAIN ev -> Nat], NEW k, Windows(k, ev, w),
         NEW A \in SUBSET DOMAIN ev, NEW m \in Nat,
         \A i \in A : ev[i].key = k /\ ev[i].count <= m,
         \A i, j \in A : w[i] = w[j]
  PROVE  IsFiniteSet(A) /\ Cardinality(A) \in Nat /\ Cardinality(A) <= m
<1>1. \A i \in DOMAIN ev : ev[i] \in Reports
  OBVIOUS
<1>2. \A i \in A : ev[i].count \in 1..m
  <2>1. \A i \in A : ev[i].count \in Nat /\ ev[i].count >= 1
    BY <1>1 DEF Windows, Reports
  <2> QED
    BY <2>1
<1>3. PICK f : f = [i \in A |-> ev[i].count]
  OBVIOUS
<1>4. f \in [A -> 1..m]
  BY <1>2, <1>3
<1>5. \A i, j \in A : f[i] = f[j] => i = j
  BY <1>3 DEF Windows
<1>6. f \in Injection(A, 1..m)
  BY <1>4, <1>5, Fun_IsInj
<1>7. IsFiniteSet(1..m) /\ Cardinality(1..m) = m
  BY FS_Interval
<1>8. IsFiniteSet(A) /\ Cardinality(A) <= Cardinality(1..m)
  BY <1>6, <1>7, FS_Injection
<1> QED
  BY <1>7, <1>8, FS_CardinalityType

(* Records within WINDOW belong to at most two windows. *)
LEMMA TwoWindows ==
  ASSUME NEW ev \in Seq(Reports), NEW w \in [DOMAIN ev -> Nat], NEW k, Windows(k, ev, w),
         NEW t \in Nat, NEW m \in Nat, NEW S \in SUBSET DOMAIN ev,
         \A i \in S : ev[i].key = k /\ ev[i].now \in t..(t + WINDOW) /\ ev[i].count <= m
  PROVE  Cardinality(S) <= 2 * m
<1>0. WINDOW \in Nat
  BY ExecguardAssumption
<1>1. \A i \in DOMAIN ev : ev[i] \in Reports
  OBVIOUS
<1>2. \A i \in S : /\ w[i] \in Nat /\ ev[i].now \in Nat /\ w[i] <= ev[i].now /\ ev[i].now <= w[i] + WINDOW
                   /\ t <= ev[i].now /\ ev[i].now <= t + WINDOW
  BY <1>1 DEF Windows, Reports
<1>3. \A i, j \in S : w[i] < w[j] => w[i] + WINDOW < w[j]
  BY DEF Windows, Spaced
<1>4. PICK A, B : A = {i \in S : w[i] <= t} /\ B = {i \in S : ~(w[i] <= t)}
  OBVIOUS
<1>5. \A i, j \in A : w[i] = w[j]
  <2> SUFFICES ASSUME NEW i \in A, NEW j \in A, w[i] < w[j] PROVE FALSE
    BY <1>2, <1>4
  <2>1. i \in S /\ j \in S /\ w[j] <= t
    BY <1>4
  <2>2. w[i] + WINDOW < w[j] /\ t <= w[i] + WINDOW
    BY <1>0, <1>2, <1>3, <2>1
  <2> QED
    BY <1>0, <1>2, <2>1, <2>2
<1>6. \A i, j \in B : w[i] = w[j]
  <2> SUFFICES ASSUME NEW i \in B, NEW j \in B, w[i] < w[j] PROVE FALSE
    BY <1>2, <1>4
  <2>1. i \in S /\ j \in S /\ ~(w[i] <= t)
    BY <1>4
  <2>2. w[i] + WINDOW < w[j] /\ w[j] <= t + WINDOW
    BY <1>0, <1>2, <1>3, <2>1
  <2> QED
    BY <1>0, <1>2, <2>1, <2>2
<1>7. /\ IsFiniteSet(A) /\ Cardinality(A) \in Nat /\ Cardinality(A) <= m
      /\ IsFiniteSet(B) /\ Cardinality(B) \in Nat /\ Cardinality(B) <= m
  <2>1. /\ A \in SUBSET DOMAIN ev /\ B \in SUBSET DOMAIN ev
        /\ \A i \in A : ev[i].key = k /\ ev[i].count <= m
        /\ \A i \in B : ev[i].key = k /\ ev[i].count <= m
    BY <1>4
  <2>2. IsFiniteSet(A) /\ Cardinality(A) \in Nat /\ Cardinality(A) <= m
    BY <1>5, <2>1, OneWindow
  <2>3. IsFiniteSet(B) /\ Cardinality(B) \in Nat /\ Cardinality(B) <= m
    BY <1>6, <2>1, OneWindow
  <2> QED
    BY <2>2, <2>3
<1>8. S = A \cup B /\ A \cap B = {}
  BY <1>4
<1>9. Cardinality(S) = Cardinality(A) + Cardinality(B) - Cardinality({})
  BY <1>7, <1>8, FS_Union
<1>10. Cardinality({}) = 0
  BY FS_EmptySet
<1> QED
  BY <1>7, <1>9, <1>10

(* Of any 2 * ALERT_AT - 1 records of a key that came within WINDOW one    *)
(* alerts, if the key is in the map, is rated by its count, was never      *)
(* executed on two CPUs at once and got an element that no program held.   *)
THEOREM BurstsAlert == Spec => []BurstDetected
<1>1. Init => AllBursts
  <2> SUFFICES ASSUME Init, NEW k \in Keys PROVE Bursts(k)
    BY DEF AllBursts
  <2>1. stats[k] = NULL /\ EventsOf(k) = {} /\ InFlight(k) = {}
    BY DEF Init, EventsOf, InFlight, Idle
  <2> QED
    BY <2>1 DEF Bursts
<1>2. Types /\ AllBursts => BurstDetected
  <2> SUFFICES ASSUME Types, AllBursts, NEW k \in Entries \ raced, NEW t \in 0..MaxTime,
                      NEW S, S = {i \in EventsOf(k) : events[i].now \in t..(t + WINDOW)},
                      k.name \notin Shellish, Cardinality(S) >= 2 * ALERT_AT - 1,
                      \A i \in S : severity_for(k, events[i].count) # "ALERT"
               PROVE  FALSE
    BY DEF BurstDetected, Alerted
  <2>0. /\ ALERT_AT \in Nat /\ ALERT_AT >= 1 /\ WINDOW \in Nat /\ MaxTime \in Nat /\ t \in Nat
        /\ events \in Seq(Reports) /\ k \in Keys /\ stats[k] # NULL /\ k \notin raced
    BY ExecguardAssumption DEF Types, Entries
  <2>1. PICK w \in [DOMAIN events -> Nat] : Windows(k, events, w)
    BY <2>0 DEF AllBursts, Bursts
  <2>2. \A i \in S : ~(events[i].count >= ALERT_AT)
    BY DEF severity_for
  <2>3. PICK m \in Nat : m = ALERT_AT - 1
    BY <2>0
  <2>4. S \in SUBSET DOMAIN events
        /\ \A i \in S : events[i].key = k /\ events[i].now \in t..(t + WINDOW) /\ events[i].count <= m
    <3>1. \A i \in S : i \in DOMAIN events /\ events[i].key = k /\ events[i].now \in t..(t + WINDOW)
      BY DEF EventsOf
    <3>2. \A i \in S : events[i].count \in Nat
      BY <3>1, HistoryTypes
    <3> QED
      BY <2>0, <2>2, <2>3, <3>1, <3>2
  <2>5. Cardinality(S) <= 2 * m
    BY <2>0, <2>1, <2>3, <2>4, TwoWindows
  <2>6. Cardinality(S) \in Nat
    <3>1. IsFiniteSet(1..Len(events)) /\ S \subseteq 1..Len(events)
      <4>1. Len(events) \in Nat /\ DOMAIN events = 1..Len(events)
        BY <2>0
      <4>2. IsFiniteSet(1..Len(events))
        <5>1. \A n \in Nat : IsFiniteSet(1..n)
          BY FS_Interval
        <5> QED
          BY <4>1, <5>1
      <4> QED
        BY <2>4, <4>1, <4>2
    <3> QED
      BY <3>1, FS_Subset, FS_CardinalityType
  <2> QED
    BY <2>0, <2>3, <2>5, <2>6
<1> QED
  BY <1>1, <1>2, InitTypes, InitApart, InitSingle, TypesStep, ApartStep, ClockedStep, SingleStep,
     BurstsStep, PTL DEF Spec
=============================================================================
