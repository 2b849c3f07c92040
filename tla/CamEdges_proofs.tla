--------------------------- MODULE CamEdges_proofs ---------------------------
(***************************************************************************)
(* Proofs about CamEdges, for any number of CPUs and processes and a table *)
(* of any size.                                                            *)
(*                                                                         *)
(* The properties count the edges that came since an edge; the code counts *)
(* with edge_pos modulo MAX_EDGES.  Table connects the two: it gives every *)
(* edge its number, Place, which does not change while later edges come.   *)
(* Promised and Kept follow an edge and its call through the two records   *)
(* of their program.                                                       *)
(***************************************************************************)
EXTENDS CamEdges, TLAPS, FiniteSetTheorems, WellFoundedInduction

USE EdgesAssumption

Reports == {<<>>, <<"EDGE", "CALL">>, <<"CALL">>, <<"FRAME">>}
Programs == [pc : {"idle", "emit", "fill"}, pid : Pids \cup {0}, n : Nat, now : Nat, emit : Reports,
             slot : Nat]
RingRecords == [type : {"EDGE", "CALL", "FRAME"}, pid : Pids, n : Nat, ts : Nat, st : {"busy", "ready"}]

Types ==
  /\ clock \in Nat /\ fired \in Nat
  /\ prog \in [CPUs -> Programs]
  /\ ring \in Seq(RingRecords)
  /\ handled \in Nat /\ handled <= Len(ring)
  /\ edges \in [0..(MAX_EDGES - 1) -> [src_pid : Pids \cup {0}, ts : Nat]]
  /\ edge_pos \in Nat

(* What a program p that runs is about, and the record of rg it fills. *)
Slot(p, rg, now) ==
  /\ p.pc # "idle" => p.pid \in Pids /\ p.emit # <<>> /\ p.now <= now /\ now <= p.now + MaxRun
  /\ p.pc = "fill" => /\ p.slot \in 1..Len(rg)
                      /\ rg[p.slot].st = "busy" /\ rg[p.slot].type = Head(p.emit)
                      /\ rg[p.slot].n = p.n /\ rg[p.slot].pid = p.pid

Slots ==
  /\ \A c \in CPUs : Slot(prog[c], ring, clock)
  /\ \A c, d \in CPUs : prog[c].pc = "fill" /\ prog[d].pc = "fill" /\ c # d => prog[c].slot # prog[d].slot

Submitted ==
  /\ \A i \in 1..handled : ring[i].st = "ready"
  /\ \A i \in 1..Len(ring) : ring[i].ts <= clock

(* The edge numbered n of pid is at i of rg, not before now. *)
EdgeAt(rg, i, pid, n, now) ==
  /\ i \in 1..Len(rg) /\ rg[i].type = "EDGE" /\ rg[i].st = "ready"
  /\ rg[i].pid = pid /\ rg[i].n = n /\ now <= rg[i].ts

(* A program that reports its call has submitted its edge, or lost it. *)
HasEdge(p, rg, lost) ==
  p.pc # "idle" /\ p.emit = <<"CALL">> =>
    \/ [type |-> "EDGE", n |-> p.n] \in lost
    \/ \E i \in 1..Len(rg) : EdgeAt(rg, i, p.pid, p.n, p.now) /\ (p.pc = "fill" => i < p.slot)

Promised == \A c \in CPUs : HasEdge(prog[c], ring, dropped)

(* The edge of a call comes before it, and not long before. *)
CallAt(j, rg, lost) ==
  rg[j].type = "CALL" /\ rg[j].st = "ready" =>
    \/ [type |-> "EDGE", n |-> rg[j].n] \in lost
    \/ \E i \in 1..Len(rg) : /\ EdgeAt(rg, i, rg[j].pid, rg[j].n, 0) /\ i < j
                             /\ rg[i].ts <= rg[j].ts /\ rg[j].ts <= rg[i].ts + MaxRun

Kept == \A j \in 1..Len(ring) : CallAt(j, ring, dropped)

Queue == Types /\ Slots /\ Submitted /\ Promised /\ Kept

-----------------------------------------------------------------------------
IsEdge(i) == i \in 1..handled /\ ring[i].type = "EDGE"

(* The number of a handled edge: how many were handled before it. *)
Place(i) == edge_pos - Cardinality(EdgesSince(i))

Table ==
  /\ \A i \in 1..handled : IsEdge(i) => Place(i) \in 0..(edge_pos - 1)
  /\ \A i, j \in 1..handled : IsEdge(i) /\ IsEdge(j) /\ i < j => Place(i) < Place(j)
  /\ \A k \in 0..(edge_pos - 1) : \E i \in 1..handled : IsEdge(i) /\ Place(i) = k
  /\ \A i \in 1..handled : IsEdge(i) /\ Place(i) >= edge_pos - MAX_EDGES =>
       edges[Place(i) % MAX_EDGES] = [src_pid |-> ring[i].pid, ts |-> ring[i].ts]

(* handle_event showed the edge that it would find now: a record that is   *)
(* not an edge changes nothing.                                            *)
Found ==
  handled > 0 /\ ring[handled].type # "EDGE" =>
    shown = find_recent_edge(ring[handled].pid, ring[handled].ts)

-----------------------------------------------------------------------------
(* A set of numbers up to n that is not empty has a largest one. *)
LEMMA HasLargest ==
  ASSUME NEW n \in Nat, NEW S \in SUBSET (0..n), S # {}
  PROVE  \E m \in S : \A k \in S : k <= m
<1> DEFINE R == {x \in Nat \X Nat : x[1] < x[2]}
           T == {i \in 0..n : n - i \in S}
<1>1. R = OpToRel(<, Nat)
  BY DEF OpToRel
<1>2. IsWellFoundedOn(R, Nat)
  BY <1>1, NatLessThanWellFounded
<1>3. T \subseteq Nat /\ T # {}
  <2>1. PICK k \in 0..n : k \in S
    OBVIOUS
  <2>2. n - k \in 0..n /\ n - (n - k) = k
    OBVIOUS
  <2>3. \E i \in 0..n : n - i \in S
    BY <2>1, <2>2
  <2>4. T \subseteq Nat
    OBVIOUS
  <2> QED
    BY <2>3, <2>4
<1> HIDE DEF R, T
<1>4. PICK x \in T : \A y \in T : <<y, x>> \notin R
  BY <1>2, <1>3, WFMin
<1>5. \A y \in T : ~(y < x)
  BY <1>3, <1>4 DEF R
<1>6. \A k \in S : k \in 0..n /\ n - k \in T
  <2> SUFFICES ASSUME NEW k \in S PROVE k \in 0..n /\ n - k \in T
    OBVIOUS
  <2>1. k \in 0..n /\ n - k \in 0..n /\ n - (n - k) = k
    OBVIOUS
  <2> QED
    BY <2>1 DEF T
<1>7. n - x \in S /\ \A k \in S : k <= n - x
  BY <1>5, <1>6 DEF T
<1> QED
  BY <1>7

(* Numbers less than N apart have different remainders. *)
LEMMA OtherRemainder ==
  ASSUME NEW N \in Nat \ {0}, NEW a \in Nat, NEW b \in Nat, a < b, b < a + N
  PROVE  a % N # b % N
<1>1. PICK q \in Nat, r \in 0..(N - 1) : a = N * q + r /\ r = a % N
  BY Z3
<1>2. PICK t \in Nat, u \in 0..(N - 1) : b = N * t + u /\ u = b % N
  BY Z3
<1>3. CASE r = u
  <2>0. PICK k \in Int : t = q + k
    <3>1. t - q \in Int /\ t = q + (t - q)
      OBVIOUS
    <3> QED
      BY <3>1
  <2>2. N * t = N * q + N * k /\ N * t \in Int /\ N * q \in Int /\ N * k \in Int
    BY <2>0, Z3
  <2>1. N * k > 0 /\ N * k < N
    <3>1. \A x, y, z \in Int : z = x + y /\ a = x + r /\ b = z + r => y > 0 /\ y < N
      OBVIOUS
    <3>2. a = N * q + r /\ b = N * t + r
      BY <1>1, <1>2, <1>3
    <3> QED
      BY <2>2, <3>1, <3>2
  <2>3. CASE k >= 1
    <3>1. PICK m \in Nat : k = m + 1
      BY <2>3
    <3>2. N * k = N * m + N /\ N * m >= 0
      BY <3>1, Z3
    <3> QED
      BY <2>1, <3>2
  <2>4. CASE k <= 0
    <3>1. PICK m \in Nat : k = -m
      BY <2>4
    <3>2. N * k = -(N * m) /\ N * m >= 0
      BY <3>1, Z3
    <3> QED
      BY <2>1, <3>2
  <2> QED
    BY <2>3, <2>4
<1> QED
  BY <1>1, <1>2, <1>3
-----------------------------------------------------------------------------
(* The fields of programs and records.                                     *)

LEMMA RingFields ==
  ASSUME Types
  PROVE  /\ Len(ring) \in Nat
         /\ \A i \in 1..Len(ring) :
              /\ ring[i] \in RingRecords /\ ring[i].type \in {"EDGE", "CALL", "FRAME"}
              /\ ring[i].pid \in Pids /\ ring[i].n \in Nat
              /\ ring[i].ts \in Nat /\ ring[i].st \in {"busy", "ready"}
<1>0. PICK R : R = RingRecords
  OBVIOUS
<1>1. ring \in Seq(R)
  BY <1>0 DEF Types
<1>2. Len(ring) \in Nat /\ \A i \in 1..Len(ring) : ring[i] \in R
  BY <1>1
<1> QED
  BY <1>0, <1>2 DEF RingRecords

(* emit_event returns to a program that has its call to report, or ends. *)
LEMMA EmittedFields ==
  ASSUME Types, NEW c \in CPUs, prog[c].emit # <<>>
  PROVE  \/ Emitted(c) = Idle /\ prog[c].emit # <<"EDGE", "CALL">>
         \/ /\ prog[c].emit = <<"EDGE", "CALL">> /\ Emitted(c) \in Programs
            /\ Emitted(c).pc = "emit" /\ Emitted(c).pid = prog[c].pid /\ Emitted(c).n = prog[c].n
            /\ Emitted(c).now = prog[c].now /\ Emitted(c).emit = <<"CALL">>
<1>1. prog[c] \in Programs
  BY DEF Types
<1>2. prog[c].emit \in {<<"EDGE", "CALL">>, <<"CALL">>, <<"FRAME">>}
  BY <1>1 DEF Programs, Reports
<1>3. CASE prog[c].emit \in {<<"CALL">>, <<"FRAME">>}
  <2>1. Len(<<"CALL">>) = 1 /\ Len(<<"FRAME">>) = 1 /\ Len(<<"EDGE", "CALL">>) = 2
    OBVIOUS
  <2>2. Len(prog[c].emit) = 1 /\ prog[c].emit # <<"EDGE", "CALL">>
    BY <1>3, <2>1
  <2> QED
    BY <2>2 DEF Emitted
<1>4. CASE prog[c].emit = <<"EDGE", "CALL">>
  <2>1. Len(prog[c].emit) = 2 /\ Tail(prog[c].emit) = <<"CALL">>
    BY <1>4
  <2>2. PICK e : e = <<"CALL">>
    OBVIOUS
  <2>3. Emitted(c) = [prog[c] EXCEPT !.pc = "emit", !.emit = e, !.slot = 0]
    <3>1. Len(prog[c].emit) # 1
      BY <2>1
    <3>2. Emitted(c) = [prog[c] EXCEPT !.pc = "emit", !.emit = Tail(prog[c].emit), !.slot = 0]
      BY <1>1, <3>1, Zenon DEF Emitted
    <3> QED
      BY <2>1, <2>2, <3>2, Zenon
  <2>4. Emitted(c) = [pc |-> "emit", pid |-> prog[c].pid, n |-> prog[c].n, now |-> prog[c].now,
                      emit |-> e, slot |-> 0]
    BY <1>1, <2>3 DEF Programs
  <2>5. e \in Reports
    BY <2>2 DEF Reports
  <2>6. Emitted(c) \in Programs
    BY <1>1, <2>4, <2>5 DEF Programs
  <2> QED
    BY <1>4, <2>2, <2>4, <2>6
<1> QED
  BY <1>2, <1>3, <1>4

OnlyOn(c) == \A d \in CPUs : d # c => prog'[d] = prog[d]

LEMMA IdleFields == Idle \in Programs /\ Idle.pc = "idle"
<1>1. PICK e : e = <<>>
  OBVIOUS
<1>2. e \in Reports
  BY <1>1 DEF Reports
<1>3. Idle = [pc |-> "idle", pid |-> 0, n |-> 0, now |-> 0, emit |-> e, slot |-> 0]
  BY <1>1 DEF Idle
<1> QED
  BY <1>2, <1>3 DEF Programs
-----------------------------------------------------------------------------
(* A record that is ready does not change any more.                        *)

Grows ==
  /\ dropped \subseteq dropped' /\ Len(ring) \in Nat /\ Len(ring') \in Nat /\ Len(ring) <= Len(ring')
  /\ \A i \in 1..Len(ring) : ring[i].st = "ready" => ring'[i] = ring[i]

LEMMA EdgeStays ==
  ASSUME Grows, NEW i, NEW pid, NEW n, NEW now, EdgeAt(ring, i, pid, n, now)
  PROVE  EdgeAt(ring', i, pid, n, now) /\ i \in 1..Len(ring')
BY DEF Grows, EdgeAt

LEMMA HasEdgeStays ==
  ASSUME Grows, NEW p, HasEdge(p, ring, dropped)
  PROVE  HasEdge(p, ring', dropped')
<1>1. CASE p.pc # "idle" /\ p.emit = <<"CALL">> /\ [type |-> "EDGE", n |-> p.n] \notin dropped
  <2>1. PICK i \in 1..Len(ring) : EdgeAt(ring, i, p.pid, p.n, p.now) /\ (p.pc = "fill" => i < p.slot)
    BY <1>1 DEF HasEdge
  <2>2. EdgeAt(ring', i, p.pid, p.n, p.now) /\ i \in 1..Len(ring')
    BY <2>1, EdgeStays
  <2> QED
    BY <2>1, <2>2 DEF HasEdge
<1>2. CASE ~(p.pc # "idle" /\ p.emit = <<"CALL">>) \/ [type |-> "EDGE", n |-> p.n] \in dropped
  BY <1>2 DEF HasEdge, Grows
<1> QED
  BY <1>1, <1>2

LEMMA CallStays ==
  ASSUME Grows, NEW j \in 1..Len(ring), ring[j].st = "ready", CallAt(j, ring, dropped)
  PROVE  CallAt(j, ring', dropped')
<1>0. ring'[j] = ring[j]
  BY DEF Grows
<1>1. CASE ring[j].type = "CALL" /\ [type |-> "EDGE", n |-> ring[j].n] \notin dropped
  <2>1. PICK i \in 1..Len(ring) : /\ EdgeAt(ring, i, ring[j].pid, ring[j].n, 0) /\ i < j
                                  /\ ring[i].ts <= ring[j].ts /\ ring[j].ts <= ring[i].ts + MaxRun
    BY <1>1 DEF CallAt
  <2>2. EdgeAt(ring', i, ring[j].pid, ring[j].n, 0) /\ i \in 1..Len(ring')
    BY <2>1, EdgeStays
  <2>3. ring'[i] = ring[i]
    BY <2>1 DEF Grows, EdgeAt
  <2> QED
    BY <1>0, <2>1, <2>2, <2>3 DEF CallAt
<1>2. CASE ring[j].type # "CALL" \/ [type |-> "EDGE", n |-> ring[j].n] \in dropped
  BY <1>0, <1>2 DEF CallAt, Grows
<1> QED
  BY <1>1, <1>2

(* The invariant of programs and records after a step of c that leaves the *)
(* clock, the user part and the records as they are. *)
LEMMA SameRing ==
  ASSUME Queue, NEW c \in CPUs, OnlyOn(c), prog' \in [CPUs -> Programs], dropped \subseteq dropped',
         UNCHANGED <<clock, ring, handled, edges, edge_pos>>, fired' \in Nat,
         prog'[c].pc # "fill", Slot(prog'[c], ring, clock), HasEdge(prog'[c], ring, dropped')
  PROVE  Queue' /\ Grows
<1>1. Len(ring) \in Nat /\ Len(ring) <= Len(ring)
  BY RingFields DEF Queue
<1>2. Grows
  BY <1>1 DEF Grows
<1>3. Types'
  BY DEF Queue, Types
<1>4. Slots'
  <2>1. \A d \in CPUs : Slot(prog'[d], ring', clock')
    BY DEF OnlyOn, Queue, Slots
  <2>2. \A d, e \in CPUs : prog'[d].pc = "fill" /\ prog'[e].pc = "fill" /\ d # e =>
          prog'[d].slot # prog'[e].slot
    BY DEF OnlyOn, Queue, Slots
  <2> QED
    BY <2>1, <2>2 DEF Slots
<1>5. Submitted'
  BY DEF Queue, Submitted
<1>6. Promised'
  <2>1. \A d \in CPUs : d # c => HasEdge(prog[d], ring', dropped')
    BY <1>2, HasEdgeStays DEF Queue, Promised
  <2> QED
    BY <2>1 DEF OnlyOn, Promised
<1>7. Kept'
  <2> SUFFICES ASSUME NEW j \in 1..Len(ring) PROVE CallAt(j, ring', dropped')
    BY DEF Kept
  <2>1. CASE ring[j].st = "ready"
    BY <1>2, <2>1, CallStays DEF Queue, Kept
  <2>2. CASE ring[j].st # "ready"
    BY <2>2 DEF CallAt
  <2> QED
    BY <2>1, <2>2
<1> QED
  BY <1>2, <1>3, <1>4, <1>5, <1>6, <1>7 DEF Queue

LEMMA HookQueue ==
  ASSUME Queue, NEW c \in CPUs, NEW p \in Pids, Binder(c, p) \/ Frame(c, p)
  PROVE  Queue' /\ Grows
<1>1. PICK e \in {<<"EDGE", "CALL">>, <<"FRAME">>} : Hook(c, p, e)
  BY DEF Binder, Frame, BinderReports
<1>2. e \in Reports /\ e # <<>> /\ e # <<"CALL">>
  <2>1. Len(<<"EDGE", "CALL">>) = 2 /\ Len(<<"CALL">>) = 1 /\ Len(<<>>) = 0 /\ Len(<<"FRAME">>) = 1
    OBVIOUS
  <2>2. <<"FRAME">>[1] = "FRAME" /\ <<"CALL">>[1] = "CALL"
    OBVIOUS
  <2>3. e \in Reports
    BY <1>1 DEF Reports
  <2> QED
    BY <1>1, <2>1, <2>2, <2>3
<1>3. clock \in Nat /\ fired \in Nat /\ clock <= clock /\ clock <= clock + MaxRun
  BY DEF Queue, Types
<1>4. PICK new : new = [pc |-> "emit", pid |-> p, n |-> fired + 1, now |-> clock, emit |-> e, slot |-> 0]
  OBVIOUS
<1>5. new \in Programs
  BY <1>2, <1>3, <1>4 DEF Programs
<1>6. prog' = [prog EXCEPT ![c] = new] /\ fired' = fired + 1
  BY <1>1, <1>4 DEF Hook
<1>7. UNCHANGED <<clock, ring, handled, edges, edge_pos, dropped>>
  BY <1>1 DEF Hook, userVars
<1>8. OnlyOn(c) /\ prog' \in [CPUs -> Programs] /\ prog'[c] = new
  BY <1>5, <1>6 DEF Queue, Types, OnlyOn
<1>9. Slot(new, ring, clock) /\ HasEdge(new, ring, dropped')
  BY <1>2, <1>3, <1>4 DEF Slot, HasEdge
<1> QED
  BY <1>3, <1>4, <1>6, <1>7, <1>8, <1>9, SameRing

LEMMA ReserveFailsQueue ==
  ASSUME Queue, NEW c \in CPUs, ReserveFails(c)
  PROVE  Queue' /\ Grows
<1>0. Types /\ prog[c].pc = "emit" /\ prog[c] \in Programs
  BY DEF Queue, ReserveFails, Types
<1>1. prog' = [prog EXCEPT ![c] = Emitted(c)]
  BY DEF ReserveFails
<1>2. UNCHANGED <<clock, fired, ring, handled, edges, edge_pos>>
  BY DEF ReserveFails, userVars
<1>3. dropped' = dropped \cup {[type |-> Head(prog[c].emit), n |-> prog[c].n]}
  BY DEF ReserveFails
<1>4. Slot(prog[c], ring, clock)
  BY DEF Queue, Slots
<1>5. prog[c].emit # <<>> /\ fired' \in Nat
  BY <1>0, <1>2, <1>4 DEF Slot, Types
<1>6. CASE Emitted(c) = Idle
  <2>1. OnlyOn(c) /\ prog' \in [CPUs -> Programs] /\ prog'[c] = Idle
    BY <1>0, <1>1, <1>6, IdleFields DEF Types, OnlyOn
  <2>2. Slot(Idle, ring, clock) /\ HasEdge(Idle, ring, dropped') /\ Idle.pc # "fill"
    BY IdleFields DEF Slot, HasEdge
  <2> QED
    BY <1>2, <1>3, <1>5, <2>1, <2>2, SameRing
<1>7. CASE Emitted(c) # Idle
  <2>1. /\ prog[c].emit = <<"EDGE", "CALL">> /\ Emitted(c) \in Programs
        /\ Emitted(c).pc = "emit" /\ Emitted(c).pid = prog[c].pid /\ Emitted(c).n = prog[c].n
        /\ Emitted(c).now = prog[c].now /\ Emitted(c).emit = <<"CALL">>
    BY <1>0, <1>5, <1>7, EmittedFields
  <2>2. OnlyOn(c) /\ prog' \in [CPUs -> Programs] /\ prog'[c] = Emitted(c)
    BY <1>0, <1>1, <2>1 DEF Types, OnlyOn
  <2>3. Head(prog[c].emit) = "EDGE" /\ Emitted(c).emit # <<>>
    BY <2>1
  <2>4. HasEdge(Emitted(c), ring, dropped')
    BY <1>3, <2>1, <2>3 DEF HasEdge
  <2>5. Slot(Emitted(c), ring, clock)
    BY <1>0, <1>4, <2>1, <2>3 DEF Slot
  <2> QED
    BY <1>2, <1>3, <1>5, <2>1, <2>2, <2>4, <2>5, SameRing
<1> QED
  BY <1>6, <1>7

LEMMA ReserveFields ==
  ASSUME Queue, NEW c \in CPUs, Reserve(c)
  PROVE  /\ Len(ring) \in Nat /\ ring' \in Seq(RingRecords) /\ Len(ring') = Len(ring) + 1
         /\ \A i \in 1..Len(ring) : ring'[i] = ring[i]
         /\ ring'[Len(ring) + 1].type = Head(prog[c].emit) /\ ring'[Len(ring) + 1].pid = prog[c].pid
         /\ ring'[Len(ring) + 1].n = prog[c].n /\ ring'[Len(ring) + 1].ts = 0
         /\ ring'[Len(ring) + 1].st = "busy"
         /\ OnlyOn(c) /\ prog' \in [CPUs -> Programs] /\ prog[c].pc = "emit"
         /\ prog'[c].pc = "fill" /\ prog'[c].slot = Len(ring) + 1
         /\ prog'[c].pid = prog[c].pid /\ prog'[c].n = prog[c].n /\ prog'[c].now = prog[c].now
         /\ prog'[c].emit = prog[c].emit
         /\ UNCHANGED <<clock, fired, dropped, handled, edges, edge_pos, shown>>
<1>0. Types /\ prog[c] \in Programs /\ Len(ring) \in Nat /\ prog[c].pc = "emit"
  BY RingFields DEF Queue, Types, Reserve
<1>1. prog[c].pid \in Pids /\ prog[c].emit # <<>>
  BY <1>0 DEF Queue, Slots, Slot
<1>2. Head(prog[c].emit) \in {"EDGE", "CALL", "FRAME"}
  <2>1. prog[c].emit \in {<<"EDGE", "CALL">>, <<"CALL">>, <<"FRAME">>}
    BY <1>0, <1>1 DEF Programs, Reports
  <2>2. Head(<<"EDGE", "CALL">>) = "EDGE" /\ Head(<<"CALL">>) = "CALL" /\ Head(<<"FRAME">>) = "FRAME"
    OBVIOUS
  <2> QED
    BY <2>1, <2>2
<1>3. PICK h \in {"EDGE", "CALL", "FRAME"} : h = Head(prog[c].emit)
  BY <1>2
<1>4. PICK r : r = [type |-> h, pid |-> prog[c].pid, n |-> prog[c].n, ts |-> 0, st |-> "busy"]
  OBVIOUS
<1>5. r \in RingRecords
  BY <1>0, <1>1, <1>3, <1>4 DEF RingRecords, Programs
<1>6. ring' = Append(ring, r)
  BY <1>3, <1>4 DEF Reserve
<1>7. /\ ring' \in Seq(RingRecords) /\ Len(ring') = Len(ring) + 1
      /\ (\A i \in 1..Len(ring) : ring'[i] = ring[i]) /\ ring'[Len(ring) + 1] = r
  <2>1. PICK R : R = RingRecords
    OBVIOUS
  <2>2. ring \in Seq(R) /\ r \in R
    BY <1>0, <1>5, <2>1 DEF Types
  <2>3. /\ ring' \in Seq(R) /\ Len(ring') = Len(ring) + 1
        /\ (\A i \in 1..Len(ring) : ring'[i] = ring[i]) /\ ring'[Len(ring) + 1] = r
    BY <1>6, <2>2
  <2> QED
    BY <2>1, <2>3
<1>8. PICK m \in Nat : m = Len(ring) + 1
  BY <1>0
<1>9. prog'[c] = [prog[c] EXCEPT !.pc = "fill", !.slot = m]
  BY <1>0, <1>8 DEF Reserve, Types
<1>10. prog'[c] = [pc |-> "fill", pid |-> prog[c].pid, n |-> prog[c].n, now |-> prog[c].now,
                   emit |-> prog[c].emit, slot |-> m]
  BY <1>0, <1>9 DEF Programs
<1>11. prog'[c] \in Programs
  BY <1>0, <1>8, <1>10 DEF Programs
<1>12. OnlyOn(c) /\ prog' = [prog EXCEPT ![c] = prog'[c]]
  BY <1>0 DEF Reserve, Types, OnlyOn
<1>13. prog' \in [CPUs -> Programs]
  BY <1>0, <1>11, <1>12 DEF Types
<1>14. UNCHANGED <<clock, fired, dropped, handled, edges, edge_pos, shown>>
  BY DEF Reserve, userVars
<1> QED
  BY <1>0, <1>3, <1>4, <1>7, <1>8, <1>10, <1>12, <1>13, <1>14

LEMMA ReserveQueue ==
  ASSUME Queue, NEW c \in CPUs, Reserve(c)
  PROVE  Queue' /\ Grows
<1>0. Types
  BY DEF Queue
<1>1. PICK m : m = Len(ring) + 1
  OBVIOUS
<1>2. /\ Len(ring) \in Nat /\ Len(ring') = m /\ m \in 1..m /\ m \notin 1..Len(ring)
      /\ \A i \in 1..m : i = m \/ i \in 1..Len(ring)
      /\ \A i \in 1..Len(ring) : i \in 1..m /\ i < m /\ ring'[i] = ring[i]
  BY <1>1, ReserveFields
<1>3. /\ ring'[m].type = Head(prog[c].emit) /\ ring'[m].pid = prog[c].pid
      /\ ring'[m].n = prog[c].n /\ ring'[m].ts = 0 /\ ring'[m].st = "busy"
  BY <1>1, ReserveFields
<1>4. /\ OnlyOn(c) /\ prog' \in [CPUs -> Programs] /\ prog[c].pc = "emit"
      /\ prog'[c].pc = "fill" /\ prog'[c].slot = m
      /\ prog'[c].pid = prog[c].pid /\ prog'[c].n = prog[c].n /\ prog'[c].now = prog[c].now
      /\ prog'[c].emit = prog[c].emit
      /\ UNCHANGED <<clock, fired, dropped, handled, edges, edge_pos, shown>>
  BY <1>1, ReserveFields
<1>5. Grows
  BY <1>1, <1>2, <1>4 DEF Grows
<1>6. Types'
  <2>1. handled \in Nat /\ handled <= Len(ring')
    BY <1>0, <1>1, <1>2 DEF Types
  <2> QED
    BY <1>0, <1>4, <2>1, ReserveFields DEF Types
<1>7. Slots'
  <2>1. ASSUME NEW d \in CPUs PROVE Slot(prog'[d], ring', clock')
    <3>0. Slot(prog[d], ring, clock)
      BY DEF Queue, Slots
    <3>1. CASE d = c
      BY <1>2, <1>3, <1>4, <3>0, <3>1 DEF Slot
    <3>2. CASE d # c
      BY <1>2, <1>4, <3>0, <3>2 DEF Slot, OnlyOn
    <3> QED
      BY <3>1, <3>2
  <2>2. ASSUME NEW d \in CPUs, d # c, prog'[d].pc = "fill" PROVE prog'[d].slot # m
    <3>1. prog'[d] = prog[d] /\ Slot(prog[d], ring, clock)
      BY <1>4, <2>2 DEF OnlyOn, Queue, Slots
    <3> QED
      BY <1>2, <2>2, <3>1 DEF Slot
  <2>3. \A d, e \in CPUs : prog'[d].pc = "fill" /\ prog'[e].pc = "fill" /\ d # e =>
          prog'[d].slot # prog'[e].slot
    BY <1>4, <2>2 DEF OnlyOn, Queue, Slots
  <2> QED
    BY <2>1, <2>3 DEF Slots
<1>8. Submitted'
  <2>1. \A i \in 1..handled : i \in 1..Len(ring)
    BY <1>0, <1>2 DEF Types
  <2>2. 0 <= clock
    BY <1>0 DEF Types
  <2> QED
    BY <1>2, <1>3, <1>4, <2>1, <2>2, SMTT(40) DEF Queue, Submitted
<1>9. Promised'
  <2> SUFFICES ASSUME NEW d \in CPUs PROVE HasEdge(prog'[d], ring', dropped')
    BY DEF Promised
  <2>1. HasEdge(prog[d], ring', dropped')
    BY <1>5, HasEdgeStays DEF Queue, Promised
  <2>2. CASE d # c
    BY <1>4, <2>1, <2>2 DEF OnlyOn
  <2>3. CASE d = c
    <3>1. HasEdge(prog[c], ring, dropped)
      BY DEF Queue, Promised
    <3>2. CASE prog[c].emit = <<"CALL">> /\ [type |-> "EDGE", n |-> prog[c].n] \notin dropped
      <4>1. PICK i \in 1..Len(ring) : EdgeAt(ring, i, prog[c].pid, prog[c].n, prog[c].now)
        BY <1>4, <3>1, <3>2 DEF HasEdge
      <4>2. EdgeAt(ring', i, prog[c].pid, prog[c].n, prog[c].now) /\ i \in 1..Len(ring') /\ i < m
        BY <1>2, <1>5, <4>1, EdgeStays
      <4> QED
        BY <1>4, <2>3, <4>2 DEF HasEdge
    <3>3. CASE prog[c].emit # <<"CALL">> \/ [type |-> "EDGE", n |-> prog[c].n] \in dropped
      BY <1>4, <2>3, <3>3 DEF HasEdge
    <3> QED
      BY <3>2, <3>3
  <2> QED
    BY <2>2, <2>3
<1>10. Kept'
  <2> SUFFICES ASSUME NEW j \in 1..Len(ring') PROVE CallAt(j, ring', dropped')
    BY DEF Kept
  <2>1. CASE j = m
    BY <1>3, <2>1 DEF CallAt
  <2>2. CASE j \in 1..Len(ring) /\ ring[j].st = "ready"
    BY <1>5, <2>2, CallStays DEF Queue, Kept
  <2>3. CASE j \in 1..Len(ring) /\ ring[j].st # "ready"
    BY <1>2, <2>3 DEF CallAt
  <2> QED
    BY <1>2, <2>1, <2>2, <2>3
<1> QED
  BY <1>5, <1>6, <1>7, <1>8, <1>9, <1>10 DEF Queue

LEMMA SubmitFields ==
  ASSUME Queue, NEW c \in CPUs, Submit(c), NEW k, k = prog[c].slot
  PROVE  /\ k \in 1..Len(ring) /\ ring' \in Seq(RingRecords) /\ Len(ring') = Len(ring)
         /\ \A i \in 1..Len(ring) : i # k => ring'[i] = ring[i]
         /\ ring[k].type = Head(prog[c].emit) /\ ring[k].n = prog[c].n /\ ring[k].pid = prog[c].pid
         /\ ring[k].st = "busy"
         /\ ring'[k].type = ring[k].type /\ ring'[k].n = ring[k].n /\ ring'[k].pid = ring[k].pid
         /\ ring'[k].st = "ready" /\ ring'[k].ts = clock
         /\ prog[c].pc = "fill" /\ prog' = [prog EXCEPT ![c] = Emitted(c)]
         /\ UNCHANGED <<clock, fired, dropped, handled, edges, edge_pos, shown>>
<1>0. Types /\ prog[c].pc = "fill" /\ prog' = [prog EXCEPT ![c] = Emitted(c)]
  BY DEF Queue, Submit
<1>1. UNCHANGED <<clock, fired, dropped, handled, edges, edge_pos, shown>>
  BY DEF Submit, userVars
<1>2. /\ k \in 1..Len(ring) /\ ring[k].st = "busy" /\ ring[k].type = Head(prog[c].emit)
      /\ ring[k].n = prog[c].n /\ ring[k].pid = prog[c].pid
  BY <1>0 DEF Queue, Slots, Slot
<1>3. ring[k] \in RingRecords /\ Len(ring) \in Nat
  BY <1>0, <1>2, RingFields
<1>4. PICK o \in RingRecords, t \in Nat, r \in {[ring[k] EXCEPT !.ts = clock, !.st = "ready"]} :
        o = ring[k] /\ t = clock /\ r = [o EXCEPT !.ts = t, !.st = "ready"]
  BY <1>0, <1>3 DEF Types
<1>5. /\ r \in RingRecords /\ r.type = o.type /\ r.pid = o.pid /\ r.n = o.n
      /\ r.ts = t /\ r.st = "ready"
  BY <1>4 DEF RingRecords
<1>6. ring' = [ring EXCEPT ![k] = r]
  <2>1. ring' = [ring EXCEPT ![k] = [ring[k] EXCEPT !.ts = clock, !.st = "ready"]]
    BY <1>0, <1>2, <1>3 DEF Submit, Types
  <2> QED
    BY <1>4, <2>1, Zenon
<1>7. /\ ring' \in Seq(RingRecords) /\ Len(ring') = Len(ring) /\ ring'[k] = r
      /\ \A i \in 1..Len(ring) : i # k => ring'[i] = ring[i]
  <2>1. PICK R : R = RingRecords
    OBVIOUS
  <2>2. ring \in Seq(R) /\ r \in R
    BY <1>0, <1>5, <2>1 DEF Types
  <2>3. /\ ring' \in Seq(R) /\ Len(ring') = Len(ring) /\ ring'[k] = r
        /\ \A i \in 1..Len(ring) : i # k => ring'[i] = ring[i]
    BY <1>2, <1>6, <2>2
  <2> QED
    BY <2>1, <2>3
<1> QED
  BY <1>0, <1>1, <1>2, <1>4, <1>5, <1>7

LEMMA SubmitQueue ==
  ASSUME Queue, NEW c \in CPUs, Submit(c)
  PROVE  Queue' /\ Grows
<1>1. PICK k : k = prog[c].slot
  OBVIOUS
<1>2. /\ k \in 1..Len(ring) /\ ring' \in Seq(RingRecords) /\ Len(ring') = Len(ring)
      /\ \A i \in 1..Len(ring) : i # k => ring'[i] = ring[i]
  BY <1>1, SubmitFields
<1>3. /\ ring[k].type = Head(prog[c].emit) /\ ring[k].n = prog[c].n /\ ring[k].pid = prog[c].pid
      /\ ring[k].st = "busy"
      /\ ring'[k].type = ring[k].type /\ ring'[k].n = ring[k].n /\ ring'[k].pid = ring[k].pid
      /\ ring'[k].st = "ready" /\ ring'[k].ts = clock
  BY <1>1, SubmitFields
<1>4. /\ prog[c].pc = "fill" /\ prog' = [prog EXCEPT ![c] = Emitted(c)]
      /\ UNCHANGED <<clock, fired, dropped, handled, edges, edge_pos, shown>>
  BY <1>1, SubmitFields
<1>5. /\ Types /\ prog[c] \in Programs /\ Len(ring) \in Nat /\ clock \in Nat
      /\ \A i \in 1..Len(ring) : ring[i].ts \in Nat
  BY RingFields DEF Queue, Types
<1>6. Grows
  BY <1>2, <1>3, <1>4, <1>5 DEF Grows
<1>7. /\ Slot(prog[c], ring, clock) /\ prog[c].emit # <<>> /\ prog[c].now \in Nat
      /\ prog[c].now <= clock /\ clock <= prog[c].now + MaxRun
  BY <1>4, <1>5 DEF Queue, Slots, Slot, Programs
<1>8. /\ OnlyOn(c) /\ prog' \in [CPUs -> Programs] /\ prog'[c].pc # "fill"
      /\ prog'[c].pc # "idle" =>
           /\ prog[c].emit = <<"EDGE", "CALL">>
           /\ prog'[c].pid = prog[c].pid /\ prog'[c].n = prog[c].n
           /\ prog'[c].now = prog[c].now /\ prog'[c].emit = <<"CALL">>
  <2>1. Emitted(c) = Idle \/ Emitted(c) \in Programs
    BY <1>5, <1>7, EmittedFields
  <2>2. OnlyOn(c) /\ prog' \in [CPUs -> Programs] /\ prog'[c] = Emitted(c)
    BY <1>4, <1>5, <2>1, IdleFields DEF Types, OnlyOn
  <2>3. \/ Emitted(c) = Idle
        \/ /\ prog[c].emit = <<"EDGE", "CALL">>
           /\ Emitted(c).pc = "emit" /\ Emitted(c).pid = prog[c].pid /\ Emitted(c).n = prog[c].n
           /\ Emitted(c).now = prog[c].now /\ Emitted(c).emit = <<"CALL">>
    BY <1>5, <1>7, EmittedFields
  <2> QED
    BY <2>2, <2>3, IdleFields
<1>9. Types'
  BY <1>2, <1>4, <1>5, <1>8 DEF Types
<1>10. Slots'
  <2>1. ASSUME NEW d \in CPUs PROVE Slot(prog'[d], ring', clock')
    <3>0. Slot(prog[d], ring, clock)
      BY DEF Queue, Slots
    <3>1. CASE d = c
      <4>1. <<"CALL">> # <<>>
        OBVIOUS
      <4> QED
        BY <1>4, <1>7, <1>8, <3>1, <4>1 DEF Slot
    <3>2. CASE d # c
      <4>1. prog'[d] = prog[d] /\ (prog[d].pc = "fill" => prog[d].slot # k)
        BY <1>1, <1>4, <1>8, <3>2 DEF OnlyOn, Queue, Slots
      <4> QED
        BY <1>2, <1>4, <3>0, <4>1 DEF Slot
    <3> QED
      BY <3>1, <3>2
  <2>2. \A d, e \in CPUs : prog'[d].pc = "fill" /\ prog'[e].pc = "fill" /\ d # e =>
          prog'[d].slot # prog'[e].slot
    BY <1>8 DEF OnlyOn, Queue, Slots
  <2> QED
    BY <2>1, <2>2 DEF Slots
<1>11. Submitted'
  <2>1. \A i \in 1..handled : i \in 1..Len(ring)
    BY <1>5 DEF Types
  <2>2. clock <= clock
    BY <1>5
  <2>3. \A i \in 1..handled : ring'[i].st = "ready"
    BY <1>2, <1>3, <2>1 DEF Queue, Submitted
  <2>4. \A i \in 1..Len(ring) : ring'[i].ts <= clock
    BY <1>2, <1>3, <2>2 DEF Queue, Submitted
  <2> QED
    BY <1>2, <1>4, <2>3, <2>4 DEF Submitted
<1>12. Promised'
  <2> SUFFICES ASSUME NEW d \in CPUs PROVE HasEdge(prog'[d], ring', dropped')
    BY DEF Promised
  <2>1. CASE d # c
    <3>1. HasEdge(prog[d], ring', dropped')
      BY <1>6, HasEdgeStays DEF Queue, Promised
    <3> QED
      BY <1>8, <2>1, <3>1 DEF OnlyOn
  <2>2. CASE d = c
    <3>1. SUFFICES ASSUME prog'[c].pc # "idle" PROVE HasEdge(prog'[c], ring', dropped')
      BY <2>2 DEF HasEdge
    <3>2. Head(prog[c].emit) = "EDGE"
      BY <1>8, <3>1
    <3>3. EdgeAt(ring', k, prog'[c].pid, prog'[c].n, prog'[c].now) /\ k \in 1..Len(ring')
      BY <1>2, <1>3, <1>7, <1>8, <3>1, <3>2 DEF EdgeAt
    <3> QED
      BY <1>8, <3>3 DEF HasEdge
  <2> QED
    BY <2>1, <2>2
<1>13. Kept'
  <2> SUFFICES ASSUME NEW j \in 1..Len(ring) PROVE CallAt(j, ring', dropped')
    BY <1>2 DEF Kept
  <2>1. CASE j # k /\ ring[j].st = "ready"
    BY <1>6, <2>1, CallStays DEF Queue, Kept
  <2>2. CASE j # k /\ ring[j].st # "ready"
    BY <1>2, <2>2 DEF CallAt
  <2>3. CASE j = k
    <3>1. SUFFICES ASSUME ring[k].type = "CALL", [type |-> "EDGE", n |-> prog[c].n] \notin dropped
                   PROVE  CallAt(k, ring', dropped')
      BY <1>3, <1>4, <2>3 DEF CallAt
    <3>2. prog[c].emit = <<"CALL">>
      <4>1. prog[c].emit \in {<<"EDGE", "CALL">>, <<"CALL">>, <<"FRAME">>}
        BY <1>5, <1>7 DEF Programs, Reports
      <4>2. Head(<<"EDGE", "CALL">>) = "EDGE" /\ Head(<<"FRAME">>) = "FRAME"
        OBVIOUS
      <4> QED
        BY <1>3, <3>1, <4>1, <4>2
    <3>3. PICK i \in 1..Len(ring) : EdgeAt(ring, i, prog[c].pid, prog[c].n, prog[c].now) /\ i < k
      BY <1>1, <1>4, <3>1, <3>2 DEF Queue, Promised, HasEdge
    <3>4. EdgeAt(ring', i, prog[c].pid, prog[c].n, prog[c].now) /\ i \in 1..Len(ring')
      BY <1>6, <3>3, EdgeStays
    <3>5. ring'[i] = ring[i] /\ ring[i].ts \in Nat /\ ring[i].ts <= clock /\ prog[c].now <= ring[i].ts
      BY <1>2, <1>5, <3>3 DEF Queue, Submitted, EdgeAt
    <3>6. clock <= ring[i].ts + MaxRun /\ 0 <= ring[i].ts
      BY <1>5, <1>7, <3>5, SMTT(40)
    <3>7. EdgeAt(ring', i, ring'[k].pid, ring'[k].n, 0)
      BY <1>3, <3>4, <3>5, <3>6 DEF EdgeAt
    <3> QED
      BY <1>3, <3>3, <3>4, <3>5, <3>6, <3>7 DEF CallAt
  <2> QED
    BY <2>1, <2>2, <2>3
<1> QED
  BY <1>6, <1>9, <1>10, <1>11, <1>12, <1>13 DEF Queue

LEMMA TickQueue ==
  ASSUME Queue, Tick
  PROVE  Queue' /\ Grows
<1>1. UNCHANGED <<prog, fired, ring, dropped, handled, edges, edge_pos, shown>>
  BY DEF Tick, userVars
<1>2. clock' = clock + 1 /\ clock \in Nat
  BY DEF Tick, Queue, Types
<1>3. Len(ring) \in Nat /\ Len(ring) <= Len(ring) /\ \A i \in 1..Len(ring) : ring[i].ts \in Nat
  BY RingFields DEF Queue
<1>4. Grows
  BY <1>1, <1>3 DEF Grows
<1>5. Types'
  BY <1>1, <1>2 DEF Queue, Types
<1>6. Slots'
  <2>1. ASSUME NEW c \in CPUs, prog[c].pc # "idle"
        PROVE  prog[c].now <= clock' /\ clock' <= prog[c].now + MaxRun
    <3>1. prog[c].now \in Nat
      BY DEF Queue, Types, Programs
    <3>2. prog[c].now <= clock /\ clock' - prog[c].now <= MaxRun
      BY <2>1 DEF Tick, Queue, Slots, Slot
    <3> QED
      BY <1>2, <3>1, <3>2
  <2> QED
    BY <1>1, <2>1 DEF Queue, Slots, Slot
<1>7. Submitted'
  <2>1. \A i \in 1..Len(ring) : ring[i].ts <= clock'
    BY <1>2, <1>3 DEF Queue, Submitted
  <2> QED
    BY <1>1, <2>1 DEF Queue, Submitted
<1>8. Promised' /\ Kept'
  BY <1>1 DEF Queue, Promised, Kept
<1> QED
  BY <1>4, <1>5, <1>6, <1>7, <1>8 DEF Queue

LEMMA HandleFields ==
  ASSUME Queue, HandleEvent
  PROVE  /\ UNCHANGED <<clock, prog, fired, ring, dropped>> /\ handled' = handled + 1
         /\ handled \in Nat /\ handled + 1 \in 1..Len(ring) /\ handled + 1 <= Len(ring)
         /\ ring[handled + 1].st = "ready"
         /\ ring[handled + 1].type = "EDGE" =>
              /\ edges' = [edges EXCEPT ![edge_pos % MAX_EDGES] =
                             [src_pid |-> ring[handled + 1].pid, ts |-> ring[handled + 1].ts]]
              /\ edge_pos' = edge_pos + 1
         /\ ring[handled + 1].type # "EDGE" =>
              /\ UNCHANGED <<edges, edge_pos>>
              /\ shown' = find_recent_edge(ring[handled + 1].pid, ring[handled + 1].ts)
<1>1. UNCHANGED <<clock, prog, fired, ring, dropped>> /\ handled' = handled + 1
      /\ handled < Len(ring) /\ ring[handled + 1].st = "ready"
  BY DEF HandleEvent
<1>2. handled \in Nat /\ Len(ring) \in Nat
  BY RingFields DEF Queue, Types
<1>3. handled + 1 \in 1..Len(ring) /\ handled + 1 <= Len(ring)
  BY <1>1, <1>2
<1>4. CASE ring[handled + 1].type = "EDGE"
  BY <1>1, <1>2, <1>3, <1>4 DEF HandleEvent, remember_edge
<1>5. CASE ring[handled + 1].type # "EDGE"
  BY <1>1, <1>2, <1>3, <1>5 DEF HandleEvent
<1> QED
  BY <1>4, <1>5

LEMMA HandleQueue ==
  ASSUME Queue, HandleEvent
  PROVE  Queue' /\ Grows
<1>1. /\ UNCHANGED <<clock, prog, fired, ring, dropped>> /\ handled' = handled + 1
      /\ handled \in Nat /\ handled + 1 \in 1..Len(ring) /\ handled + 1 <= Len(ring)
      /\ ring[handled + 1].st = "ready"
  BY HandleFields
<1>2. Len(ring) \in Nat /\ Len(ring) <= Len(ring) /\ ring[handled + 1].pid \in Pids
      /\ ring[handled + 1].ts \in Nat
  BY <1>1, RingFields DEF Queue
<1>3. Grows
  BY <1>1, <1>2 DEF Grows
<1>4. edge_pos' \in Nat /\ edges' \in [0..(MAX_EDGES - 1) -> [src_pid : Pids \cup {0}, ts : Nat]]
  <2>0. edge_pos \in Nat /\ edges \in [0..(MAX_EDGES - 1) -> [src_pid : Pids \cup {0}, ts : Nat]]
    BY DEF Queue, Types
  <2>1. CASE ring[handled + 1].type = "EDGE"
    <3>1. PICK e \in [src_pid : Pids \cup {0}, ts : Nat] :
            e = [src_pid |-> ring[handled + 1].pid, ts |-> ring[handled + 1].ts]
      BY <1>2
    <3>2. edges' = [edges EXCEPT ![edge_pos % MAX_EDGES] = e] /\ edge_pos' = edge_pos + 1
      BY <2>1, <3>1, HandleFields
    <3> QED
      BY <2>0, <3>2
  <2>2. CASE ring[handled + 1].type # "EDGE"
    BY <2>0, <2>2, HandleFields
  <2> QED
    BY <2>1, <2>2
<1>5. Types'
  BY <1>1, <1>4 DEF Queue, Types
<1>6. Submitted'
  <2>1. \A i \in 1..(handled + 1) : i \in 1..handled \/ i = handled + 1
    BY <1>1
  <2> QED
    BY <1>1, <2>1 DEF Queue, Submitted
<1>7. Slots' /\ Promised' /\ Kept'
  BY <1>1 DEF Queue, Slots, Promised, Kept
<1> QED
  BY <1>3, <1>5, <1>6, <1>7 DEF Queue

LEMMA InitQueue == Init => Queue
<1> SUFFICES ASSUME Init PROVE Queue
  OBVIOUS
<1>1. prog \in [CPUs -> Programs] /\ \A c \in CPUs : prog[c].pc = "idle"
  BY IdleFields DEF Init
<1>2. ring = <<>> /\ Len(ring) = 0 /\ handled = 0 /\ clock = 0
  BY DEF Init
<1>3. Types
  <2>1. NoEdge \in [src_pid : Pids \cup {0}, ts : Nat]
    BY DEF NoEdge
  <2> QED
    BY <1>1, <1>2, <2>1 DEF Init, Types
<1>4. Slots /\ Promised
  BY <1>1 DEF Slots, Slot, Promised, HasEdge
<1>5. Submitted /\ Kept
  BY <1>2 DEF Submitted, Kept
<1> QED
  BY <1>3, <1>4, <1>5 DEF Queue

LEMMA NextQueue == Queue /\ [Next]_vars => Queue' /\ (Next => Grows)
<1> SUFFICES ASSUME Queue, [Next]_vars PROVE Queue' /\ (Next => Grows)
  OBVIOUS
<1>1. CASE UNCHANGED vars
  <2>1. Queue'
    BY <1>1 DEF vars, userVars, Queue, Types, Slots, Submitted, Promised, Kept
  <2>2. Len(ring) \in Nat /\ Len(ring) <= Len(ring)
    BY RingFields DEF Queue
  <2> QED
    BY <1>1, <2>1, <2>2 DEF vars, Grows
<1>2. CASE Next
  BY <1>2, TickQueue, HandleQueue, ReserveFailsQueue, ReserveQueue, SubmitQueue, HookQueue DEF Next
<1> QED
  BY <1>1, <1>2
-----------------------------------------------------------------------------
(* The table of edges.                                                     *)

LEMMA SinceFinite ==
  ASSUME handled \in Nat, NEW i \in Nat
  PROVE  IsFiniteSet(EdgesSince(i)) /\ Cardinality(EdgesSince(i)) \in Nat
<1>1. IsFiniteSet(i..handled)
  BY FS_Interval
<1>2. EdgesSince(i) \subseteq i..handled
  BY DEF EdgesSince
<1>3. IsFiniteSet(EdgesSince(i))
  BY <1>1, <1>2, FS_Subset
<1> QED
  BY <1>3, FS_CardinalityType

(* While nothing is handled the records handled before stay, and so does   *)
(* the table.                                                              *)
LEMMA TableStays ==
  ASSUME Queue, Grows, Table, Found, UNCHANGED <<handled, edges, edge_pos, shown>>
  PROVE  Table' /\ Found'
<1>0. handled \in Nat /\ \A i \in 1..handled : i \in 1..Len(ring)
  BY RingFields DEF Queue, Types
<1>1. \A i \in 1..handled : ring'[i] = ring[i]
  BY <1>0 DEF Queue, Submitted, Grows
<1>2. ASSUME NEW i \in 1..handled PROVE Place(i)' = Place(i) /\ (IsEdge(i)' <=> IsEdge(i))
  <2>1. \A j \in i..handled : j \in 1..handled
    BY <1>0
  <2>2. EdgesSince(i)' = EdgesSince(i)
    BY <1>1, <2>1 DEF EdgesSince
  <2> QED
    BY <1>1, <2>2 DEF Place, IsEdge
<1>3. Table'
  BY <1>1, <1>2 DEF Table
<1>4. Found'
  <2>1. SUFFICES ASSUME handled > 0, ring'[handled].type # "EDGE"
                 PROVE  shown = find_recent_edge(ring[handled].pid, ring[handled].ts)'
    BY DEF Found
  <2>2. handled \in 1..handled
    BY <1>0, <2>1
  <2>3. ring'[handled] = ring[handled]
    BY <1>1, <2>2
  <2>4. shown = find_recent_edge(ring[handled].pid, ring[handled].ts)
    BY <2>1, <2>3 DEF Found
  <2>5. PICK p, t : p = ring[handled].pid /\ t = ring[handled].ts
    OBVIOUS
  <2>6. find_recent_edge(p, t)' = find_recent_edge(p, t)
    BY DEF find_recent_edge, Fitting, RecentEdges
  <2>7. shown = find_recent_edge(p, t)
    BY <2>4, <2>5
  <2> QED
    BY <2>3, <2>5, <2>6, <2>7
<1> QED
  BY <1>3, <1>4

LEMMA HandleOther ==
  ASSUME Queue, Table, HandleEvent, ring[handled + 1].type # "EDGE"
  PROVE  Table' /\ Found'
<1>0. PICK m \in Nat : m = handled + 1 /\ m \in 1..Len(ring)
  BY HandleFields
<1>1. /\ UNCHANGED <<ring, edges, edge_pos>> /\ handled \in Nat /\ handled' = m /\ m = handled + 1
      /\ shown' = find_recent_edge(ring[m].pid, ring[m].ts) /\ ring[m].type # "EDGE"
  BY <1>0, HandleFields
<1>2. ASSUME NEW i \in 1..handled PROVE Place(i)' = Place(i) /\ (IsEdge(i)' <=> IsEdge(i))
  <2>1. \A j : j \in i..m <=> j \in i..handled \/ j = m
    BY <1>1
  <2>2. EdgesSince(i)' = EdgesSince(i)
    BY <1>1, <2>1 DEF EdgesSince
  <2>3. i \in 1..m
    BY <1>1
  <2> QED
    BY <1>1, <2>2, <2>3 DEF Place, IsEdge
<1>3. ~IsEdge(m)' /\ \A i \in 1..m : i \in 1..handled \/ i = m
  BY <1>1 DEF IsEdge
<1>4. \A i \in 1..handled : i \in 1..m
  BY <1>1
<1>5. /\ \A i \in 1..m : IsEdge(i)' => Place(i)' \in 0..(edge_pos - 1)
      /\ \A i, j \in 1..m : IsEdge(i)' /\ IsEdge(j)' /\ i < j => Place(i)' < Place(j)'
      /\ \A k \in 0..(edge_pos - 1) : \E i \in 1..m : IsEdge(i)' /\ Place(i)' = k
      /\ \A i \in 1..m : IsEdge(i)' /\ Place(i)' >= edge_pos - MAX_EDGES =>
           edges[Place(i)' % MAX_EDGES] = [src_pid |-> ring[i].pid, ts |-> ring[i].ts]
  BY <1>2, <1>3, <1>4 DEF Table
<1>6. Table'
  BY <1>1, <1>5 DEF Table
<1>7. PICK p, t : p = ring[m].pid /\ t = ring[m].ts
  OBVIOUS
<1>8. find_recent_edge(p, t)' = find_recent_edge(p, t)
  BY <1>1 DEF find_recent_edge, Fitting, RecentEdges
<1>9. Found'
  BY <1>1, <1>7, <1>8 DEF Found
<1> QED
  BY <1>6, <1>9

(* remember_edge: the new edge gets the next number, and overwrites one    *)
(* that is MAX_EDGES older.                                                *)
LEMMA HandleEdge ==
  ASSUME Queue, Table, HandleEvent, ring[handled + 1].type = "EDGE"
  PROVE  Table' /\ Found'
<1>0. PICK m \in Nat : m = handled + 1 /\ m \in 1..Len(ring)
  BY HandleFields
<1>1. /\ ring' = ring /\ handled \in Nat /\ handled' = m /\ m = handled + 1 /\ ring[m].type = "EDGE"
      /\ edge_pos' = edge_pos + 1 /\ edge_pos \in Nat
      /\ edges' = [edges EXCEPT ![edge_pos % MAX_EDGES] = [src_pid |-> ring[m].pid, ts |-> ring[m].ts]]
      /\ edges \in [0..(MAX_EDGES - 1) -> [src_pid : Pids \cup {0}, ts : Nat]]
  BY <1>0, HandleFields DEF Queue, Types
<1>2. ASSUME NEW i \in 1..m
      PROVE  Cardinality(EdgesSince(i)') = Cardinality(EdgesSince(i)) + 1
             /\ Cardinality(EdgesSince(i)) \in Nat
  <2>1. \A j : j \in i..m <=> j \in i..handled \/ j = m
    BY <1>1
  <2>2. EdgesSince(i)' = EdgesSince(i) \cup {m}
    BY <1>1, <2>1 DEF EdgesSince
  <2>3. m \notin EdgesSince(i)
    BY <1>1 DEF EdgesSince
  <2>0. i \in Nat /\ handled \in Nat
    BY <1>1
  <2>4. IsFiniteSet(EdgesSince(i)) /\ Cardinality(EdgesSince(i)) \in Nat
    BY <2>0, SinceFinite
  <2> QED
    BY <2>2, <2>3, <2>4, FS_AddElement
<1>3. ASSUME NEW i \in 1..handled PROVE Place(i)' = Place(i) /\ (IsEdge(i)' <=> IsEdge(i)) /\ i \in 1..m
  <2>1. i \in 1..m
    BY <1>1
  <2>2. Place(i)' = edge_pos' - Cardinality(EdgesSince(i)') /\ Place(i) = edge_pos - Cardinality(EdgesSince(i))
    BY DEF Place
  <2>3. Place(i)' = Place(i)
    <3>1. PICK x \in Nat : x = Cardinality(EdgesSince(i)) /\ Cardinality(EdgesSince(i)') = x + 1
      BY <1>2, <2>1
    <3>2. edge_pos \in Nat /\ edge_pos' = edge_pos + 1
      BY <1>1
    <3>3. Place(i)' = (edge_pos + 1) - (x + 1) /\ Place(i) = edge_pos - x
      BY <2>2, <3>1, <3>2
    <3> QED
      BY <3>2, <3>3
  <2> QED
    BY <1>1, <2>1, <2>3 DEF IsEdge
<1>4. Place(m)' = edge_pos /\ IsEdge(m)' /\ m \in 1..m
  <2>1. EdgesSince(m) = {}
    BY <1>1 DEF EdgesSince
  <2>2. m \in 1..m
    BY <1>1
  <2>3. Cardinality(EdgesSince(m)) = 0
    BY <2>1, FS_EmptySet
  <2>4. Cardinality(EdgesSince(m)') = 1
    BY <1>2, <2>2, <2>3
  <2> QED
    BY <1>1, <2>2, <2>4 DEF Place, IsEdge
<1>5. \A i \in 1..m : i \in 1..handled \/ i = m
  BY <1>1
<1>6. \A i \in 1..handled : IsEdge(i) => Place(i) \in 0..(edge_pos - 1)
  BY DEF Table
<1>7. \A i \in 1..m : IsEdge(i)' => Place(i)' \in 0..((edge_pos + 1) - 1)
  BY <1>1, <1>3, <1>4, <1>5, <1>6
<1>8. \A i, j \in 1..m : IsEdge(i)' /\ IsEdge(j)' /\ i < j => Place(i)' < Place(j)'
  <2> SUFFICES ASSUME NEW i \in 1..m, NEW j \in 1..m, IsEdge(i)', IsEdge(j)', i < j
               PROVE  Place(i)' < Place(j)'
    OBVIOUS
  <2>1. i \in 1..handled /\ IsEdge(i) /\ Place(i)' = Place(i)
    BY <1>1, <1>3
  <2>2. CASE j = m
    BY <1>1, <1>4, <1>6, <2>1, <2>2
  <2>3. CASE j \in 1..handled
    BY <1>3, <2>1, <2>3 DEF Table
  <2> QED
    BY <1>5, <2>2, <2>3
<1>9. \A k \in 0..((edge_pos + 1) - 1) : \E i \in 1..m : IsEdge(i)' /\ Place(i)' = k
  <2> SUFFICES ASSUME NEW k \in 0..((edge_pos + 1) - 1) PROVE \E i \in 1..m : IsEdge(i)' /\ Place(i)' = k
    OBVIOUS
  <2>1. CASE k = edge_pos
    BY <1>4, <2>1
  <2>2. CASE k \in 0..(edge_pos - 1)
    BY <1>3, <2>2 DEF Table
  <2>3. edge_pos \in Nat
    BY <1>1
  <2>4. k = edge_pos \/ k \in 0..(edge_pos - 1)
    BY <2>3
  <2> QED
    BY <2>1, <2>2, <2>4
<1>10. ASSUME NEW i \in 1..m, IsEdge(i)', Place(i)' >= (edge_pos + 1) - MAX_EDGES
       PROVE  edges'[Place(i)' % MAX_EDGES] = [src_pid |-> ring[i].pid, ts |-> ring[i].ts]
  <2>1. edge_pos % MAX_EDGES \in 0..(MAX_EDGES - 1)
    BY <1>1
  <2>2. CASE i = m
    BY <1>1, <1>4, <2>1, <2>2
  <2>3. CASE i \in 1..handled
    <3>1. PICK a \in Nat : a = Place(i) /\ a < edge_pos /\ IsEdge(i) /\ Place(i)' = a
      BY <1>3, <1>6, <1>10, <1>1, <2>3
    <3>2. edge_pos < a + MAX_EDGES /\ a >= edge_pos - MAX_EDGES
      BY <1>1, <1>10, <3>1, SMTT(40)
    <3>3. a % MAX_EDGES # edge_pos % MAX_EDGES
      BY <1>1, <3>1, <3>2, OtherRemainder
    <3>4. edges[a % MAX_EDGES] = [src_pid |-> ring[i].pid, ts |-> ring[i].ts]
      BY <2>3, <3>1, <3>2 DEF Table
    <3>5. edges'[a % MAX_EDGES] = edges[a % MAX_EDGES]
      <4>1. a % MAX_EDGES \in 0..(MAX_EDGES - 1)
        BY <3>1
      <4> QED
        BY <1>1, <3>3, <4>1
    <3> QED
      BY <3>1, <3>4, <3>5
  <2> QED
    BY <1>5, <2>2, <2>3
<1>11. Table'
  BY <1>1, <1>7, <1>8, <1>9, <1>10 DEF Table
<1>12. Found'
  BY <1>1 DEF Found
<1> QED
  BY <1>11, <1>12

Everything == Queue /\ Table /\ Found

LEMMA InitEverything == Init => Everything
<1> SUFFICES ASSUME Init PROVE Everything
  OBVIOUS
<1>1. handled = 0 /\ edge_pos = 0
  BY DEF Init
<1>2. Table /\ Found
  BY <1>1 DEF Table, Found
<1> QED
  BY <1>2, InitQueue DEF Everything

LEMMA NextEverything == Everything /\ [Next]_vars => Everything'
<1> SUFFICES ASSUME Everything, [Next]_vars PROVE Everything'
  OBVIOUS
<1>0. Queue' /\ (Next => Grows)
  BY NextQueue DEF Everything
<1>1. CASE HandleEvent
  BY <1>0, <1>1, HandleEdge, HandleOther DEF Everything
<1>2. CASE Next /\ UNCHANGED <<handled, edges, edge_pos, shown>>
  BY <1>0, <1>2, TableStays DEF Everything
<1>3. CASE UNCHANGED vars
  <2>1. Len(ring) \in Nat /\ Len(ring) <= Len(ring)
    BY RingFields DEF Everything, Queue
  <2>2. Grows
    BY <1>3, <2>1 DEF vars, Grows
  <2>3. UNCHANGED <<handled, edges, edge_pos, shown>>
    BY <1>3, SMTT(40) DEF vars, userVars
  <2> QED
    BY <1>0, <2>2, <2>3, TableStays DEF Everything
<1>4. Next => HandleEvent \/ UNCHANGED <<handled, edges, edge_pos, shown>>
  BY DEF Next, Tick, ReserveFails, Reserve, Submit, Binder, Frame, Hook, userVars
<1> QED
  BY <1>1, <1>2, <1>3, <1>4

LEMMA AlwaysEverything == Spec => []Everything
BY InitEverything, NextEverything, PTL DEF Spec

-----------------------------------------------------------------------------
(* The handled edges of p that an event at t may be linked to. *)
Fits(p, t) ==
  {i \in 1..handled : /\ ring[i].type = "EDGE" /\ ring[i].pid = p
                      /\ ring[i].ts \in (t - CHAIN_WINDOW)..t
                      /\ Cardinality(EdgesSince(i)) <= MAX_EDGES}

(* They are the edges that find_recent_edge looks at, number by number. *)
LEMMA FitsAreFitting ==
  ASSUME Everything, NEW p, NEW t \in Nat
  PROVE  /\ \A i \in Fits(p, t) : IsEdge(i) /\ Place(i) \in Fitting(p, t)
         /\ \A k \in Fitting(p, t) : \E i \in Fits(p, t) :
              Place(i) = k /\ edges[k % MAX_EDGES] = [src_pid |-> p, ts |-> ring[i].ts]
<1>0. /\ handled \in Nat /\ edge_pos \in Nat /\ Len(ring) \in Nat
      /\ \A i \in 1..handled : i \in Nat /\ ring[i].ts \in Nat
  <2>1. Types
    BY DEF Everything, Queue
  <2>2. handled \in Nat /\ edge_pos \in Nat /\ Len(ring) \in Nat /\ handled <= Len(ring)
    BY <2>1, RingFields DEF Types
  <2>3. \A i \in 1..handled : i \in 1..Len(ring) /\ i \in Nat
    BY <2>2
  <2> QED
    BY <2>1, <2>2, <2>3, RingFields
<1>1. ASSUME NEW i \in 1..handled, IsEdge(i)
      PROVE  /\ Place(i) \in 0..(edge_pos - 1)
             /\ Place(i) >= edge_pos - MAX_EDGES <=> Cardinality(EdgesSince(i)) <= MAX_EDGES
             /\ Place(i) >= edge_pos - MAX_EDGES =>
                  edges[Place(i) % MAX_EDGES] = [src_pid |-> ring[i].pid, ts |-> ring[i].ts]
  <2>1. PICK x \in Nat : x = Cardinality(EdgesSince(i))
    BY <1>0, SinceFinite
  <2>2. Place(i) = edge_pos - x
    BY <2>1 DEF Place
  <2>3. Place(i) >= edge_pos - MAX_EDGES <=> x <= MAX_EDGES
    BY <1>0, <2>1, <2>2
  <2> QED
    BY <1>1, <2>1, <2>3 DEF Everything, Table
<1>2. ASSUME NEW i \in Fits(p, t) PROVE IsEdge(i) /\ Place(i) \in Fitting(p, t)
  <2>1. /\ i \in 1..handled /\ IsEdge(i) /\ ring[i].pid = p
        /\ ring[i].ts \in (t - CHAIN_WINDOW)..t /\ Cardinality(EdgesSince(i)) <= MAX_EDGES
    BY <1>2 DEF Fits, IsEdge
  <2>2. PICK e : e = edges[Place(i) % MAX_EDGES]
    OBVIOUS
  <2>3. e.src_pid = p /\ e.ts = ring[i].ts
    <3>1. Place(i) >= edge_pos - MAX_EDGES
      BY <1>1, <2>1, Zenon
    <3>2. e = [src_pid |-> ring[i].pid, ts |-> ring[i].ts]
      BY <1>1, <2>1, <2>2, <3>1, Zenon
    <3> QED
      BY <2>1, <3>2
  <2>4. t >= e.ts /\ t - e.ts <= CHAIN_WINDOW
    BY <1>0, <2>1, <2>3
  <2>5. Place(i) \in RecentEdges
    BY <1>1, <2>1 DEF RecentEdges
  <2> QED
    BY <2>1, <2>2, <2>3, <2>4, <2>5 DEF Fitting
<1>3. ASSUME NEW k \in Fitting(p, t)
      PROVE  \E i \in Fits(p, t) :
               Place(i) = k /\ edges[k % MAX_EDGES] = [src_pid |-> p, ts |-> ring[i].ts]
  <2>1. k \in 0..(edge_pos - 1) /\ k >= edge_pos - MAX_EDGES
    BY <1>3 DEF Fitting, RecentEdges
  <2>2. PICK i \in 1..handled : IsEdge(i) /\ Place(i) = k
    BY <2>1 DEF Everything, Table
  <2>3. PICK e : e = edges[k % MAX_EDGES]
    OBVIOUS
  <2>4. e.src_pid = p /\ t >= e.ts /\ t - e.ts <= CHAIN_WINDOW
    BY <1>3, <2>3 DEF Fitting
  <2>5. e = [src_pid |-> ring[i].pid, ts |-> ring[i].ts] /\ Cardinality(EdgesSince(i)) <= MAX_EDGES
    BY <1>1, <2>1, <2>2, <2>3
  <2>6. ring[i].pid = p /\ e.ts = ring[i].ts
    BY <2>4, <2>5
  <2>7. ring[i].ts \in (t - CHAIN_WINDOW)..t
    BY <1>0, <2>4, <2>6
  <2>8. i \in Fits(p, t)
    BY <2>2, <2>5, <2>6, <2>7 DEF Fits, IsEdge
  <2> QED
    BY <2>2, <2>3, <2>5, <2>6, <2>8
<1> QED
  BY <1>2, <1>3

LEMMA LatestFound ==
  ASSUME Everything, handled > 0, ring[handled].type # "EDGE",
         NEW p, NEW t, p = ring[handled].pid, t = ring[handled].ts
  PROVE  IF Fits(p, t) = {} THEN shown = NoEdge
         ELSE \E i \in Fits(p, t) : /\ \A j \in Fits(p, t) : j <= i
                                    /\ shown = [src_pid |-> p, ts |-> ring[i].ts]
<1>0. t \in Nat /\ handled \in Nat /\ edge_pos \in Nat
  <2>1. Types
    BY DEF Everything, Queue
  <2>2. handled \in 1..Len(ring) /\ handled \in Nat /\ edge_pos \in Nat
    BY <2>1, RingFields DEF Types
  <2> QED
    BY <2>1, <2>2, RingFields
<1>1. shown = find_recent_edge(p, t)
  BY DEF Everything, Found
<1>2. /\ \A i \in Fits(p, t) : IsEdge(i) /\ Place(i) \in Fitting(p, t)
      /\ \A k \in Fitting(p, t) : \E i \in Fits(p, t) :
           Place(i) = k /\ edges[k % MAX_EDGES] = [src_pid |-> p, ts |-> ring[i].ts]
  BY <1>0, FitsAreFitting
<1>3. CASE Fits(p, t) = {}
  <2>1. Fitting(p, t) = {}
    BY <1>2, <1>3
  <2> QED
    BY <1>1, <1>3, <2>1 DEF find_recent_edge
<1>4. CASE Fits(p, t) # {}
  <2>1. Fitting(p, t) # {} /\ Fitting(p, t) \in SUBSET (0..edge_pos)
    <3>1. \A k \in Fitting(p, t) : k \in 0..edge_pos
      BY <1>0 DEF Fitting, RecentEdges
    <3> QED
      BY <1>2, <1>4, <3>1
  <2>2. \E k \in Fitting(p, t) : \A j \in Fitting(p, t) : j <= k
    BY <1>0, <2>1, HasLargest
  <2>3. PICK k \in Fitting(p, t) :
          /\ k = (CHOOSE i \in Fitting(p, t) : \A j \in Fitting(p, t) : j <= i)
          /\ \A j \in Fitting(p, t) : j <= k
    BY <2>2
  <2>4. shown = edges[k % MAX_EDGES]
    BY <1>1, <2>1, <2>3 DEF find_recent_edge
  <2>5. PICK i \in Fits(p, t) : Place(i) = k /\ edges[k % MAX_EDGES] = [src_pid |-> p, ts |-> ring[i].ts]
    BY <1>2
  <2>6. ASSUME NEW j \in Fits(p, t) PROVE j <= i
    <3>1. i \in 1..handled /\ j \in 1..handled /\ IsEdge(i) /\ IsEdge(j)
      BY <1>2, <2>5 DEF Fits
    <3>2. Place(j) <= Place(i)
      BY <1>2, <2>3, <2>5
    <3>3. Place(i) \in 0..(edge_pos - 1) /\ Place(j) \in 0..(edge_pos - 1)
      BY <3>1 DEF Everything, Table
    <3>4. i < j => Place(i) < Place(j)
      BY <3>1 DEF Everything, Table
    <3> QED
      BY <1>0, <3>1, <3>2, <3>3, <3>4
  <2> QED
    BY <1>4, <2>4, <2>5, <2>6
<1> QED
  BY <1>3, <1>4

(* find_recent_edge: whatever the timestamps and however often the table   *)
(* was overwritten, the edge shown is the one handled last among those of  *)
(* the pid that are in the window and among the last MAX_EDGES.            *)
THEOREM LinkTheorem == Spec => []LinkIsLatest
<1>1. Everything => LinkIsLatest
  <2> SUFFICES ASSUME Everything, handled > 0, ring[handled].type # "EDGE" PROVE LinkIsLatest
    BY DEF LinkIsLatest
  <2>1. PICK p, t : p = ring[handled].pid /\ t = ring[handled].ts
    OBVIOUS
  <2>2. IF Fits(p, t) = {} THEN shown = NoEdge
        ELSE \E i \in Fits(p, t) : /\ \A j \in Fits(p, t) : j <= i
                                   /\ shown = [src_pid |-> p, ts |-> ring[i].ts]
    BY <2>1, LatestFound
  <2> QED
    BY <2>1, <2>2 DEF LinkIsLatest, Fits
<1> QED
  BY <1>1, AlwaysEverything, PTL

(* emit_event and handle_event: when a call is handled its edge was        *)
(* handled before, and an edge is shown unless MAX_EDGES edges came since  *)
(* or the edge found no room; for any number of CPUs whose records mix.    *)
THEOREM CallTheorem == Spec => []CallShowsEdge
<1>1. Everything => CallShowsEdge
  <2> SUFFICES ASSUME Everything, handled > 0, ring[handled].type = "CALL",
                      [type |-> "EDGE", n |-> ring[handled].n] \notin dropped
               PROVE  \E i \in 1..handled :
                        /\ ring[i].type = "EDGE" /\ ring[i].n = ring[handled].n
                        /\ Cardinality(EdgesSince(i)) <= MAX_EDGES => shown # NoEdge
    BY DEF CallShowsEdge
  <2>0. /\ Types /\ handled \in 1..Len(ring) /\ handled \in 1..handled /\ Len(ring) \in Nat
        /\ handled \in Nat
    <3>1. Types
      BY DEF Everything, Queue
    <3> QED
      BY <3>1, RingFields DEF Types
  <2>1. PICK p, t, n : p = ring[handled].pid /\ t = ring[handled].ts /\ n = ring[handled].n
    OBVIOUS
  <2>2. p \in Pids /\ t \in Nat
    BY <2>0, <2>1, RingFields
  <2>3. CallAt(handled, ring, dropped) /\ ring[handled].st = "ready"
    BY <2>0 DEF Everything, Queue, Kept, Submitted
  <2>4. PICK i \in 1..Len(ring) : /\ EdgeAt(ring, i, p, n, 0) /\ i < handled
                                  /\ ring[i].ts <= t /\ t <= ring[i].ts + MaxRun
    BY <2>1, <2>3 DEF CallAt
  <2>5. /\ i \in 1..handled /\ ring[i].type = "EDGE" /\ ring[i].pid = p /\ ring[i].n = n
        /\ ring[i].ts \in Nat
    BY <2>0, <2>4, RingFields DEF EdgeAt
  <2>6. ring[i].ts \in (t - CHAIN_WINDOW)..t
    BY <2>2, <2>4, <2>5
  <2>7. ASSUME Cardinality(EdgesSince(i)) <= MAX_EDGES PROVE shown # NoEdge
    <3>1. i \in Fits(p, t)
      BY <2>5, <2>6, <2>7 DEF Fits
    <3>2. IF Fits(p, t) = {} THEN shown = NoEdge
          ELSE \E k \in Fits(p, t) : /\ \A j \in Fits(p, t) : j <= k
                                     /\ shown = [src_pid |-> p, ts |-> ring[k].ts]
      BY <2>1, LatestFound
    <3>3. PICK k : shown = [src_pid |-> p, ts |-> ring[k].ts]
      BY <3>1, <3>2
    <3> QED
      BY <2>2, <3>3 DEF NoEdge
  <2> QED
    BY <2>1, <2>5, <2>7
<1> QED
  BY <1>1, AlwaysEverything, PTL
=============================================================================
