-------------------------- MODULE Pksniff_proofs --------------------------
(***************************************************************************)
(* Proofs about Pksniff, for any ring capacity, any traffic, any keys and  *)
(* any number of packets.  TypeOK /\ RingInv is inductive: that the ring   *)
(* implements the log needs to know where the head is while the ring is    *)
(* not yet full, which is what makes the wrapped index of the oldest       *)
(* packet 0 there and pkt_head afterwards.  On top of it: LineInv (the     *)
(* filter bar holds a terminated string), SavedInv (the ring is the end of *)
(* the -o file), OwnersInv (what each slot has counted).  What Filtered,   *)
(* BytesOf and TopTalkers compute, which are defined recursively, is shown *)
(* by least counterexamples (Least).                                       *)
(***************************************************************************)
EXTENDS Pksniff, TLAPS, FiniteSetTheorems, SequenceTheorems, WellFoundedInduction

(* Every set of numbers that is not empty has a least element: what holds  *)
(* of 0 and of n when it holds of n - 1 has no least counterexample.       *)
LEMMA Least == ASSUME NEW T \in SUBSET Nat, T # {} PROVE \E n \in T : \A m \in T : n <= m
<1>1. PICK R : R = OpToRel(<, Nat)
  OBVIOUS
<1>2. IsWellFoundedOn(R, Nat)
  BY <1>1, NatLessThanWellFounded
<1>3. PICK n \in T : \A m \in T : ~(<<m, n>> \in R)
  BY <1>2, WFMin
<1>4. \A m \in T : ~(m < n)
  BY <1>1, <1>3 DEF OpToRel
<1> QED
  BY <1>4

(* Remainders of what is at most one turn of the ring too large. *)
LEMMA OneTurn ==
  \A N \in Nat \ {0} : \A x \in 0..(N + N - 1) : x % N = (IF x < N THEN x ELSE x - N)
<1> SUFFICES ASSUME NEW N \in Nat \ {0}, NEW x \in 0..(N + N - 1)
             PROVE  x % N = (IF x < N THEN x ELSE x - N)
  OBVIOUS
<1>1. CASE x \in 0..(N - 1)
  BY <1>1, Z3
<1>2. CASE x \in N..(N + N - 1)
  BY <1>2, Z3
<1> QED
  BY <1>1, <1>2

(* The head after one more packet. *)
LEMMA NextHead ==
  ASSUME NEW N \in Nat \ {0}, NEW h \in 0..(N - 1)
  PROVE  (h + 1) % N = (IF h + 1 < N THEN h + 1 ELSE 0)
BY OneTurn

(* Where the i-th packet is: counted from 0 until the ring is full, from   *)
(* the head afterwards.                                                    *)
LEMMA RingIndexValue ==
  ASSUME NEW N \in Nat \ {0}, NEW h \in 0..(N - 1), NEW c \in 0..N, c < N => h = c,
         NEW i \in 1..c
  PROVE  (h - c + (i - 1) + N) % N
           = (IF c < N THEN i - 1 ELSE IF h + i - 1 < N THEN h + i - 1 ELSE h + i - 1 - N)
<1>1. CASE c < N
  <2>1. h - c + (i - 1) + N = i - 1 + N
    BY <1>1
  <2>2. PICK x \in 0..(N + N - 1) : x = i - 1 + N
    OBVIOUS
  <2>3. x % N = IF x < N THEN x ELSE x - N
    BY OneTurn
  <2>4. x % N = i - 1
    BY <2>2, <2>3
  <2> QED
    BY <1>1, <2>1, <2>2, <2>4
<1>2. CASE c = N
  <2>1. PICK x \in 0..(N + N - 1) : x = h + i - 1
    BY <1>2
  <2>2. h - c + (i - 1) + N = x
    BY <1>2, <2>1
  <2>3. x % N = IF x < N THEN x ELSE x - N
    BY OneTurn
  <2> QED
    BY <1>2, <2>1, <2>2, <2>3
<1> QED
  BY <1>1, <1>2

(* The sequence that a ring r of capacity N with head h and count c shows. *)
Shown(N, r, h, c) == [i \in 1..c |-> r[(h - c + (i - 1) + N) % N]]

(* The position of its i-th packet, without remainders. *)
At(N, h, c, i) ==
  IF c < N THEN i - 1 ELSE IF h + i - 1 < N THEN h + i - 1 ELSE h + i - 1 - N

(* The shape that RingInv keeps: the head of a ring that is not full is    *)
(* where its packets end.                                                  *)
RingShape(N, S, r, h, c) ==
  /\ N \in Nat \ {0} /\ r \in [0..(N - 1) -> S] /\ h \in 0..(N - 1) /\ c \in 0..N
  /\ c < N => h = c

LEMMA ShownValue ==
  ASSUME NEW N, NEW S, NEW r, NEW h, NEW c, RingShape(N, S, r, h, c)
  PROVE  /\ Shown(N, r, h, c) \in Seq(S)
         /\ Len(Shown(N, r, h, c)) = c
         /\ \A i \in 1..c : Shown(N, r, h, c)[i] = r[At(N, h, c, i)]
<1> DEFINE V == Shown(N, r, h, c)
           at(i) == At(N, h, c, i)
<1>1. \A i \in 1..c : (h - c + (i - 1) + N) % N = at(i)
  BY RingIndexValue DEF At, RingShape
<1>2. V = [i \in 1..c |-> r[at(i)]]
  BY <1>1, Zenon DEF Shown
<1>3. \A i \in 1..c : at(i) \in 0..(N - 1)
  BY DEF At, RingShape
<1> HIDE DEF at, V
<1>4. \A i \in 1..c : r[at(i)] \in S
  BY <1>3 DEF RingShape
<1>5. V \in Seq(S) /\ Len(V) = c
  BY <1>2, <1>4 DEF RingShape
<1>6. \A i \in 1..c : V[i] = r[at(i)]
  BY <1>2
<1> QED
  BY <1>5, <1>6 DEF at, V

(* What handle_event stores, without remainders. *)
Stored(N, e, r, h, c, r2, h2, c2) ==
  /\ r2 = [r EXCEPT ![h] = e]
  /\ h2 = (IF h + 1 < N THEN h + 1 ELSE 0)
  /\ c2 = (IF c < N THEN c + 1 ELSE c)

(* One more packet: it is appended, and the oldest one goes when the ring  *)
(* was full.                                                               *)
LEMMA ShownAfterStore ==
  ASSUME NEW N, NEW S, NEW r, NEW h, NEW c, RingShape(N, S, r, h, c), NEW e \in S,
         NEW r2, NEW h2, NEW c2, Stored(N, e, r, h, c, r2, h2, c2)
  PROVE  Shown(N, r2, h2, c2)
           = Append(IF c < N THEN Shown(N, r, h, c) ELSE Tail(Shown(N, r, h, c)), e)
<1> DEFINE V == Shown(N, r, h, c)
           W == Shown(N, r2, h2, c2)
<1> SUFFICES W = Append(IF c < N THEN V ELSE Tail(V), e)
  OBVIOUS
<1>1. V \in Seq(S) /\ Len(V) = c /\ \A i \in 1..c : V[i] = r[At(N, h, c, i)]
  BY ShownValue
<1>2. RingShape(N, S, r2, h2, c2)
  BY DEF RingShape, Stored
<1>3. W \in Seq(S) /\ Len(W) = c2 /\ \A i \in 1..c2 : W[i] = r2[At(N, h2, c2, i)]
  BY <1>2, ShownValue
<1> HIDE DEF V, W
<1> USE DEF RingShape, Stored
<1>4. \A j \in 0..(N - 1) : r2[j] = IF j = h THEN e ELSE r[j]
  OBVIOUS
<1>5. CASE c < N
  <2>1. c2 = c + 1 /\ h = c
    BY <1>5
  <2>2. \A i \in 1..(c + 1) : W[i] = r2[i - 1]
    <3>1. CASE c + 1 < N
      BY <1>3, <2>1, <3>1 DEF At
    <3>2. CASE c + 1 = N
      BY <1>3, <2>1, <3>2 DEF At
    <3> QED
      BY <1>5, <3>1, <3>2
  <2>3. \A i \in 1..c : W[i] = V[i]
    BY <1>1, <1>4, <1>5, <2>1, <2>2 DEF At
  <2>4. W[c + 1] = e
    BY <1>4, <2>1, <2>2
  <2>5. W = Append(V, e)
    BY <1>1, <1>3, <2>1, <2>3, <2>4
  <2> QED
    BY <1>5, <2>5
<1>6. CASE c = N
  <2>1. c2 = N
    BY <1>6
  <2>2. \A i \in 1..(N - 1) : W[i] = V[i + 1]
    <3> SUFFICES ASSUME NEW i \in 1..(N - 1) PROVE W[i] = V[i + 1]
      OBVIOUS
    <3>0. i \in 1..c2 /\ i + 1 \in 1..c
      BY <1>6, <2>1
    <3> HIDE DEF Stored, RingShape
    <3>1. W[i] = r2[At(N, h2, N, i)] /\ V[i + 1] = r[At(N, h, N, i + 1)]
      BY <1>1, <1>3, <1>6, <2>1, <3>0
    <3> USE DEF Stored, RingShape
    <3>2. At(N, h2, N, i) = At(N, h, N, i + 1) /\ At(N, h2, N, i) \in 0..(N - 1)
          /\ At(N, h2, N, i) # h
      BY DEF At
    <3> QED
      BY <1>4, <3>1, <3>2
  <2>3. W[N] = e
    <3>1. W[N] = r2[At(N, h2, N, N)]
      BY <1>3, <2>1
    <3>2. At(N, h2, N, N) = h
      BY DEF At
    <3> QED
      BY <1>4, <3>1, <3>2
  <2>4. Tail(V) \in Seq(S) /\ Len(Tail(V)) = N - 1 /\ \A i \in 1..(N - 1) : Tail(V)[i] = V[i + 1]
    BY <1>1, <1>6
  <2> DEFINE T == Tail(V)
  <2> HIDE DEF T
  <2>5. T \in Seq(S) /\ Len(T) = N - 1 /\ \A i \in 1..(N - 1) : T[i] = W[i]
    BY <2>2, <2>4 DEF T
  <2>6. W = Append(T, e)
    BY <1>3, <2>1, <2>3, <2>5
  <2> QED
    BY <1>6, <2>6 DEF T
<1> QED
  BY <1>5, <1>6

-----------------------------------------------------------------------------
USE PksniffAssumption

(* Nothing but a delivery touches the ring, the statistics and the -o file. *)
Quiet == UNCHANGED <<arrived, ringVars, statVars, pcap>>

LEMMA LoopIsQuiet ==
  ASSUME PollEnds \/ PollFails \/ KeyStep \/ Redraw \/ Signal
  PROVE  Quiet
BY DEF Quiet, PollEnds, PollFails, KeyStep, Redraw, Signal, fileVars, Key, NormalKey,
       FilterKey, NoKey, KeyQuit, KeyPause, KeyFilter, KeyDetail, KeyReset, KeySave,
       KeyMove, KeyResize, FilterCancel, FilterApply, FilterBackspace, FilterDelete,
       FilterInsert, FilterArrow, FilterResize

(* The number of rows of the filtered list. *)
LEMMA VcountType ==
  ASSUME TypeOK
  PROVE  vcount \in Nat
<1> DEFINE S == {i \in 1..pkt_count : event_matches(View[i], g_filter)}
<1>1. pkt_count \in Int
  BY DEF TypeOK
<1>2. IsFiniteSet(1..pkt_count)
  BY <1>1, FS_Interval
<1>3. IsFiniteSet(S)
  BY <1>2, FS_Subset
<1> QED
  BY <1>3, FS_CardinalityType DEF vcount

LEMMA NewPacket ==
  ASSUME NEW t \in Traffic, arrived \in 0..MaxArrivals, arrived < MaxArrivals
  PROVE  /\ Packet(arrived + 1, t) \in Packets
         /\ Packet(arrived + 1, t).n = arrived + 1
         /\ Packet(arrived + 1, t).src \in Addrs
         /\ Packet(arrived + 1, t).len \in Nat
<1>1. arrived + 1 \in 1..MaxArrivals
  OBVIOUS
<1> QED
  BY <1>1 DEF Packet, Packets

-----------------------------------------------------------------------------
(* The ring keeps its shape.                                               *)
LEMMA StoreTypes ==
  ASSUME TypeOK, RingInv, NEW e \in Packets, e.n = arrived + 1, arrived' = arrived + 1, Store(e)
  PROVE  /\ pkt_ring' \in [Indices -> Packets \cup {NoPacket}]
         /\ pkt_head' \in Indices
         /\ pkt_count' \in 0..MAX_PACKETS
         /\ RingInv'
<1> USE DEF Indices
<1>0. MAX_PACKETS \in Nat \ {0}
  OBVIOUS
<1>1. pkt_head \in 0..(MAX_PACKETS - 1) /\ pkt_count \in 0..MAX_PACKETS
      /\ pkt_ring \in [Indices -> Packets \cup {NoPacket}] /\ arrived \in Nat
  BY DEF TypeOK
<1>2. pkt_head' = IF pkt_head + 1 < MAX_PACKETS THEN pkt_head + 1 ELSE 0
  <2>1. (pkt_head + 1) % MAX_PACKETS = IF pkt_head + 1 < MAX_PACKETS THEN pkt_head + 1 ELSE 0
    BY <1>0, <1>1, NextHead
  <2> QED
    BY <2>1 DEF Store
<1>3. pkt_count' \in 0..MAX_PACKETS /\ pkt_head' \in Indices
  BY <1>1, <1>2 DEF Store
<1>4. pkt_count' < MAX_PACKETS => pkt_head' = pkt_count'
  BY <1>1, <1>2 DEF Store, RingInv
<1>5. pkt_ring' = [pkt_ring EXCEPT ![pkt_head] = e]
  BY DEF Store
<1>6. \A i \in Indices : pkt_ring'[i] = IF i = pkt_head THEN e ELSE pkt_ring[i]
  BY <1>1, <1>5
<1>7. \A i \in Indices : pkt_ring[i].n \in Int /\ pkt_ring[i].n <= arrived
  BY <1>1 DEF RingInv, Packets, Packet, NoPacket
<1>8. \A i \in Indices : pkt_ring'[i].n <= arrived'
  BY <1>1, <1>6, <1>7
<1> QED
  BY <1>1, <1>3, <1>4, <1>5, <1>8 DEF RingInv

(* The statistics count what was stored. *)
LEMMA StatTypes ==
  ASSUME TypeOK, NEW e, e.src \in Addrs, e.len \in Nat, NEW tick, arrived' = arrived + 1,
         update_stats(e, tick)
  PROVE  /\ g_total_pkts' \in 0..arrived' /\ g_last_pkts' \in 0..g_total_pkts'
         /\ g_total_bytes' \in Nat /\ g_last_bytes' \in 0..g_total_bytes'
         /\ g_talkers' \in [Slots -> [ip : Addrs \cup {<<0, 0>>}, bytes : Nat, pkts : Nat]]
         /\ \A s \in Slots : g_talkers'[s].pkts <= g_total_pkts' /\ g_talkers'[s].bytes <= g_total_bytes'
<1> DEFINE Talker == [ip : Addrs \cup {<<0, 0>>}, bytes : Nat, pkts : Nat]
<1>1. g_total_pkts' = g_total_pkts + 1 /\ g_total_bytes' = g_total_bytes + e.len
  BY DEF update_stats
<1>2. g_total_pkts \in 0..arrived /\ g_last_pkts \in 0..g_total_pkts /\ g_total_bytes \in Nat
      /\ g_last_bytes \in 0..g_total_bytes /\ arrived \in Nat
      /\ g_talkers \in [Slots -> Talker]
      /\ \A s \in Slots : g_talkers[s].pkts <= g_total_pkts /\ g_talkers[s].bytes <= g_total_bytes
  BY DEF TypeOK
<1>3. g_last_pkts' \in {g_total_pkts', g_last_pkts} /\ g_last_bytes' \in {g_total_bytes', g_last_bytes}
  BY DEF update_stats
<1>4. g_talkers' = Counted(g_talkers, e)
  BY DEF update_stats
<1> DEFINE s0 == Slot(e.src)
           old == g_talkers[s0]
           new == [ip |-> e.src, bytes |-> old.bytes + e.len, pkts |-> old.pkts + 1]
<1>5. s0 \in Slots
  BY DEF Slot, Slots
<1>6. old \in Talker /\ old.pkts <= g_total_pkts /\ old.bytes <= g_total_bytes
  BY <1>2, <1>5
<1>7. new \in Talker /\ new.pkts <= g_total_pkts' /\ new.bytes <= g_total_bytes'
  BY <1>1, <1>2, <1>6
<1>8. g_talkers' = g_talkers \/ g_talkers' = [g_talkers EXCEPT ![s0] = new]
  BY <1>4 DEF Counted
<1> HIDE DEF new, old, s0, Talker
<1>9. g_talkers' \in [Slots -> Talker]
  BY <1>2, <1>5, <1>7, <1>8
<1>10. \A s \in Slots : g_talkers[s] \in Talker /\ g_talkers'[s] \in {g_talkers[s], new}
  BY <1>2, <1>5, <1>8
<1>11. \A s \in Slots : g_talkers'[s].pkts <= g_total_pkts' /\ g_talkers'[s].bytes <= g_total_bytes'
  <2> SUFFICES ASSUME NEW s \in Slots
               PROVE  g_talkers'[s].pkts <= g_total_pkts' /\ g_talkers'[s].bytes <= g_total_bytes'
    OBVIOUS
  <2>1. CASE g_talkers'[s] = new
    BY <1>7, <2>1
  <2>2. CASE g_talkers'[s] = g_talkers[s]
    <3>1. g_talkers[s].pkts \in Nat /\ g_talkers[s].bytes \in Nat
      BY <1>10 DEF Talker
    <3> QED
      BY <1>1, <1>2, <2>2, <3>1
  <2> QED
    BY <1>10, <2>1, <2>2
<1> QED
  BY <1>1, <1>2, <1>3, <1>9, <1>11 DEF Talker

-----------------------------------------------------------------------------
(* What the loop does to the rest of the state.                            *)
LEMMA DeliverTypes ==
  ASSUME TypeOK, RingInv, NEW t \in Traffic, NEW tick, Deliver(t, tick)
  PROVE  TypeOK' /\ RingInv'
<1> DEFINE e == Packet(arrived + 1, t)
<1>1. arrived \in 0..MaxArrivals /\ arrived < MaxArrivals /\ arrived' = arrived + 1
      /\ arrived' \in 0..MaxArrivals
  BY DEF TypeOK, Deliver
<1>2. e \in Packets /\ e.n = arrived + 1 /\ e.src \in Addrs /\ e.len \in Nat
  BY <1>1, NewPacket
<1>3. /\ pc' = pc /\ g_running' = g_running /\ g_paused' = g_paused
      /\ g_filter_mode' = g_filter_mode /\ g_detail_mode' = g_detail_mode
      /\ g_selected' = g_selected /\ g_scroll_top' = g_scroll_top
      /\ list_rows' = list_rows /\ term_rows' = term_rows
  BY DEF Deliver, filterVars, viewVars
<1>4. handle_event(e, tick)
  BY DEF Deliver
<1> HIDE DEF e
<1>5. CASE g_paused
  <2>1. UNCHANGED <<ringVars, statVars>>
    BY <1>4, <1>5 DEF handle_event
  <2>2. pkt_ring' = pkt_ring /\ pkt_head' = pkt_head /\ pkt_count' = pkt_count
        /\ g_total_pkts' = g_total_pkts /\ g_last_pkts' = g_last_pkts
        /\ g_total_bytes' = g_total_bytes /\ g_last_bytes' = g_last_bytes
        /\ g_talkers' = g_talkers
    BY <2>1 DEF ringVars, statVars
  <2>3. TypeOK'
    BY <1>1, <1>3, <2>2 DEF TypeOK
  <2>4. \A i \in Indices : pkt_ring[i].n \in Int
    BY DEF TypeOK, Packets, Packet, NoPacket
  <2>5. RingInv'
    BY <1>1, <2>2, <2>4 DEF RingInv
  <2> QED
    BY <2>3, <2>5
<1>6. CASE ~g_paused
  <2>1. Store(e) /\ update_stats(e, tick)
    BY <1>4, <1>6 DEF handle_event
  <2>2. /\ pkt_ring' \in [Indices -> Packets \cup {NoPacket}]
        /\ pkt_head' \in Indices
        /\ pkt_count' \in 0..MAX_PACKETS
        /\ RingInv'
    BY <1>1, <1>2, <2>1, StoreTypes
  <2>3. /\ g_total_pkts' \in 0..arrived' /\ g_last_pkts' \in 0..g_total_pkts'
        /\ g_total_bytes' \in Nat /\ g_last_bytes' \in 0..g_total_bytes'
        /\ g_talkers' \in [Slots -> [ip : Addrs \cup {<<0, 0>>}, bytes : Nat, pkts : Nat]]
        /\ \A s \in Slots : g_talkers'[s].pkts <= g_total_pkts' /\ g_talkers'[s].bytes <= g_total_bytes'
    BY <1>1, <1>2, <2>1, StatTypes
  <2> QED
    BY <1>1, <1>3, <2>2, <2>3 DEF TypeOK
<1> QED
  BY <1>5, <1>6 DEF TypeOK

LEMMA ClampTypes ==
  ASSUME TypeOK
  PROVE  /\ Clamp.sel \in 0..(IF vcount = 0 THEN 0 ELSE vcount - 1)
         /\ Clamp.top \in 0..Clamp.sel
         /\ Clamp.sel < Clamp.top + list_rows - 1
<1>1. vcount \in Nat
  BY VcountType
<1>2. g_selected \in Nat /\ g_scroll_top \in Nat /\ list_rows \in Nat /\ list_rows >= 2
  BY DEF TypeOK
<1> QED
  BY <1>1, <1>2 DEF Clamp, LastRow

LEMMA MovedTypes ==
  ASSUME TypeOK
  PROVE  Moved \subseteq Nat
<1>1. vcount \in Nat
  BY VcountType
<1>2. g_selected \in Nat /\ list_rows \in Nat /\ list_rows >= 2
  BY DEF TypeOK
<1> QED
  BY <1>1, <1>2 DEF Moved, LastRow

(* The user interface: what keys, redraws and signals change. *)
LEMMA LoopTypes ==
  ASSUME TypeOK, PollEnds \/ PollFails \/ KeyStep \/ Redraw \/ Signal
  PROVE  /\ pc' \in {"poll", "key", "draw", "exit"}
         /\ g_running' \in BOOLEAN /\ g_paused' \in BOOLEAN
         /\ g_filter_mode' \in BOOLEAN /\ g_detail_mode' \in BOOLEAN
         /\ g_selected' \in Nat /\ g_scroll_top' \in Nat
         /\ list_rows' \in Heights /\ term_rows' \in Heights
<1> USE DEF TypeOK, Key, NormalKey, FilterKey, filterVars, viewVars
<1>1. CASE PollEnds \/ PollFails \/ Signal
  BY <1>1, ZenonT(60) DEF PollEnds, PollFails, Signal
<1>2. CASE Redraw
  <2>1. Clamp.sel \in Nat /\ Clamp.top \in Nat
    <3>1. vcount \in Nat
      BY VcountType
    <3>2. Clamp.sel \in Nat
      BY <3>1, ClampTypes
    <3> QED
      BY <3>2, ClampTypes
  <2> QED
    BY <1>2, <2>1 DEF Redraw
<1>3. CASE KeyMove
  BY <1>3, MovedTypes DEF KeyMove
<1>4. CASE NoKey \/ KeyQuit \/ KeyPause \/ KeyFilter \/ KeyDetail \/ KeyReset \/ KeySave
  BY <1>4, ZenonT(60) DEF NoKey, KeyQuit, KeyPause, KeyFilter, KeyDetail, KeyReset, KeySave
<1>5. CASE KeyResize
  BY <1>5 DEF KeyResize
<1>6. CASE FilterCancel \/ FilterBackspace \/ FilterDelete \/ FilterArrow
                \/ \E c \in Tokens : FilterInsert(c)
  BY <1>6, ZenonT(60) DEF FilterCancel, FilterBackspace, FilterDelete, FilterArrow, FilterInsert
<1>7. CASE FilterApply
  BY <1>7 DEF FilterApply
<1>8. CASE FilterResize
  BY <1>8 DEF FilterResize
<1> QED
  BY <1>1, <1>2, <1>3, <1>4, <1>5, <1>6, <1>7, <1>8 DEF KeyStep

-----------------------------------------------------------------------------
LEMMA InitTypes == Init => TypeOK /\ RingInv
<1> SUFFICES ASSUME Init PROVE TypeOK /\ RingInv
  OBVIOUS
<1>1. \A i \in Indices : pkt_ring[i].n <= arrived
  BY DEF Init, NoPacket
<1>2. pkt_head \in Indices
  BY DEF Init, Indices
<1>3. g_talkers \in [Slots -> [ip : Addrs \cup {<<0, 0>>}, bytes : Nat, pkts : Nat]]
      /\ \A s \in Slots : g_talkers[s].pkts <= 0 /\ g_talkers[s].bytes <= 0
  BY DEF Init, NoTalker
<1>4. g_running \in BOOLEAN /\ g_paused \in BOOLEAN
      /\ g_filter_mode \in BOOLEAN /\ g_detail_mode \in BOOLEAN
  BY DEF Init
<1>5. pkt_ring \in [Indices -> Packets \cup {NoPacket}]
  BY DEF Init
<1>6. arrived = 0 /\ pkt_head = 0 /\ pkt_count = 0 /\ g_selected = 0 /\ g_scroll_top = 0
      /\ g_total_pkts = 0 /\ g_total_bytes = 0 /\ g_last_pkts = 0 /\ g_last_bytes = 0
      /\ list_rows \in Heights /\ term_rows = list_rows /\ pc = "draw"
  BY DEF Init
<1>7. TypeOK
  BY <1>2, <1>3, <1>4, <1>5, <1>6 DEF TypeOK
<1> QED
  BY <1>1, <1>6, <1>7 DEF RingInv

LEMMA StepTypes == TypeOK /\ RingInv /\ [Next]_vars => TypeOK' /\ RingInv'
<1> SUFFICES ASSUME TypeOK, RingInv, [Next]_vars PROVE TypeOK' /\ RingInv'
  OBVIOUS
<1>1. ASSUME NEW t \in Traffic, NEW tick \in Ticks, Deliver(t, tick) PROVE TypeOK' /\ RingInv'
  BY <1>1, DeliverTypes
<1>2. CASE PollEnds \/ PollFails \/ KeyStep \/ Redraw \/ Signal
  <2>1. Quiet
    BY <1>2, LoopIsQuiet
  <2>2. /\ pc' \in {"poll", "key", "draw", "exit"}
        /\ g_running' \in BOOLEAN /\ g_paused' \in BOOLEAN
        /\ g_filter_mode' \in BOOLEAN /\ g_detail_mode' \in BOOLEAN
        /\ g_selected' \in Nat /\ g_scroll_top' \in Nat
        /\ list_rows' \in Heights /\ term_rows' \in Heights
    BY <1>2, LoopTypes
  <2> QED
    BY <2>1, <2>2 DEF Quiet, TypeOK, RingInv, ringVars, statVars
<1>3. CASE UNCHANGED vars
  BY <1>3 DEF vars, TypeOK, RingInv, ringVars, statVars, viewVars, filterVars
<1> QED
  BY <1>1, <1>2, <1>3 DEF Next

(* Type correctness: the head stays inside the ring, and no talker is      *)
(* credited with more than was captured.                                   *)
THEOREM TypeCorrect == Spec => []TypeOK
<1> QED
  BY InitTypes, StepTypes, PTL DEF Spec

(* Until the ring of handle_event is full its head is its count, and it    *)
(* holds nothing newer than the last packet that arrived.                  *)
THEOREM RingCorrect == Spec => []RingInv
<1> QED
  BY InitTypes, StepTypes, PTL DEF Spec

(* The list never loses the selection: after every redraw the selected row *)
(* exists (or is 0) and is inside the window, whatever arrived, was        *)
(* filtered out or was resized since.                                      *)
THEOREM SelectionAlwaysShown == Spec => SelectionShown
<1> DEFINE Good == pc = "draw" /\ pc' # "draw" =>
             /\ g_selected' \in 0..(IF vcount = 0 THEN 0 ELSE vcount - 1)
             /\ g_scroll_top' \in 0..g_selected'
             /\ g_selected' < g_scroll_top' + list_rows - 1
<1>1. TypeOK /\ [Next]_vars => [Good]_vars
  <2> SUFFICES ASSUME TypeOK, Next, pc = "draw", pc' # "draw" PROVE Good
    BY DEF vars
  <2>1. Redraw
    BY DEF Next, Deliver, PollEnds, PollFails, KeyStep, Signal, Key, NormalKey,
           FilterKey, NoKey, KeyQuit, KeyPause, KeyFilter, KeyDetail, KeyReset, KeySave,
           KeyMove, KeyResize, FilterCancel, FilterApply, FilterBackspace, FilterDelete,
       FilterInsert, FilterArrow, FilterResize
  <2>2. g_selected' = Clamp.sel /\ g_scroll_top' = Clamp.top
    BY <2>1 DEF Redraw
  <2> QED
    BY <2>2, ClampTypes
<1> QED
  BY <1>1, TypeCorrect, PTL DEF Spec, SelectionShown

-----------------------------------------------------------------------------
(* The ring implements the log.                                            *)


(* What the ring shows after a packet was stored. *)
LEMMA ViewAfter ==
  ASSUME TypeOK, RingInv
  PROVE  /\ View \in Seq(Packets \cup {NoPacket}) /\ Len(View) = pkt_count
         /\ \A i \in 1..pkt_count : \E j \in Indices : View[i] = pkt_ring[j]
         /\ UNCHANGED ringVars => View' = View
         /\ \A e \in Packets :
              Store(e) => View' = Append(IF pkt_count < MAX_PACKETS THEN View ELSE Tail(View), e)
<1> DEFINE S == Packets \cup {NoPacket}
<1>1. RingShape(MAX_PACKETS, S, pkt_ring, pkt_head, pkt_count)
  BY DEF TypeOK, RingInv, Indices, RingShape
<1> HIDE DEF S
<1>2. /\ View = Shown(MAX_PACKETS, pkt_ring, pkt_head, pkt_count)
      /\ View' = Shown(MAX_PACKETS, pkt_ring', pkt_head', pkt_count')
  BY DEF View, RingIndex, Shown
<1>3. View \in Seq(S) /\ Len(View) = pkt_count
      /\ \A i \in 1..pkt_count : \E j \in Indices : View[i] = pkt_ring[j]
  <2>1. View \in Seq(S) /\ Len(View) = pkt_count
        /\ \A i \in 1..pkt_count : View[i] = pkt_ring[At(MAX_PACKETS, pkt_head, pkt_count, i)]
    BY <1>1, <1>2, ShownValue
  <2>2. \A i \in 1..pkt_count : At(MAX_PACKETS, pkt_head, pkt_count, i) \in Indices
    BY <1>1 DEF Indices, At, RingShape
  <2> QED
    BY <2>1, <2>2
<1>4. UNCHANGED ringVars => View' = View
  BY <1>2 DEF ringVars
<1>5. ASSUME NEW e \in Packets, Store(e)
      PROVE  View' = Append(IF pkt_count < MAX_PACKETS THEN View ELSE Tail(View), e)
  <2>1. pkt_head' = IF pkt_head + 1 < MAX_PACKETS THEN pkt_head + 1 ELSE 0
    BY <1>1, <1>5, NextHead DEF Store, RingShape
  <2>2. pkt_ring' = [pkt_ring EXCEPT ![pkt_head] = e]
        /\ pkt_count' = IF pkt_count < MAX_PACKETS THEN pkt_count + 1 ELSE pkt_count
    BY <1>5 DEF Store
  <2>3. e \in S
    BY DEF S
  <2>4. Stored(MAX_PACKETS, e, pkt_ring, pkt_head, pkt_count, pkt_ring', pkt_head', pkt_count')
    BY <2>1, <2>2 DEF Stored
  <2>5. Shown(MAX_PACKETS, pkt_ring', pkt_head', pkt_count')
          = Append(IF pkt_count < MAX_PACKETS
                     THEN Shown(MAX_PACKETS, pkt_ring, pkt_head, pkt_count)
                     ELSE Tail(Shown(MAX_PACKETS, pkt_ring, pkt_head, pkt_count)), e)
    BY <1>1, <2>3, <2>4, ShownAfterStore
  <2> QED
    BY <1>2, <2>5
<1> QED
  BY <1>3, <1>4, <1>5 DEF S

(* handle_event captures one packet of the log, or none when paused; no    *)
(* other step shows in it.                                                 *)
LEMMA LogStep == TypeOK /\ RingInv /\ [Next]_vars => [Log!Next]_View
<1> SUFFICES ASSUME TypeOK, RingInv, [Next]_vars PROVE Log!Next \/ View' = View
  OBVIOUS
<1>1. UNCHANGED ringVars => View' = View
  BY ViewAfter
<1>3. CASE UNCHANGED ringVars
  BY <1>1, <1>3
<1>4. ASSUME NEW t \in Traffic, NEW tick \in Ticks, Deliver(t, tick), ~g_paused
      PROVE  Log!Next
  <2>1. PICK e \in Packets : e = Packet(arrived + 1, t) /\ e.n = arrived + 1
    BY <1>4, NewPacket DEF TypeOK, Deliver
  <2>2. Store(e)
    BY <1>4, <2>1 DEF Deliver, handle_event
  <2>3. View' = Append(IF pkt_count < MAX_PACKETS THEN View ELSE Tail(View), e)
    BY <2>2, ViewAfter
  <2>4. View \in Seq(Packets \cup {NoPacket}) /\ Len(View) = pkt_count
        /\ \A i \in 1..pkt_count : \E j \in Indices : View[i] = pkt_ring[j]
    BY ViewAfter
  <2>5. \A j \in Indices : pkt_ring[j].n \in Int /\ pkt_ring[j].n <= arrived
    BY DEF TypeOK, RingInv, Packets, Packet, NoPacket
  <2>6. \A i \in DOMAIN View : View[i].n < e.n
    BY <2>1, <2>4, <2>5 DEF TypeOK
  <2> QED
    BY <2>3, <2>4, <2>6 DEF Log!Next, Log!Capture, Log!Keep
<1>5. ASSUME NEW t \in Traffic, NEW tick \in Ticks, Deliver(t, tick), g_paused
      PROVE  UNCHANGED ringVars
  BY <1>5 DEF Deliver, handle_event
<1>6. CASE PollEnds \/ PollFails \/ KeyStep \/ Redraw \/ Signal
  <2>1. UNCHANGED ringVars
    BY <1>6, LoopIsQuiet DEF Quiet
  <2> QED
    BY <1>3, <2>1
<1>7. CASE UNCHANGED vars
  BY <1>3, <1>7 DEF vars
<1> QED
  BY <1>3, <1>4, <1>5, <1>6, <1>7 DEF Next

(* pkt_ring, pkt_head and pkt_count, read with the index arithmetic of the *)
(* list, the detail panel, the save and the key handler, are a log of the  *)
(* newest MAX_PACKETS packets in the order of their arrival.               *)
THEOREM LogRefinement == Spec => ImplementsLog
<1>1. Init => Log!Init
  BY DEF Init, Log!Init, View
<1>2. TypeOK /\ RingInv /\ [Next]_vars => [Log!Next]_View
  BY LogStep
<1> QED
  BY <1>1, <1>2, TypeCorrect, RingCorrect, PTL DEF Spec, ImplementsLog, Log!Spec

-----------------------------------------------------------------------------
(* The filter bar implements the edited line.                              *)

Cells == Tokens \cup {NUL}
Places == 0..(BUF_SIZE - 1)

(* A buffer holding a string of length n, and a cursor on it. *)
GoodLine(buf, cur, n) ==
  /\ buf \in [Places -> Cells] /\ n \in Places /\ Terminated(buf, n) /\ cur \in 0..n

LineInv == \E n \in Places : GoodLine(g_filter_buf, g_filter_cursor, n)

TextOf(buf, n) == [i \in 1..n |-> buf[i - 1]]

(* The length of a string is where its NUL is. *)
LEMMA LineLength ==
  ASSUME NEW buf, NEW cur, NEW n, GoodLine(buf, cur, n)
  PROVE  /\ strlen(buf) = n /\ n \in Nat
         /\ TextOf(buf, n) \in Seq(Tokens) /\ Len(TextOf(buf, n)) = n
         /\ \A i \in 1..n : TextOf(buf, n)[i] = buf[i - 1]
<1>0. n \in Nat /\ BUF_SIZE \in Nat
  BY PksniffAssumption DEF GoodLine, Places
<1>1. ASSUME NEW m \in Places, Terminated(buf, m) PROVE m = n
  <2>1. m \in Nat /\ buf[m] = NUL /\ buf[n] = NUL
    BY <1>0, <1>1 DEF GoodLine, Terminated, Places
  <2>2. ~(m < n)
    BY <1>0, <2>1 DEF GoodLine, Terminated
  <2>3. ~(n < m)
    BY <1>0, <1>1, <2>1 DEF Terminated
  <2> QED
    BY <1>0, <2>1, <2>2, <2>3
<1>2. strlen(buf) = n
  BY <1>1 DEF strlen, GoodLine, Places
<1>3. \A i \in 1..n : buf[i - 1] \in Tokens
  <2> SUFFICES ASSUME NEW i \in 1..n PROVE buf[i - 1] \in Tokens
    OBVIOUS
  <2>1. i - 1 \in Places /\ i - 1 \in 0..(n - 1)
    BY <1>0 DEF GoodLine, Places
  <2>2. buf[i - 1] \in Cells /\ buf[i - 1] # NUL
    BY <2>1 DEF GoodLine, Terminated
  <2> QED
    BY <2>2 DEF Cells
<1>4. TextOf(buf, n) \in Seq(Tokens) /\ Len(TextOf(buf, n)) = n
  BY <1>0, <1>3 DEF TextOf
<1> QED
  BY <1>0, <1>2, <1>4 DEF TextOf

(* The first k elements of t, those of s, and those of t from the m-th on. *)
Splice(t, k, s, m) == SubSeq(t, 1, k) \o s \o SubSeq(t, m, Len(t))

SpliceHas(r, S, t, k, s, m) ==
  /\ r \in Seq(S)
  /\ Len(r) = k + Len(s) + Len(t) - m + 1
  /\ \A i \in 1..(k + Len(s) + Len(t) - m + 1) :
       r[i] = IF i <= k THEN t[i]
              ELSE IF i <= k + Len(s) THEN s[i - k] ELSE t[i - k - Len(s) + m - 1]

LEMMA Spliced ==
  ASSUME NEW S, NEW t \in Seq(S), NEW k \in 0..Len(t), NEW m \in 1..(Len(t) + 1),
         NEW s \in Seq(S)
  PROVE  SpliceHas(Splice(t, k, s, m), S, t, k, s, m)
<1> DEFINE a == SubSeq(t, 1, k)
           b == SubSeq(t, m, Len(t))
<1>0. Len(t) \in Nat /\ Len(s) \in Nat /\ k \in Int /\ m \in Int
  OBVIOUS
<1>1. a \in Seq(S) /\ Len(a) = k /\ \A i \in 1..k : a[i] = t[i]
  <2>1. \A i \in 1..k : t[i] \in S
    BY <1>0
  <2>2. /\ a \in Seq(S) /\ Len(a) = IF 1 <= k THEN k - 1 + 1 ELSE 0
        /\ \A i \in 1..(k - 1 + 1) : a[i] = t[1 + i - 1]
    BY <1>0, <2>1, SubSeqProperties
  <2> HIDE DEF a
  <2> QED
    BY <1>0, <2>2
<1>2. b \in Seq(S) /\ Len(b) = Len(t) - m + 1 /\ \A i \in 1..(Len(t) - m + 1) : b[i] = t[m + i - 1]
  <2>1. \A i \in m..Len(t) : t[i] \in S
    BY <1>0
  <2>2. PICK l \in Int : l = Len(t)
    BY <1>0
  <2>3. PICK d : d = SubSeq(t, m, l)
    OBVIOUS
  <2>4. d \in Seq(S) /\ Len(d) = (IF m <= l THEN l - m + 1 ELSE 0)
        /\ \A i \in 1..(l - m + 1) : d[i] = t[m + i - 1]
    <3>1. \A i \in m..l : t[i] \in S
      BY <2>1, <2>2
    <3> QED
      BY <1>0, <2>3, <3>1, SubSeqProperties
  <2>5. b = d
    BY <2>2, <2>3
  <2>6. m <= l + 1
    BY <1>0, <2>2
  <2> HIDE DEF b
  <2> QED
    <3>1. Len(d) = l - m + 1
      BY <1>0, <2>4, <2>6
    <3> QED
      BY <2>2, <2>4, <2>5, <3>1, Zenon
<1> HIDE DEF a, b
<1>3. /\ a \o s \in Seq(S) /\ Len(a \o s) = k + Len(s)
      /\ \A i \in 1..(k + Len(s)) : (a \o s)[i] = IF i <= k THEN t[i] ELSE s[i - k]
  <2>1. /\ a \o s \in Seq(S) /\ Len(a \o s) = Len(a) + Len(s)
        /\ \A i \in 1..(Len(a) + Len(s)) : (a \o s)[i] = IF i <= Len(a) THEN a[i] ELSE s[i - Len(a)]
    BY <1>1, ConcatProperties
  <2> QED
    BY <1>0, <1>1, <2>1
<1>4. PICK u \in Seq(S) :
        /\ u = a \o s /\ Len(u) = k + Len(s)
        /\ \A i \in 1..(k + Len(s)) : u[i] = IF i <= k THEN t[i] ELSE s[i - k]
  BY <1>3
<1>5. /\ u \o b \in Seq(S) /\ Len(u \o b) = Len(u) + Len(b)
      /\ \A i \in 1..(Len(u) + Len(b)) : (u \o b)[i] = IF i <= Len(u) THEN u[i] ELSE b[i - Len(u)]
  BY <1>2, ConcatProperties, ZenonT(60)
<1>6. Len(u) = k + Len(s) /\ Len(u) + Len(b) = k + Len(s) + Len(t) - m + 1
  BY <1>0, <1>2, <1>4
<1>7. ASSUME NEW i \in 1..(k + Len(s) + Len(t) - m + 1)
      PROVE  (u \o b)[i] = IF i <= k THEN t[i]
                       ELSE IF i <= k + Len(s) THEN s[i - k] ELSE t[i - k - Len(s) + m - 1]
  <2>1. (u \o b)[i] = IF i <= k + Len(s) THEN u[i] ELSE b[i - (k + Len(s))]
    BY <1>5, <1>6
  <2>2. CASE i <= k + Len(s)
    BY <1>0, <1>4, <2>1, <2>2, SMTT(40)
  <2>3. CASE ~(i <= k + Len(s))
    <3>1. i - (k + Len(s)) \in 1..(Len(t) - m + 1)
      BY <1>0, <2>3
    <3>2. b[i - (k + Len(s))] = t[m + (i - (k + Len(s))) - 1]
      BY <1>2, <3>1
    <3>3. m + (i - (k + Len(s))) - 1 = i - k - Len(s) + m - 1 /\ ~(i <= k)
      BY <1>0, <2>3, SMTT(40)
    <3> QED
      BY <2>1, <2>3, <3>2, <3>3
  <2> QED
    BY <2>2, <2>3
<1> QED
  BY <1>4, <1>5, <1>6, <1>7 DEF a, b, Splice, SpliceHas

(* What the buffer holds after a character was inserted at the cursor. *)
LEMMA InsertLine ==
  ASSUME NEW buf, NEW cur, NEW n, GoodLine(buf, cur, n), n < BUF_SIZE - 1, NEW c \in Tokens
  PROVE  /\ GoodLine(Inserted(buf, cur, c), cur + 1, n + 1)
         /\ TextOf(Inserted(buf, cur, c), n + 1)
              = SubSeq(TextOf(buf, n), 1, cur) \o <<c>>
                  \o SubSeq(TextOf(buf, n), cur + 1, Len(TextOf(buf, n)))
<1>0. n \in Nat /\ cur \in 0..n /\ BUF_SIZE \in Nat /\ DOMAIN buf = Places /\ strlen(buf) = n
  BY LineLength, PksniffAssumption DEF GoodLine, Places
<1>1. PICK b : b = Inserted(buf, cur, c)
  OBVIOUS
<1>2. /\ b \in [Places -> Cells]
      /\ \A i \in Places : b[i] = IF i = cur THEN c
                                  ELSE IF i \in (cur + 1)..(n + 1) THEN buf[i - 1] ELSE buf[i]
  <2>1. PICK m : m = memmove(buf, cur + 1, cur, n - cur + 1)
    OBVIOUS
  <2>2. /\ DOMAIN m = Places
        /\ \A i \in Places : m[i] = IF i \in (cur + 1)..(n + 1) THEN buf[i - 1] ELSE buf[i]
    <3>1. cur + 1 + (n - cur + 1) - 1 = n + 1 /\ \A i \in Int : cur + i - (cur + 1) = i - 1
      BY <1>0
    <3>2. m = [i \in Places |-> IF i \in (cur + 1)..(n + 1) THEN buf[cur + i - (cur + 1)] ELSE buf[i]]
      BY <1>0, <2>1, <3>1 DEF memmove
    <3> QED
      BY <1>0, <3>1, <3>2 DEF Places
  <2>3. b = [m EXCEPT ![cur] = c]
    BY <1>0, <1>1, <2>1 DEF Inserted
  <2>4. \A i \in Places : m[i] \in Cells
    <3>1. \A i \in Places : i \in (cur + 1)..(n + 1) => i - 1 \in Places
      BY <1>0 DEF Places
    <3> QED
      BY <2>2, <3>1 DEF GoodLine
  <2>5. cur \in Places /\ c \in Cells
    BY <1>0 DEF Places, Cells
  <2>6. \A i \in Places : b[i] = IF i = cur THEN c ELSE m[i]
    BY <2>2, <2>3, <2>5
  <2>7. DOMAIN b = Places /\ b = [i \in Places |-> b[i]]
    BY <2>2, <2>3
  <2>8. \A i \in Places : b[i] \in Cells
    BY <2>4, <2>5, <2>6
  <2> QED
    BY <2>2, <2>6, <2>7, <2>8
<1>a. PICK n2 \in Nat, k2 \in Nat : n2 = n + 1 /\ k2 = cur + 1
  BY <1>0
<1>3. GoodLine(b, k2, n2)
  <2>1. n + 1 \in Places /\ cur + 1 \in 0..(n + 1)
    BY <1>0 DEF Places
  <2>2. b[n + 1] = NUL
    BY <1>0, <1>2, <2>1 DEF GoodLine, Terminated
  <2>3. ASSUME NEW i \in 0..n PROVE b[i] # NUL
    <3>1. i \in Places /\ (i < n => buf[i] # NUL) /\ (i > 0 => buf[i - 1] # NUL)
      BY <1>0 DEF GoodLine, Terminated, Places
    <3> QED
      BY <1>0, <1>2, <3>1, TokensAssumption
  <2>5. Terminated(b, n2)
    <3>1. \A i \in 0..(n2 - 1) : b[i] # NUL
      BY <1>0, <1>a, <2>3
    <3> QED
      BY <1>a, <2>2, <3>1 DEF Terminated
  <2> QED
    BY <1>2, <1>a, <2>1, <2>5 DEF GoodLine
<1>4. PICK t \in Seq(Tokens) : t = TextOf(buf, n) /\ Len(t) = n /\ \A i \in 1..n : t[i] = buf[i - 1]
  BY LineLength
<1>5. PICK t2 \in Seq(Tokens) :
        t2 = TextOf(b, n2) /\ Len(t2) = n2 /\ \A i \in 1..n2 : t2[i] = b[i - 1]
  BY <1>3, LineLength
<1>6. PICK r : r = SubSeq(t, 1, cur) \o <<c>> \o SubSeq(t, k2, Len(t))
  OBVIOUS
<1>7. /\ r \in Seq(Tokens) /\ Len(r) = n + 1
      /\ \A i \in 1..(n + 1) : r[i] = IF i <= cur THEN t[i] ELSE IF i = cur + 1 THEN c ELSE t[i - 1]
  <2>1. <<c>> \in Seq(Tokens) /\ Len(<<c>>) = 1 /\ <<c>>[1] = c
    OBVIOUS
  <2>2. PICK s \in Seq(Tokens) : s = <<c>> /\ Len(s) = 1 /\ s[1] = c
    BY <2>1
  <2>3. cur \in 0..Len(t) /\ k2 \in 1..(Len(t) + 1)
    BY <1>0, <1>4, <1>a
  <2>4. /\ r \in Seq(Tokens)
        /\ Len(r) = cur + Len(s) + Len(t) - k2 + 1
        /\ \A i \in 1..(cur + Len(s) + Len(t) - k2 + 1) :
             r[i] = IF i <= cur THEN t[i]
                    ELSE IF i <= cur + Len(s) THEN s[i - cur] ELSE t[i - cur - Len(s) + k2 - 1]
    <3>1. SpliceHas(Splice(t, cur, s, k2), Tokens, t, cur, s, k2)
      BY <2>3, Spliced
    <3>2. r = Splice(t, cur, s, k2)
      BY <1>6, <2>2, Zenon DEF Splice
    <3>3. SpliceHas(r, Tokens, t, cur, s, k2)
      BY <3>1, <3>2, Zenon
    <3> QED
      BY <3>3, Zenon DEF SpliceHas
  <2>5. cur + Len(s) + Len(t) - k2 + 1 = n + 1
    BY <1>0, <1>4, <1>a, <2>2
  <2>6. ASSUME NEW i \in 1..(n + 1)
        PROVE  r[i] = IF i <= cur THEN t[i] ELSE IF i = cur + 1 THEN c ELSE t[i - 1]
    <3>1. r[i] = IF i <= cur THEN t[i]
                 ELSE IF i <= cur + 1 THEN s[i - cur] ELSE t[i - cur - 1 + k2 - 1]
      BY <2>2, <2>4, <2>5
    <3>2. i - cur - 1 + k2 - 1 = i - 1 /\ (i <= cur + 1 /\ ~(i <= cur) => i = cur + 1 /\ i - cur = 1)
      BY <1>0, <1>a, SMTT(40)
    <3> QED
      BY <1>0, <2>2, <3>1, <3>2
  <2> QED
    BY <2>4, <2>5, <2>6
<1>8. ASSUME NEW i \in 1..(n + 1) PROVE t2[i] = r[i]
  <2>1. i - 1 \in Places
    BY <1>0 DEF Places
  <2>2. t2[i] = b[i - 1]
    BY <1>5, <1>a
  <2>3. CASE i <= cur
    <3>0. i - 1 # cur /\ i - 1 \notin (cur + 1)..(n + 1) /\ i \in 1..n
      BY <1>0, <2>3
    <3>1. b[i - 1] = buf[i - 1] /\ t[i] = buf[i - 1]
      BY <1>2, <1>4, <2>1, <3>0
    <3> QED
      BY <1>7, <2>2, <2>3, <3>1
  <2>4. CASE i = cur + 1
    BY <1>0, <1>2, <1>7, <2>1, <2>2, <2>4
  <2>5. CASE i > cur + 1
    <3>1. i - 1 \in 1..n /\ i - 1 \in (cur + 1)..(n + 1) /\ i - 1 # cur
      BY <1>0, <2>5
    <3>2. b[i - 1] = buf[i - 1 - 1] /\ t[i - 1] = buf[i - 1 - 1]
      BY <1>2, <1>4, <2>1, <3>1
    <3>3. r[i] = t[i - 1]
      BY <1>0, <1>7, <2>5
    <3> QED
      BY <2>2, <3>2, <3>3
  <2> QED
    BY <1>0, <2>3, <2>4, <2>5
<1>9. t2 = r
  BY <1>5, <1>7, <1>8, <1>a, SeqEqual
<1> QED
  BY <1>1, <1>3, <1>4, <1>5, <1>6, <1>9, <1>a

(* A buffer b with the line of buf (of length n) without its character d. *)
Removed(b, k2, n2, buf, n, d) ==
  /\ GoodLine(b, k2, n2)
  /\ TextOf(b, n2) = SubSeq(TextOf(buf, n), 1, d)
                       \o SubSeq(TextOf(buf, n), d + 2, Len(TextOf(buf, n)))

(* What the buffer holds after the character at d was moved over. *)
LEMMA RemoveLine ==
  ASSUME NEW buf, NEW cur, NEW n, GoodLine(buf, cur, n), NEW d \in 0..(n - 1),
         NEW b, b = memmove(buf, d, d + 1, n - d), NEW k2 \in 0..(n - 1), NEW n2, n2 = n - 1
  PROVE  Removed(b, k2, n2, buf, n, d)
<1>0. n \in Nat /\ d \in Nat /\ BUF_SIZE \in Nat /\ DOMAIN buf = Places /\ d < n /\ n2 \in Nat
  BY LineLength, PksniffAssumption DEF GoodLine, Places
<1>1. /\ DOMAIN b = Places /\ b \in [Places -> Cells]
      /\ \A i \in Places : b[i] = IF i \in d..(n - 1) THEN buf[i + 1] ELSE buf[i]
  <2>1. d + (n - d) - 1 = n - 1 /\ \A i \in Int : d + 1 + i - d = i + 1
    BY <1>0
  <2>2. b = [i \in Places |-> IF i \in d..(n - 1) THEN buf[d + 1 + i - d] ELSE buf[i]]
    BY <1>0, <2>1 DEF memmove
  <2>3. \A i \in Places : i \in Int /\ (i \in d..(n - 1) => i + 1 \in Places)
    BY <1>0 DEF Places, GoodLine
  <2>4. \A i \in Places : b[i] = IF i \in d..(n - 1) THEN buf[i + 1] ELSE buf[i]
    BY <2>1, <2>2, <2>3
  <2>5. \A i \in Places : b[i] \in Cells
    BY <2>3, <2>4 DEF GoodLine
  <2> QED
    BY <2>2, <2>4, <2>5
<1>2. GoodLine(b, k2, n2)
  <2>1. n2 \in Places /\ k2 \in 0..n2 /\ n2 \in d..(n - 1) /\ n2 + 1 = n
    BY <1>0 DEF Places, GoodLine
  <2>2. b[n2] = NUL
    BY <1>1, <2>1 DEF GoodLine, Terminated
  <2>3. ASSUME NEW i \in 0..(n2 - 1) PROVE b[i] # NUL
    <3>1. i \in Places /\ i \in 0..(n - 1) /\ i + 1 \in 0..(n - 1)
      BY <1>0 DEF Places, GoodLine
    <3>2. buf[i] # NUL /\ buf[i + 1] # NUL
      BY <3>1 DEF GoodLine, Terminated
    <3> QED
      BY <1>1, <3>1, <3>2
  <2> QED
    BY <1>1, <2>1, <2>2, <2>3 DEF GoodLine, Terminated
<1>3. PICK t \in Seq(Tokens) : t = TextOf(buf, n) /\ Len(t) = n /\ \A i \in 1..n : t[i] = buf[i - 1]
  BY LineLength
<1>4. PICK t2 \in Seq(Tokens) :
        t2 = TextOf(b, n2) /\ Len(t2) = n2 /\ \A i \in 1..n2 : t2[i] = b[i - 1]
  BY <1>2, LineLength
<1>5. PICK m \in 1..(Len(t) + 1) : m = d + 2
  BY <1>0, <1>3
<1>6. PICK s \in Seq(Tokens) : s = <<>> /\ Len(s) = 0
  BY EmptySeq
<1>7. PICK r : r = Splice(t, d, s, m)
  OBVIOUS
<1>8. SpliceHas(r, Tokens, t, d, s, m)
  <2>1. d \in 0..Len(t)
    BY <1>0, <1>3
  <2> QED
    BY <1>7, <2>1, Spliced
<1>9. r = SubSeq(t, 1, d) \o SubSeq(t, m, Len(t))
  <2>1. SubSeq(t, 1, d) \in Seq(Tokens)
    <3>1. \A i \in 1..d : t[i] \in Tokens
      BY <1>0, <1>3
    <3> QED
      BY <1>0, <3>1, SubSeqProperties
  <2>2. SubSeq(t, 1, d) \o <<>> = SubSeq(t, 1, d)
    BY <2>1, ConcatEmptySeq
  <2> QED
    BY <1>6, <1>7, <2>2, Zenon DEF Splice
<1>10. d + Len(s) + Len(t) - m + 1 = n2
  <2>1. Len(s) = 0 /\ Len(t) = n /\ m = d + 2
    BY <1>3, <1>5, <1>6
  <2> QED
    BY <1>0, <2>1, SMTT(40)
<1>11. r \in Seq(Tokens) /\ Len(r) = n2
  BY <1>8, <1>10, Zenon DEF SpliceHas
<1>12. ASSUME NEW i \in 1..n2 PROVE t2[i] = r[i]
  <2>1. i - 1 \in Places /\ i \in 1..n /\ i + 1 \in 1..n /\ i \in Int
    BY <1>0 DEF Places, GoodLine
  <2>2. r[i] = IF i <= d THEN t[i]
               ELSE IF i <= d + Len(s) THEN s[i - d] ELSE t[i - d - Len(s) + m - 1]
    BY <1>8, <1>10 DEF SpliceHas
  <2>3. CASE i <= d
    <3>1. i - 1 \notin d..(n - 1)
      BY <1>0, <2>1, <2>3
    <3> QED
      BY <1>1, <1>3, <1>4, <2>1, <2>2, <2>3, <3>1, ZenonT(60)
  <2>4. CASE ~(i <= d)
    <3>1. i - d - Len(s) + m - 1 = i + 1 /\ ~(i <= d + Len(s)) /\ i - 1 \in d..(n - 1) /\ i - 1 + 1 = i
      BY <1>0, <1>5, <1>6, <2>1, <2>4
    <3>2. r[i] = t[i + 1]
      BY <2>2, <2>4, <3>1
    <3>3. b[i - 1] = buf[i]
      BY <1>1, <2>1, <3>1
    <3>4. t[i + 1] = buf[i]
      <4>1. PICK j \in 1..n : j = i + 1
        BY <2>1
      <4>2. j - 1 = i
        BY <2>1, <4>1
      <4> QED
        BY <1>3, <4>1, <4>2, Zenon
    <3> QED
      BY <1>4, <3>2, <3>3, <3>4
  <2> QED
    BY <2>3, <2>4
<1>13. t2 = r
  BY <1>4, <1>11, <1>12, SeqEqual
<1> QED
  BY <1>2, <1>3, <1>4, <1>5, <1>9, <1>13 DEF Removed

(* A buffer that agrees with another one up to its NUL holds the same line. *)
LEMMA SameLine ==
  ASSUME NEW buf, NEW cur, NEW n, GoodLine(buf, cur, n), NEW b \in [Places -> Cells],
         \A i \in 0..n : b[i] = buf[i], NEW k2 \in 0..n
  PROVE  GoodLine(b, k2, n) /\ TextOf(b, n) = TextOf(buf, n)
<1>0. n \in Nat
  BY LineLength
<1>1. GoodLine(b, k2, n)
  BY <1>0 DEF GoodLine, Terminated
<1>2. \A i \in 1..n : i - 1 \in 0..n
  BY <1>0
<1>3. \A i \in 1..n : b[i - 1] = buf[i - 1]
  BY <1>2
<1> QED
  BY <1>1, <1>3 DEF TextOf

(* The line that the state shows, before and after a step. *)
LEMMA LineShown ==
  ASSUME NEW n, GoodLine(g_filter_buf, g_filter_cursor, n)
  PROVE  LineText = TextOf(g_filter_buf, n)
BY LineLength DEF LineText, TextOf

LEMMA LineShownNext ==
  ASSUME NEW n, GoodLine(g_filter_buf', g_filter_cursor', n)
  PROVE  LineText' = TextOf(g_filter_buf', n)
BY LineLength DEF LineText, TextOf

(* What a step may do to the line: it stays good, and it was edited. *)
LineStep ==
  LineInv /\ [Next]_vars => LineInv' /\ [Line!Next]_<<LineText, g_filter_cursor>>

LEMMA LineSteps == LineStep
<1> SUFFICES ASSUME LineInv, [Next]_vars
             PROVE  /\ LineInv'
                    /\ \/ Line!Next
                       \/ UNCHANGED <<LineText, g_filter_cursor>>
  BY DEF LineStep
<1>0. PICK n \in Places : GoodLine(g_filter_buf, g_filter_cursor, n)
  BY DEF LineInv
<1> DEFINE buf == g_filter_buf
           cur == g_filter_cursor
<1>1. /\ n \in Nat /\ cur \in 0..n /\ BUF_SIZE \in Nat /\ strlen(buf) = n
      /\ LineText = TextOf(buf, n) /\ Len(LineText) = n /\ buf \in [Places -> Cells]
  BY <1>0, LineLength, LineShown, PksniffAssumption DEF GoodLine
<1>2. CASE UNCHANGED <<g_filter_buf, g_filter_cursor>>
  BY <1>2 DEF LineInv, LineText
<1>3. ASSUME NEW m \in Places, GoodLine(buf', cur', m)
      PROVE  LineInv' /\ LineText' = TextOf(buf', m)
  BY <1>3, LineShownNext DEF LineInv
<1>4. ASSUME buf' \in [Places -> Cells], \A i \in 0..n : buf'[i] = buf[i], cur' \in 0..n
      PROVE  LineInv' /\ Line!Next
  <2>1. GoodLine(buf', cur', n) /\ TextOf(buf', n) = TextOf(buf, n)
    BY <1>0, <1>4, SameLine
  <2>2. LineInv' /\ LineText' = LineText
    BY <1>1, <1>3, <2>1
  <2>3. Line!Move
    BY <1>1, <1>4, <2>2 DEF Line!Move
  <2> QED
    BY <2>2, <2>3 DEF Line!Next
<1>5. CASE KeyFilter
  <2>1. buf' = Padded(buf) /\ cur' = strlen(buf)
    BY <1>5 DEF KeyFilter
  <2>2. buf' = [i \in Places |-> IF i < n THEN buf[i] ELSE NUL]
    BY <1>1, <2>1 DEF Padded
  <2>3. \A i \in 0..n : i \in Places
    BY <1>1 DEF Places
  <2>4. buf' \in [Places -> Cells]
    BY <1>1, <2>2 DEF Cells
  <2>5. \A i \in 0..n : buf'[i] = buf[i]
    <3>1. buf[n] = NUL
      BY <1>0 DEF GoodLine, Terminated
    <3> QED
      BY <1>1, <2>2, <2>3, <3>1
  <2>6. cur' \in 0..n
    BY <1>1, <2>1
  <2> QED
    BY <1>4, <2>4, <2>5, <2>6
<1>6. CASE KeyReset
  <2>1. buf' = [buf EXCEPT ![0] = NUL] /\ cur' = 0
    BY <1>6 DEF KeyReset
  <2>2. 0 \in Places /\ NUL \in Cells
    BY PksniffAssumption DEF Places, Cells
  <2>3. buf' \in [Places -> Cells] /\ buf'[0] = NUL
    BY <1>1, <2>1, <2>2
  <2>4. GoodLine(buf', cur', 0)
    BY <2>1, <2>2, <2>3 DEF GoodLine, Terminated
  <2>5. LineInv' /\ LineText' = TextOf(buf', 0)
    BY <1>3, <2>2, <2>4
  <2>6. LineText' = <<>>
    BY <2>5 DEF TextOf
  <2>7. Line!Clear
    BY <2>1, <2>6 DEF Line!Clear
  <2> QED
    BY <2>5, <2>7 DEF Line!Next
<1>7. CASE FilterArrow
  <2>1. buf' = buf /\ ((cur > 0 /\ cur' = cur - 1) \/ (cur < n /\ cur' = cur + 1))
    BY <1>1, <1>7 DEF FilterArrow
  <2>2. cur' \in 0..n
    BY <1>1, <2>1
  <2> QED
    BY <1>1, <1>4, <2>1, <2>2
<1>8. ASSUME NEW c \in Tokens, FilterInsert(c) PROVE LineInv' /\ Line!Next
  <2>1. n < BUF_SIZE - 1 /\ buf' = Inserted(buf, cur, c) /\ cur' = cur + 1
    BY <1>1, <1>8 DEF FilterInsert
  <2>2. PICK m \in Places : m = n + 1
    BY <1>1, <2>1 DEF Places
  <2>3. GoodLine(Inserted(buf, cur, c), cur + 1, n + 1)
        /\ TextOf(Inserted(buf, cur, c), n + 1)
              = SubSeq(TextOf(buf, n), 1, cur) \o <<c>>
                  \o SubSeq(TextOf(buf, n), cur + 1, Len(TextOf(buf, n)))
    BY <1>0, <2>1, InsertLine
  <2>4. GoodLine(buf', cur', m)
    BY <2>1, <2>2, <2>3, Zenon
  <2>5. LineInv' /\ LineText' = TextOf(buf', m)
    BY <1>3, <2>4
  <2>6. LineText' = SubSeq(LineText, 1, cur) \o <<c>> \o SubSeq(LineText, cur + 1, Len(LineText))
    BY <1>1, <2>1, <2>2, <2>3, <2>5, Zenon
  <2>7. Line!Insert(c)
    BY <1>1, <2>1, <2>6 DEF Line!Insert, Line!Before, Line!After
  <2> QED
    BY <2>5, <2>7 DEF Line!Next
<1>9. CASE FilterBackspace
  <2>1. cur > 0 /\ buf' = memmove(buf, cur - 1, cur, n - cur + 1) /\ cur' = cur - 1
    BY <1>1, <1>9 DEF FilterBackspace, Backspaced
  <2>2. PICK d \in 0..(n - 1), m \in Places : d = cur - 1 /\ d + 1 = cur /\ n - cur + 1 = n - d /\ m = n - 1
    BY <1>1, <2>1 DEF Places
  <2>3. buf' = memmove(buf, d, d + 1, n - d) /\ cur' = d
    BY <2>1, <2>2, Zenon
  <2>4. GoodLine(buf', cur', m)
        /\ TextOf(buf', m) = SubSeq(TextOf(buf, n), 1, d)
                              \o SubSeq(TextOf(buf, n), d + 2, Len(TextOf(buf, n)))
    <3>1. Removed(buf', cur', m, buf, n, d)
      BY <1>0, <2>2, <2>3, RemoveLine
    <3> QED
      BY <3>1, Zenon DEF Removed
  <2>5. LineInv' /\ LineText' = TextOf(buf', m)
    BY <1>3, <2>4
  <2>6. d + 2 = cur + 1
    BY <1>1, <2>2
  <2>7. LineText' = SubSeq(LineText, 1, cur - 1) \o SubSeq(LineText, cur + 1, Len(LineText))
    BY <1>1, <2>2, <2>4, <2>5, <2>6, Zenon
  <2>8. Line!Backspace
    BY <2>1, <2>7 DEF Line!Backspace, Line!After
  <2> QED
    BY <2>5, <2>8 DEF Line!Next
<1>10. CASE FilterDelete
  <2>1. cur < n /\ buf' = memmove(buf, cur, cur + 1, n - cur) /\ cur' = cur
    BY <1>1, <1>10 DEF FilterDelete, Deleted
  <2>2. PICK d \in 0..(n - 1), m \in Places : d = cur /\ m = n - 1
    BY <1>1, <2>1 DEF Places
  <2>3. buf' = memmove(buf, d, d + 1, n - d) /\ cur' = d
    BY <2>1, <2>2, Zenon
  <2>4. GoodLine(buf', cur', m)
        /\ TextOf(buf', m) = SubSeq(TextOf(buf, n), 1, d)
                              \o SubSeq(TextOf(buf, n), d + 2, Len(TextOf(buf, n)))
    <3>1. Removed(buf', cur', m, buf, n, d)
      BY <1>0, <2>2, <2>3, RemoveLine
    <3> QED
      BY <3>1, Zenon DEF Removed
  <2>5. LineInv' /\ LineText' = TextOf(buf', m)
    BY <1>3, <2>4
  <2>6. LineText' = SubSeq(LineText, 1, cur) \o SubSeq(LineText, cur + 2, Len(LineText))
    BY <1>1, <2>2, <2>4, <2>5, Zenon
  <2>7. Line!Delete
    BY <1>1, <2>1, <2>6 DEF Line!Delete, Line!Before
  <2> QED
    BY <2>5, <2>7 DEF Line!Next
<1>11. CASE \/ \E t \in Traffic, tick \in Ticks : Deliver(t, tick)
            \/ PollEnds \/ PollFails \/ Redraw \/ Signal \/ UNCHANGED vars
  <2>1. UNCHANGED <<g_filter_buf, g_filter_cursor>>
    BY <1>11 DEF Deliver, PollEnds, PollFails, Redraw, Signal, filterVars, vars
  <2> QED
    BY <1>2, <2>1
<1>12. CASE NoKey \/ KeyQuit \/ KeyPause \/ KeyDetail \/ KeySave \/ KeyMove \/ KeyResize
             \/ FilterCancel \/ FilterApply \/ FilterResize
  <2>1. UNCHANGED <<g_filter_buf, g_filter_cursor>>
    BY <1>12 DEF NoKey, KeyQuit, KeyPause, KeyDetail, KeySave, KeyMove, KeyResize,
                 FilterCancel, FilterApply, FilterResize, filterVars
  <2> QED
    BY <1>2, <2>1
<1> HIDE DEF buf, cur
<1> QED
  BY <1>5, <1>6, <1>7, <1>8, <1>9, <1>10, <1>11, <1>12 DEF Next, KeyStep

(* g_filter_buf with its memmoves, its terminating NUL and the cursor is a *)
(* line edited at the cursor, for every buffer size and every text: no     *)
(* edit loses, doubles or misplaces a character, none leaves the buffer,   *)
(* and the cursor never leaves the line.                                   *)
THEOREM LineRefinement == Spec => ImplementsLine
<1>1. Init => LineInv /\ Line!Init
  <2> SUFFICES ASSUME Init PROVE LineInv /\ Line!Init
    OBVIOUS
  <2>1. 0 \in Places
    BY PksniffAssumption DEF Places
  <2>2. GoodLine(g_filter_buf, g_filter_cursor, 0)
    BY <2>1 DEF Init, GoodLine, Terminated, Places, Cells
  <2>3. LineText = TextOf(g_filter_buf, 0)
    BY <2>2, LineShown
  <2>4. LineText = <<>>
    BY <2>3 DEF TextOf
  <2> QED
    BY <2>1, <2>2, <2>4 DEF Init, LineInv, Line!Init
<1>2. LineInv /\ [Next]_vars => LineInv' /\ [Line!Next]_<<LineText, g_filter_cursor>>
  BY LineSteps DEF LineStep
<1> QED
  BY <1>1, <1>2, PTL DEF Spec, ImplementsLine, Line!Spec

-----------------------------------------------------------------------------
(* The saved view: filtering keeps suffixes.                               *)

KeepIf(l, e, f) == IF event_matches(e, f) THEN Append(l, e) ELSE l

(* What the filter has let through after 0, 1, ..., n packets of s. *)
IsKept(k, s, f, n) == k = [i \in 0..n |-> IF i = 0 THEN <<>> ELSE KeepIf(k[i - 1], s[i], f)]

(* The function that Filtered defines recursively exists. *)
LEMMA KeptExists ==
  ASSUME NEW s, NEW f, NEW n \in Nat
  PROVE  \E k : IsKept(k, s, f, n)
<1> DEFINE T == {m \in Nat : ~\E k : IsKept(k, s, f, m)}
<1> SUFFICES ASSUME T # {} PROVE FALSE
  OBVIOUS
<1>1. PICK m \in T : \A j \in T : m <= j
  <2>1. T \in SUBSET Nat
    OBVIOUS
  <2> QED
    BY <2>1, Least
<1>2. m # 0
  <2>1. PICK k : k = [i \in 0..0 |-> <<>>]
    OBVIOUS
  <2>2. IsKept(k, s, f, 0)
    BY <2>1 DEF IsKept
  <2> QED
    BY <2>2
<1>3. PICK k : IsKept(k, s, f, m - 1)
  <2>1. m - 1 \in Nat /\ ~(m <= m - 1)
    BY <1>2
  <2> QED
    BY <1>1, <2>1
<1>4. PICK g : g = [i \in 0..m |-> IF i = m THEN KeepIf(k[m - 1], s[m], f) ELSE k[i]]
  OBVIOUS
<1>5. IsKept(g, s, f, m)
  <2>1. \A i \in 0..(m - 1) : k[i] = IF i = 0 THEN <<>> ELSE KeepIf(k[i - 1], s[i], f)
    BY <1>3 DEF IsKept
  <2>2. \A i \in 0..m : g[i] = IF i = 0 THEN <<>> ELSE KeepIf(g[i - 1], s[i], f)
    BY <1>2, <1>4, <2>1
  <2> QED
    BY <1>4, <2>2 DEF IsKept
<1> QED
  BY <1>5

(* Filtered is what has been kept after the last packet. *)
LEMMA FilteredValue ==
  ASSUME NEW s, NEW f, Len(s) \in Nat
  PROVE  \E k : IsKept(k, s, f, Len(s)) /\ Filtered(s, f) = k[Len(s)]
<1>1. PICK k : k = CHOOSE g : IsKept(g, s, f, Len(s))
  OBVIOUS
<1>2. IsKept(k, s, f, Len(s))
  BY <1>1, KeptExists
<1>3. Filtered(s, f) = k[Len(s)]
  BY <1>1 DEF Filtered, IsKept, KeepIf
<1> QED
  BY <1>2, <1>3

(* What is kept is a sequence of packets of s. *)
LEMMA KeptType ==
  ASSUME NEW S, NEW s \in Seq(S), NEW f, NEW k, IsKept(k, s, f, Len(s)), NEW i \in 0..Len(s)
  PROVE  k[i] \in Seq(S)
<1> DEFINE T == {m \in 0..Len(s) : k[m] \notin Seq(S)}
<1> SUFFICES ASSUME T # {} PROVE FALSE
  OBVIOUS
<1>1. PICK m \in T : \A j \in T : m <= j
  <2>1. T \in SUBSET Nat
    OBVIOUS
  <2> QED
    BY <2>1, Least
<1>2. m \in 0..Len(s) /\ k[m] \notin Seq(S)
  OBVIOUS
<1>3. k[m] = IF m = 0 THEN <<>> ELSE KeepIf(k[m - 1], s[m], f)
  BY <1>2 DEF IsKept
<1>4. m # 0
  <2>1. <<>> \in Seq(S)
    OBVIOUS
  <2> QED
    BY <1>2, <1>3, <2>1
<1>5. PICK j \in 0..Len(s) : j = m - 1 /\ ~(m <= j) /\ m \in 1..Len(s)
  BY <1>2, <1>4
<1>6. k[j] \in Seq(S) /\ s[m] \in S
  BY <1>1, <1>5
<1>7. k[m] = k[j] \/ k[m] = Append(k[j], s[m])
  BY <1>3, <1>4, <1>5 DEF KeepIf
<1>8. Append(k[j], s[m]) \in Seq(S)
  BY <1>6
<1> QED
  BY <1>2, <1>6, <1>7, <1>8

(* A suffix, element by element. *)
Ends(a, b) == Len(a) <= Len(b) /\ \A i \in 1..Len(a) : a[i] = b[Len(b) - Len(a) + i]

(* IsSuffix, element by element. *)
LEMMA SuffixEnds ==
  ASSUME NEW S, NEW a \in Seq(S), NEW b \in Seq(S)
  PROVE  IsSuffix(a, b) <=> Ends(a, b)
<1>1. PICK m \in Nat, n \in Nat : m = Len(a) /\ n = Len(b)
  OBVIOUS
<1>2. CASE m <= n
  <2>1. PICK p \in 1..(n + 1) : p = n - m + 1
    BY <1>2
  <2>2. PICK c : c = SubSeq(b, p, n)
    OBVIOUS
  <2>3. c \in Seq(S) /\ Len(c) = m /\ \A i \in 1..m : c[i] = b[n - m + i]
    <3>1. \A i \in p..n : b[i] \in S
      BY <1>1, <2>1
    <3>2. /\ SubSeq(b, p, n) \in Seq(S)
          /\ Len(SubSeq(b, p, n)) = IF p <= n THEN n - p + 1 ELSE 0
          /\ \A i \in 1..(n - p + 1) : SubSeq(b, p, n)[i] = b[p + i - 1]
      BY <2>1, <3>1, SubSeqProperties
    <3>3. n - p + 1 = m /\ (~(p <= n) => m = 0) /\ \A i \in 1..m : p + i - 1 = n - m + i
      BY <1>2, <2>1
    <3> QED
      BY <2>2, <3>2, <3>3, SMTT(40)
  <2>4. IsSuffix(a, b) <=> a = c
    BY <1>1, <1>2, <2>1, <2>2 DEF IsSuffix
  <2>5. Ends(a, b) <=> \A i \in 1..m : a[i] = c[i]
    BY <1>1, <1>2, <2>3 DEF Ends
  <2>6. (\A i \in 1..m : a[i] = c[i]) => a = c
    BY <1>1, <2>3, SeqEqual
  <2> QED
    BY <2>4, <2>5, <2>6
<1>3. CASE ~(m <= n)
  BY <1>1, <1>3 DEF IsSuffix, Ends
<1> QED
  BY <1>2, <1>3

(* The same packet at the end of both. *)
LEMMA EndsAppend ==
  ASSUME NEW S, NEW a \in Seq(S), NEW b \in Seq(S), NEW e \in S, Ends(a, b)
  PROVE  Ends(Append(a, e), Append(b, e))
<1>1. PICK m \in Nat, n \in Nat : m = Len(a) /\ n = Len(b) /\ m <= n
  BY DEF Ends
<1>2. PICK a2 \in Seq(S) : a2 = Append(a, e) /\ Len(a2) = m + 1 /\ a2[m + 1] = e
                           /\ \A i \in 1..m : a2[i] = a[i]
  <2>1. Append(a, e) \in Seq(S) /\ Len(Append(a, e)) = m + 1 /\ Append(a, e)[m + 1] = e
        /\ \A i \in 1..m : Append(a, e)[i] = a[i]
    BY <1>1
  <2> QED
    BY <2>1
<1>3. PICK b2 \in Seq(S) : b2 = Append(b, e) /\ Len(b2) = n + 1 /\ b2[n + 1] = e
                           /\ \A i \in 1..n : b2[i] = b[i]
  <2>1. Append(b, e) \in Seq(S) /\ Len(Append(b, e)) = n + 1 /\ Append(b, e)[n + 1] = e
        /\ \A i \in 1..n : Append(b, e)[i] = b[i]
    BY <1>1
  <2> QED
    BY <2>1
<1>4. ASSUME NEW i \in 1..(m + 1) PROVE a2[i] = b2[n - m + i]
  <2>1. CASE i = m + 1
    <3>1. n - m + i = n + 1
      BY <1>1, <2>1
    <3> QED
      BY <1>2, <1>3, <2>1, <3>1
  <2>2. CASE i # m + 1
    <3>1. i \in 1..m /\ n - m + i \in 1..n
      BY <1>1, <2>2
    <3>2. a[i] = b[n - m + i]
      BY <1>1, <3>1 DEF Ends
    <3> QED
      BY <1>2, <1>3, <3>1, <3>2
  <2> QED
    BY <2>1, <2>2
<1>5. Len(a2) <= Len(b2) /\ Len(b2) - Len(a2) = n - m
  BY <1>1, <1>2, <1>3
<1>6. \A i \in 1..Len(a2) : a2[i] = b2[Len(b2) - Len(a2) + i]
  BY <1>2, <1>4, <1>5, Zenon
<1>7. Ends(a2, b2)
  BY <1>5, <1>6, Zenon DEF Ends
<1> QED
  BY <1>2, <1>3, <1>7

(* The end of a sequence, filtered, is the end of the filtered sequence. *)
LEMMA SuffixFiltered ==
  ASSUME NEW S, NEW a \in Seq(S), NEW b \in Seq(S), NEW f, Ends(a, b)
  PROVE  Ends(Filtered(a, f), Filtered(b, f))
<1>1. PICK m \in Nat, n \in Nat : m = Len(a) /\ n = Len(b) /\ m <= n
  BY DEF Ends
<1>2. PICK k : IsKept(k, a, f, m) /\ Filtered(a, f) = k[m]
  BY <1>1, FilteredValue
<1>3. PICK l : IsKept(l, b, f, n) /\ Filtered(b, f) = l[n]
  BY <1>1, FilteredValue
<1> DEFINE T == {i \in 0..m : ~Ends(k[i], l[n - m + i])}
<1>4. T = {}
  <2> SUFFICES ASSUME T # {} PROVE FALSE
    OBVIOUS
  <2>1. PICK i \in T : \A j \in T : i <= j
    <3>1. T \in SUBSET Nat
      OBVIOUS
    <3> QED
      BY <3>1, Least
  <2>2. i \in 0..m /\ ~Ends(k[i], l[n - m + i])
    OBVIOUS
  <2>3. PICK i2 \in 0..n : i2 = n - m + i
    BY <1>1, <2>2
  <2>4. k[i] \in Seq(S) /\ l[i2] \in Seq(S)
    BY <1>1, <1>2, <1>3, <2>2, KeptType
  <2>5. k[i] = IF i = 0 THEN <<>> ELSE KeepIf(k[i - 1], a[i], f)
    BY <1>2, <2>2 DEF IsKept
  <2>6. CASE i = 0
    <3>1. k[i] = <<>> /\ Len(k[i]) = 0
      BY <2>5, <2>6
    <3>2. Ends(k[i], l[i2])
      BY <2>4, <3>1 DEF Ends
    <3> QED
      BY <2>2, <2>3, <3>2
  <2>7. CASE i # 0
    <3>1. PICK j \in 0..m : j = i - 1 /\ ~(i <= j) /\ i \in 1..m
      BY <2>2, <2>7
    <3>2. PICK j2 \in 0..n : j2 = n - m + j /\ j2 = i2 - 1 /\ i2 \in 1..n /\ i2 # 0
      <4>1. j \in Nat /\ i \in Nat /\ j = i - 1 /\ i <= m /\ i >= 1
        BY <3>1
      <4>2. n - m + j \in 0..n /\ n - m + j = i2 - 1 /\ i2 \in 1..n /\ i2 # 0
        BY <1>1, <2>3, <4>1
      <4> QED
        BY <4>2
    <3>3. Ends(k[j], l[j2])
      BY <2>1, <3>1, <3>2
    <3>4. a[i] = b[i2] /\ a[i] \in S
      BY <1>1, <2>3, <3>1 DEF Ends
    <3>5. k[j] \in Seq(S) /\ l[j2] \in Seq(S)
      BY <1>1, <1>2, <1>3, KeptType
    <3>6. l[i2] = IF i2 = 0 THEN <<>> ELSE KeepIf(l[i2 - 1], b[i2], f)
      BY <1>3 DEF IsKept
    <3>7. k[i] = KeepIf(k[j], a[i], f) /\ l[i2] = KeepIf(l[j2], a[i], f)
      BY <2>5, <2>7, <3>1, <3>2, <3>4, <3>6
    <3>8. Ends(Append(k[j], a[i]), Append(l[j2], a[i]))
      BY <3>3, <3>4, <3>5, EndsAppend
    <3>9. Ends(k[i], l[i2])
      BY <3>3, <3>7, <3>8, Zenon DEF KeepIf
    <3> QED
      BY <2>2, <2>3, <3>9
  <2> QED
    BY <2>6, <2>7
<1>5. Ends(k[m], l[n - m + m])
  <2>1. m \in 0..m
    OBVIOUS
  <2> QED
    BY <1>4, <2>1
<1>6. n - m + m = n
  OBVIOUS
<1> QED
  BY <1>2, <1>3, <1>5, <1>6, Zenon

(* The oldest packet leaves, and a new one comes. *)
LEMMA EndsTail ==
  ASSUME NEW S, NEW a \in Seq(S), NEW b \in Seq(S), a # <<>>, Ends(a, b)
  PROVE  Tail(a) \in Seq(S) /\ Ends(Tail(a), b)
<1>1. PICK m \in Nat, n \in Nat : m = Len(a) /\ n = Len(b) /\ m <= n /\ m # 0
  BY DEF Ends
<1>2. PICK c \in Seq(S) : c = Tail(a) /\ Len(c) = m - 1 /\ \A i \in 1..(m - 1) : c[i] = a[i + 1]
  <2>1. Tail(a) \in Seq(S) /\ Len(Tail(a)) = m - 1
    BY <1>1, HeadTailProperties
  <2>2. \A i \in 1..(m - 1) : Tail(a)[i] = a[i + 1]
    BY <1>1, <2>1, HeadTailProperties
  <2> QED
    BY <2>1, <2>2
<1>3. ASSUME NEW i \in 1..(m - 1) PROVE c[i] = b[n - (m - 1) + i]
  <2>1. PICK j \in 1..m : j = i + 1 /\ n - m + j = n - (m - 1) + i
    <3>1. i \in Nat /\ i >= 1 /\ i <= m - 1
      BY <1>1
    <3>2. i + 1 \in 1..m /\ n - m + (i + 1) = n - (m - 1) + i
      BY <1>1, <3>1
    <3> QED
      BY <3>2
  <2>2. a[j] = b[n - m + j]
    BY <1>1 DEF Ends
  <2> QED
    BY <1>2, <2>1, <2>2
<1>4. Len(c) <= Len(b)
  BY <1>1, <1>2
<1>5. \A i \in 1..Len(c) : c[i] = b[Len(b) - Len(c) + i]
  BY <1>1, <1>2, <1>3, Zenon
<1>6. Ends(c, b)
  BY <1>4, <1>5, Zenon DEF Ends
<1> QED
  BY <1>2, <1>6

(* The ring shows the end of what -o recorded, and what was saved is the   *)
(* filtered end of it until the screen is drawn again.                     *)
SavedInv ==
  /\ pcap \in Seq(Packets \cup {NoPacket})
  /\ HasOut => Ends(View, pcap)
  /\ saved \in Seq(Packets \cup {NoPacket})
  /\ pc # "draw" => saved = <<>>
  /\ HasOut => Ends(saved, Filtered(pcap, g_filter))

(* Only key S saves; after any other step nothing is saved, unless         *)
(* nothing that matters has changed.                                       *)
LEMMA SavedSteps ==
  ASSUME SavedInv, [Next]_vars
  PROVE  KeySave \/ saved' = <<>> \/ UNCHANGED <<pc, saved, g_filter, pcap>>
<1> USE DEF fileVars, filterVars
<1>0. pc = "key" \/ pc = "poll" => saved = <<>>
  BY DEF SavedInv
<1>1. CASE UNCHANGED vars
  BY <1>1 DEF vars
<1>2. CASE Redraw
  BY <1>2 DEF Redraw
<1>3. CASE Signal
  BY <1>3 DEF Signal
<1>4. CASE PollEnds \/ PollFails
  BY <1>0, <1>4 DEF PollEnds, PollFails
<1>5. ASSUME NEW t \in Traffic, NEW tick \in Ticks, Deliver(t, tick) PROVE saved' = <<>>
  BY <1>0, <1>5 DEF Deliver
<1>6. CASE KeyStep
  <2>1. KeySave \/ (pc = "key" /\ saved' = saved)
    BY <1>6 DEF KeyStep, Key, NormalKey, FilterKey, NoKey, KeyQuit, KeyPause, KeyFilter,
         KeyDetail, KeyReset, KeySave, KeyMove, KeyResize, FilterCancel, FilterApply,
         FilterBackspace, FilterDelete, FilterInsert, FilterArrow, FilterResize
  <2> QED
    BY <1>0, <2>1
<1> QED
  BY <1>1, <1>2, <1>3, <1>4, <1>5, <1>6 DEF Next

(* The filtered sequence is one, and nothing is an end of it. *)
LEMMA FilteredType ==
  ASSUME NEW S, NEW s \in Seq(S), NEW f
  PROVE  Filtered(s, f) \in Seq(S) /\ Ends(<<>>, Filtered(s, f))
<1>1. PICK n \in Nat : n = Len(s)
  OBVIOUS
<1>2. PICK k : IsKept(k, s, f, n) /\ Filtered(s, f) = k[n]
  BY <1>1, FilteredValue
<1>3. Filtered(s, f) \in Seq(S)
  BY <1>1, <1>2, KeptType
<1>4. PICK r \in Seq(S) : r = Filtered(s, f)
  BY <1>3
<1>5. PICK z : z = <<>> /\ Len(z) = 0
  OBVIOUS
<1>6. Ends(z, r)
  BY <1>5 DEF Ends
<1> QED
  BY <1>4, <1>5, <1>6

(* The ring stays the end of the file. *)
LEMMA ViewStep ==
  ASSUME TypeOK, RingInv, SavedInv, [Next]_vars
  PROVE  /\ pcap' \in Seq(Packets \cup {NoPacket})
         /\ HasOut => Ends(View', pcap')
<1> DEFINE S == Packets \cup {NoPacket}
<1>1. CASE UNCHANGED <<ringVars, pcap>>
  BY <1>1, ViewAfter DEF SavedInv
<1>2. CASE PollEnds \/ PollFails \/ KeyStep \/ Redraw \/ Signal \/ UNCHANGED vars
  <2>1. UNCHANGED <<ringVars, pcap>>
    BY <1>2, LoopIsQuiet DEF Quiet, fileVars, vars
  <2> QED
    BY <1>1, <2>1
<1>3. ASSUME NEW t \in Traffic, NEW tick \in Ticks, Deliver(t, tick), ~g_paused
      PROVE  pcap' \in Seq(S) /\ (HasOut => Ends(View', pcap'))
  <2>1. PICK e \in Packets : e = Packet(arrived + 1, t)
    BY <1>3, NewPacket DEF TypeOK, Deliver
  <2>2. Store(e) /\ pcap' = IF HasOut THEN Append(pcap, e) ELSE pcap
    BY <1>3, <2>1 DEF Deliver, handle_event
  <2>3. View \in Seq(S) /\ Len(View) = pkt_count /\ pcap \in Seq(S) /\ e \in S
    BY ViewAfter DEF SavedInv
  <2>4. View' = Append(IF pkt_count < MAX_PACKETS THEN View ELSE Tail(View), e)
    BY <2>2, ViewAfter
  <2> HIDE DEF S
  <2>5. pcap' \in Seq(S)
    BY <2>2, <2>3
  <2>6. ASSUME HasOut PROVE Ends(View', pcap')
    <3>1. Ends(View, pcap) /\ pcap' = Append(pcap, e)
      BY <2>2, <2>6 DEF SavedInv
    <3>2. CASE pkt_count < MAX_PACKETS
      <4>1. Ends(Append(View, e), Append(pcap, e))
        BY <2>3, <3>1, EndsAppend
      <4> QED
        BY <2>4, <3>1, <3>2, <4>1
    <3>3. CASE ~(pkt_count < MAX_PACKETS)
      <4>1. Len(View) # 0
        BY <2>3, <3>3 DEF TypeOK
      <4>2. View # <<>>
        BY <4>1
      <4>3. Tail(View) \in Seq(S) /\ Ends(Tail(View), pcap)
        BY <2>3, <3>1, <4>2, EndsTail
      <4>4. Ends(Append(Tail(View), e), Append(pcap, e))
        BY <2>3, <4>3, EndsAppend
      <4> QED
        BY <2>4, <3>1, <3>3, <4>4
    <3> QED
      BY <3>2, <3>3
  <2> QED
    BY <2>5, <2>6
<1>4. ASSUME NEW t \in Traffic, NEW tick \in Ticks, Deliver(t, tick), g_paused
      PROVE  UNCHANGED <<ringVars, pcap>>
  BY <1>4 DEF Deliver, handle_event
<1> QED
  BY <1>1, <1>2, <1>3, <1>4 DEF Next

(* Every step keeps SavedInv. *)
LEMMA SavedStep == TypeOK /\ RingInv /\ SavedInv /\ [Next]_vars => SavedInv'
<1> SUFFICES ASSUME TypeOK, RingInv, SavedInv, [Next]_vars PROVE SavedInv'
  OBVIOUS
<1> DEFINE S == Packets \cup {NoPacket}
<1>1. pcap' \in Seq(S) /\ (HasOut => Ends(View', pcap'))
  BY ViewStep
<1>2. View \in Seq(S) /\ pcap \in Seq(S) /\ saved \in Seq(S)
  BY ViewAfter DEF SavedInv
<1> HIDE DEF S
<1>3. CASE saved' = <<>>
  <2>1. saved' \in Seq(S)
    BY <1>3
  <2>2. Ends(saved', Filtered(pcap', g_filter'))
    BY <1>1, <1>3, FilteredType
  <2> QED
    BY <1>1, <1>3, <2>1, <2>2 DEF SavedInv, S
<1>4. CASE UNCHANGED <<pc, saved, g_filter, pcap>>
  BY <1>1, <1>4 DEF SavedInv, S
<1>5. CASE KeySave
  <2>1. saved' = Filtered(View, g_filter) /\ pc' = "draw" /\ g_filter' = g_filter /\ pcap' = pcap
    BY <1>5 DEF KeySave, NormalKey, Key, filterVars, Visible
  <2>2. saved' \in Seq(S)
    BY <1>2, <2>1, FilteredType
  <2>3. ASSUME HasOut PROVE Ends(saved', Filtered(pcap', g_filter'))
    <3>1. Ends(View, pcap)
      BY <2>3 DEF SavedInv
    <3>2. Ends(Filtered(View, g_filter), Filtered(pcap, g_filter))
      BY <1>2, <3>1, SuffixFiltered
    <3> QED
      BY <2>1, <3>2
  <2> QED
    BY <1>1, <2>1, <2>2, <2>3 DEF SavedInv, S
<1> QED
  BY <1>3, <1>4, <1>5, SavedSteps

(* Nothing is captured or saved at first. *)
LEMMA SavedInit == Init => SavedInv
<1> SUFFICES ASSUME Init PROVE SavedInv
  OBVIOUS
<1> DEFINE S == Packets \cup {NoPacket}
<1>1. pcap = <<>> /\ saved = <<>> /\ View = <<>>
  BY DEF Init, View
<1>2. <<>> \in Seq(S) /\ Len(<<>>) = 0
  OBVIOUS
<1>3. Ends(<<>>, <<>>)
  BY <1>2 DEF Ends
<1> HIDE DEF S
<1>4. Ends(<<>>, Filtered(pcap, g_filter))
  BY <1>1, <1>2, FilteredType
<1> QED
  BY <1>1, <1>2, <1>3, <1>4 DEF SavedInv, S

(* save_filtered_pcap, for every ring capacity, every filter and every     *)
(* history of pauses: what key S saves is the end of what -o recorded,     *)
(* filtered, with nothing missing, doubled or out of order.                *)
THEOREM SavesTheRecent == Spec => []SavedIsRecent
<1>1. TypeOK /\ RingInv /\ SavedInv => SavedIsRecent
  <2> SUFFICES ASSUME SavedInv, HasOut PROVE IsSuffix(saved, Filtered(pcap, g_filter))
    BY DEF SavedIsRecent
  <2> DEFINE S == Packets \cup {NoPacket}
  <2>1. saved \in Seq(S) /\ pcap \in Seq(S) /\ Ends(saved, Filtered(pcap, g_filter))
    BY DEF SavedInv
  <2> HIDE DEF S
  <2>2. Filtered(pcap, g_filter) \in Seq(S)
    BY <2>1, FilteredType
  <2> QED
    BY <2>1, <2>2, SuffixEnds
<1> QED
  BY <1>1, SavedInit, SavedStep, TypeCorrect, RingCorrect, PTL DEF Spec

-----------------------------------------------------------------------------
(* The bytes of an address in a sequence of packets.                       *)

(* What the i-th packet of s adds to the bytes of ip. *)
Added(s, ip, i) == IF s[i].src = ip THEN s[i].len ELSE 0
IsSum(f, s, ip, n) == f = [i \in 0..n |-> IF i = 0 THEN 0 ELSE f[i - 1] + Added(s, ip, i)]

(* The function that BytesOf defines recursively exists. *)
LEMMA SumExists ==
  ASSUME NEW s, NEW ip, NEW n \in Nat
  PROVE  \E f : IsSum(f, s, ip, n)
<1> DEFINE T == {m \in Nat : ~\E f : IsSum(f, s, ip, m)}
<1> SUFFICES ASSUME T # {} PROVE FALSE
  OBVIOUS
<1>1. PICK m \in T : \A k \in T : m <= k
  <2>1. T \in SUBSET Nat
    OBVIOUS
  <2> QED
    BY <2>1, Least
<1>2. m # 0
  <2>1. PICK f : f = [i \in 0..0 |-> 0]
    OBVIOUS
  <2>2. IsSum(f, s, ip, 0)
    BY <2>1 DEF IsSum
  <2> QED
    BY <2>2
<1>3. PICK f : IsSum(f, s, ip, m - 1)
  <2>1. m - 1 \in Nat /\ ~(m <= m - 1)
    BY <1>2
  <2> QED
    BY <1>1, <2>1
<1>4. PICK g : g = [i \in 0..m |-> IF i = m THEN f[m - 1] + Added(s, ip, m) ELSE f[i]]
  OBVIOUS
<1>5. IsSum(g, s, ip, m)
  <2>1. \A i \in 0..(m - 1) : f[i] = IF i = 0 THEN 0 ELSE f[i - 1] + Added(s, ip, i)
    BY <1>3 DEF IsSum
  <2>2. \A i \in 0..m : g[i] = IF i = 0 THEN 0 ELSE g[i - 1] + Added(s, ip, i)
    BY <1>2, <1>4, <2>1
  <2> QED
    BY <1>4, <2>2 DEF IsSum
<1> QED
  BY <1>5

(* BytesOf is the sum after the last packet. *)
LEMMA BytesValue ==
  ASSUME NEW s, NEW ip, Len(s) \in Nat
  PROVE  \E f : IsSum(f, s, ip, Len(s)) /\ BytesOf(s, ip) = f[Len(s)]
<1>1. PICK f : f = CHOOSE g : IsSum(g, s, ip, Len(s))
  OBVIOUS
<1>2. IsSum(f, s, ip, Len(s))
  BY <1>1, SumExists
<1>3. BytesOf(s, ip) = f[Len(s)]
  BY <1>1 DEF BytesOf, IsSum, Added
<1> QED
  BY <1>2, <1>3

AddSame(s, s2, ip, n) == \A i \in 1..n : Added(s, ip, i) = Added(s2, ip, i)

(* Sums over sequences that add the same numbers are the same. *)
LEMMA SumsAgree ==
  ASSUME NEW s, NEW s2, NEW ip, NEW n \in Nat, NEW m \in Nat, n <= m,
         NEW f, IsSum(f, s, ip, n), NEW g, IsSum(g, s2, ip, m),
         AddSame(s, s2, ip, n)
  PROVE  f[n] = g[n]
<1> DEFINE T == {i \in 0..n : f[i] # g[i]}
<1> SUFFICES ASSUME T # {} PROVE FALSE
  OBVIOUS
<1> USE DEF AddSame
<1>1. PICK i \in T : \A k \in T : i <= k
  <2>1. T \in SUBSET Nat
    OBVIOUS
  <2> QED
    BY <2>1, Least
<1>2. /\ f[i] = IF i = 0 THEN 0 ELSE f[i - 1] + Added(s, ip, i)
      /\ g[i] = IF i = 0 THEN 0 ELSE g[i - 1] + Added(s2, ip, i)
  <2>1. i \in 0..n /\ i \in 0..m
    OBVIOUS
  <2> QED
    BY <2>1 DEF IsSum
<1>3. i # 0
  BY <1>2
<1>4. i - 1 \in 0..n /\ ~(i <= i - 1) /\ i \in 1..n
  BY <1>3
<1>5. f[i - 1] = g[i - 1]
  BY <1>1, <1>4
<1> QED
  BY <1>2, <1>3, <1>4, <1>5

(* No packets, no bytes. *)
LEMMA EmptyBytes ==
  ASSUME NEW ip
  PROVE  BytesOf(<<>>, ip) = 0
<1>1. PICK s : s = <<>> /\ Len(s) = 0
  BY EmptySeq
<1>2. PICK f : IsSum(f, s, ip, Len(s)) /\ BytesOf(s, ip) = f[Len(s)]
  BY <1>1, BytesValue
<1>3. f[0] = 0
  BY <1>1, <1>2 DEF IsSum
<1> QED
  BY <1>1, <1>2, <1>3

(* One more packet adds its length to the bytes of its source. *)
LEMMA AppendBytes ==
  ASSUME NEW s \in Seq(Packets), NEW e \in Packets, NEW ip
  PROVE  BytesOf(Append(s, e), ip) = BytesOf(s, ip) + (IF e.src = ip THEN e.len ELSE 0)
<1>1. PICK n \in Nat : n = Len(s)
  BY LenProperties
<1>2. PICK r \in Seq(Packets) : r = Append(s, e) /\ Len(r) = n + 1 /\ r[n + 1] = e
                                /\ \A i \in 1..n : r[i] = s[i]
  <2>1. Append(s, e) \in Seq(Packets) /\ Len(Append(s, e)) = n + 1 /\ Append(s, e)[n + 1] = e
        /\ \A i \in 1..n : Append(s, e)[i] = s[i]
    BY <1>1
  <2> QED
    BY <2>1
<1>3. PICK f : IsSum(f, s, ip, n) /\ BytesOf(s, ip) = f[n]
  BY <1>1, BytesValue
<1>4. PICK g : IsSum(g, r, ip, n + 1) /\ BytesOf(r, ip) = g[n + 1]
  <2>1. Len(r) \in Nat
    BY <1>2
  <2> QED
    BY <1>2, <2>1, BytesValue
<1>5. AddSame(s, r, ip, n)
  BY <1>2 DEF Added, AddSame
<1>6. f[n] = g[n]
  <2>1. PICK m \in Nat : m = n + 1 /\ n <= m
    OBVIOUS
  <2>2. IsSum(g, r, ip, m)
    BY <1>4, <2>1, Zenon
  <2> QED
    BY <1>3, <1>5, <2>1, <2>2, SumsAgree
<1>7. g[n + 1] = g[n] + Added(r, ip, n + 1)
  <2>1. n + 1 \in 0..(n + 1) /\ n + 1 # 0 /\ n + 1 - 1 = n
    OBVIOUS
  <2> QED
    BY <1>4, <2>1 DEF IsSum
<1>8. Added(r, ip, n + 1) = IF e.src = ip THEN e.len ELSE 0
  BY <1>2 DEF Added
<1>9. BytesOf(r, ip) = f[n] + (IF e.src = ip THEN e.len ELSE 0)
  BY <1>4, <1>6, <1>7, <1>8, Zenon
<1> QED
  BY <1>2, <1>3, <1>9, Zenon

-----------------------------------------------------------------------------
(* The talker table: a slot belongs to one address of its own.             *)

Talkers == [ip : Addrs \cup {<<0, 0>>}, bytes : Nat, pkts : Nat]

OwnSlots(t) == \A s \in Slots : t[s].ip # <<0, 0>> => Slot(t[s].ip) = s

(* What one packet does to the table. *)
LEMMA CountedSlots ==
  ASSUME NEW t \in [Slots -> Talkers], NEW e, e.src \in Addrs, e.len \in Nat,
         NEW t2, t2 = Counted(t, e)
  PROVE  /\ Slot(e.src) \in Slots
         /\ t2 \in [Slots -> Talkers]
         /\ \A s \in Slots : s # Slot(e.src) => t2[s] = t[s]
         /\ t[Slot(e.src)].ip \notin {<<0, 0>>, e.src} => t2[Slot(e.src)] = t[Slot(e.src)]
         /\ t[Slot(e.src)].ip \in {<<0, 0>>, e.src} =>
              /\ t2[Slot(e.src)].ip = e.src
              /\ t2[Slot(e.src)].bytes = t[Slot(e.src)].bytes + e.len
<1>1. PICK s0 \in Slots : s0 = Slot(e.src)
  BY DEF Slot, Slots
<1>2. t[s0] \in Talkers
  OBVIOUS
<1>3. PICK new \in Talkers : /\ new = [ip |-> e.src, bytes |-> t[s0].bytes + e.len, pkts |-> t[s0].pkts + 1]
                             /\ new.ip = e.src /\ new.bytes = t[s0].bytes + e.len
  <2>1. [ip |-> e.src, bytes |-> t[s0].bytes + e.len, pkts |-> t[s0].pkts + 1] \in Talkers
    BY <1>2 DEF Talkers
  <2> QED
    BY <2>1
<1>4. t2 = IF t[s0].ip \in {<<0, 0>>, e.src} THEN [t EXCEPT ![s0] = new] ELSE t
  BY <1>1, <1>3 DEF Counted
<1>5. CASE t[s0].ip \in {<<0, 0>>, e.src}
  <2>1. t2 = [t EXCEPT ![s0] = new]
    BY <1>4, <1>5
  <2> QED
    BY <1>1, <1>3, <1>5, <2>1
<1>6. CASE t[s0].ip \notin {<<0, 0>>, e.src}
  BY <1>1, <1>4, <1>6
<1> QED
  BY <1>5, <1>6

(* A packet takes only the slot of its own source. *)
LEMMA OwnSlotsKept ==
  ASSUME NEW t \in [Slots -> Talkers], NEW e, e.src \in Addrs, e.len \in Nat, OwnSlots(t)
  PROVE  OwnSlots(Counted(t, e))
<1>1. PICK t2 : t2 = Counted(t, e)
  OBVIOUS
<1>2. ASSUME NEW s \in Slots, t2[s].ip # <<0, 0>> PROVE Slot(t2[s].ip) = s
  <2>1. CASE t2[s] = t[s]
    BY <1>2, <2>1 DEF OwnSlots
  <2>2. CASE s = Slot(e.src) /\ t2[s].ip = e.src
    BY <2>2
  <2> QED
    BY <1>1, <2>1, <2>2, CountedSlots
<1> QED
  BY <1>1, <1>2 DEF OwnSlots

(* A slot s with the talker k, when cap was captured: slot 0 is left to    *)
(* the address 0.0.0.0; the slot of no address has counted nothing of the  *)
(* addresses that it is for; the slot of an address has counted all of it. *)
Owned(k, s, cap) ==
  /\ s = 0 => k.ip = <<0, 0>>
  /\ s # 0 /\ k.ip = <<0, 0>> =>
       k.bytes = 0 /\ \A a \in Addrs : Slot(a) = s => BytesOf(cap, a) = 0
  /\ k.ip # <<0, 0>> => k.bytes = BytesOf(cap, k.ip)

(* The slots 0.0.0.0/8 would use: an ARP record has the address 0.0.0.0    *)
(* and no IPv4 packet has a source in that network.                        *)
NoZeroNet == \A t \in Traffic : Slot(t.src) = 0 => t.src = <<0, 0>>

(* One packet, counted in the table and appended to the file. *)
LEMMA OwnedKept ==
  ASSUME NEW t \in [Slots -> Talkers], NEW cap \in Seq(Packets), NEW e \in Packets,
         e.src \in Addrs, e.len \in Nat, Slot(e.src) = 0 => e.src = <<0, 0>>,
         OwnSlots(t), NEW s \in Slots, Owned(t[s], s, cap)
  PROVE  Owned(Counted(t, e)[s], s, Append(cap, e))
<1>1. PICK t2 : t2 = Counted(t, e)
  OBVIOUS
<1>2. PICK cap2 : cap2 = Append(cap, e)
  OBVIOUS
<1>3. \A a : BytesOf(cap2, a) = BytesOf(cap, a) + (IF e.src = a THEN e.len ELSE 0)
  BY <1>2, AppendBytes
<1>4. t[s] \in Talkers /\ t[s].bytes \in Nat
  BY DEF Talkers
<1>5. /\ s # Slot(e.src) => t2[s] = t[s]
      /\ s = Slot(e.src) /\ t[s].ip \notin {<<0, 0>>, e.src} => t2[s] = t[s]
      /\ s = Slot(e.src) /\ t[s].ip \in {<<0, 0>>, e.src} =>
            t2[s].ip = e.src /\ t2[s].bytes = t[s].bytes + e.len
  BY <1>1, CountedSlots
<1>6. CASE s # Slot(e.src)
  <2>1. t2[s] = t[s]
    BY <1>5, <1>6
  <2>2. \A a \in Addrs : Slot(a) = s => BytesOf(cap2, a) = BytesOf(cap, a) + 0
    BY <1>3, <1>6
  <2>3. t[s].ip # <<0, 0>> => BytesOf(cap2, t[s].ip) = BytesOf(cap, t[s].ip) + 0
    BY <1>3, <1>6 DEF OwnSlots
  <2>4. Owned(t2[s], s, cap2)
    BY <1>4, <2>1, <2>2, <2>3 DEF Owned
  <2> QED
    BY <1>1, <1>2, <2>4
<1>7. CASE s = Slot(e.src) /\ t[s].ip \notin {<<0, 0>>, e.src}
  <2>1. t2[s] = t[s] /\ BytesOf(cap2, t[s].ip) = BytesOf(cap, t[s].ip) + 0
    BY <1>3, <1>5, <1>7
  <2>2. t[s].bytes = BytesOf(cap, t[s].ip) /\ s # 0
    BY <1>7 DEF Owned
  <2>3. t[s].bytes = BytesOf(cap2, t[s].ip)
    BY <1>4, <2>1, <2>2
  <2>4. Owned(t2[s], s, cap2)
    BY <1>7, <2>1, <2>2, <2>3 DEF Owned
  <2> QED
    BY <1>1, <1>2, <2>4
<1>8. CASE s = Slot(e.src) /\ t[s].ip \in {<<0, 0>>, e.src}
  <2>1. t2[s].ip = e.src /\ t2[s].bytes = t[s].bytes + e.len
    BY <1>5, <1>8
  <2>2. BytesOf(cap2, e.src) = BytesOf(cap, e.src) + e.len
    BY <1>3
  <2>3. CASE s = 0
    <3>1. e.src = <<0, 0>>
      BY <1>8, <2>3
    <3>2. Owned(t2[s], s, cap2)
      BY <2>1, <2>3, <3>1 DEF Owned
    <3> QED
      BY <1>1, <1>2, <3>2
  <2>4. CASE s # 0
    <3>1. e.src # <<0, 0>>
      BY <1>8, <2>4 DEF Slot
    <3>2. t[s].bytes = BytesOf(cap, e.src)
      BY <1>8, <2>4, <3>1 DEF Owned
    <3>3. Owned(t2[s], s, cap2)
      BY <2>1, <2>2, <2>4, <3>1, <3>2 DEF Owned
    <3> QED
      BY <1>1, <1>2, <3>3
  <2> QED
    BY <2>3, <2>4
<1> QED
  BY <1>6, <1>7, <1>8

(* The invariant behind OwnerCountsAll. *)
OwnersInv ==
  /\ pcap \in Seq(Packets)
  /\ OwnSlots(g_talkers)
  /\ HasOut => \A s \in Slots : Owned(g_talkers[s], s, pcap)

(* The table of a state of the right type. *)
LEMMA TalkersType == TypeOK => g_talkers \in [Slots -> Talkers]
BY DEF TypeOK, Talkers

(* Every step keeps every talker in its own slot. *)
LEMMA SlotsStep ==
  TypeOK /\ OwnSlots(g_talkers) /\ [Next]_vars => OwnSlots(g_talkers')
<1> SUFFICES ASSUME TypeOK, OwnSlots(g_talkers), [Next]_vars PROVE OwnSlots(g_talkers')
  OBVIOUS
<1>1. CASE g_talkers' = g_talkers
  BY <1>1
<1>2. CASE PollEnds \/ PollFails \/ KeyStep \/ Redraw \/ Signal \/ UNCHANGED vars
  <2>1. g_talkers' = g_talkers
    BY <1>2, LoopIsQuiet DEF Quiet, statVars, vars
  <2> QED
    BY <1>1, <2>1
<1>3. ASSUME NEW t \in Traffic, NEW tick \in Ticks, Deliver(t, tick) PROVE OwnSlots(g_talkers')
  <2>1. PICK e : e = Packet(arrived + 1, t)
    OBVIOUS
  <2>2. e.src \in Addrs /\ e.len \in Nat
    <3>1. arrived \in 0..MaxArrivals /\ arrived < MaxArrivals
      BY <1>3 DEF TypeOK, Deliver
    <3> QED
      BY <2>1, <3>1, NewPacket
  <2>3. g_talkers' = g_talkers \/ g_talkers' = Counted(g_talkers, e)
    BY <1>3, <2>1 DEF Deliver, handle_event, update_stats, statVars
  <2> QED
    BY <1>1, <2>2, <2>3, OwnSlotsKept, TalkersType
<1> QED
  BY <1>2, <1>3 DEF Next

(* Every step keeps OwnersInv. *)
LEMMA OwnersStep ==
  ASSUME NoZeroNet
  PROVE  TypeOK /\ OwnersInv /\ [Next]_vars => OwnersInv'
<1> SUFFICES ASSUME TypeOK, OwnersInv, [Next]_vars PROVE OwnersInv'
  OBVIOUS
<1>1. OwnSlots(g_talkers')
  BY SlotsStep DEF OwnersInv
<1>2. CASE UNCHANGED <<g_talkers, pcap>>
  BY <1>2 DEF OwnersInv
<1>3. CASE PollEnds \/ PollFails \/ KeyStep \/ Redraw \/ Signal \/ UNCHANGED vars
  <2>1. UNCHANGED <<g_talkers, pcap>>
    BY <1>3, LoopIsQuiet DEF Quiet, statVars, fileVars, vars
  <2> QED
    BY <1>2, <2>1
<1>4. ASSUME NEW t \in Traffic, NEW tick \in Ticks, Deliver(t, tick) PROVE OwnersInv'
  <2>1. PICK e : e = Packet(arrived + 1, t) /\ e.src = t.src
    <3>1. Packet(arrived + 1, t).src = t.src
      BY DEF Packet
    <3> QED
      BY <3>1
  <2>2. e \in Packets /\ e.src \in Addrs /\ e.len \in Nat
    <3>1. arrived \in 0..MaxArrivals /\ arrived < MaxArrivals
      BY <1>4 DEF TypeOK, Deliver
    <3> QED
      BY <2>1, <3>1, NewPacket
  <2>3. CASE g_paused
    <3>1. UNCHANGED <<g_talkers, pcap>>
      BY <1>4, <2>3 DEF Deliver, handle_event, statVars
    <3> QED
      BY <1>2, <3>1
  <2>4. CASE ~g_paused
    <3>1. g_talkers' = Counted(g_talkers, e) /\ pcap' = IF HasOut THEN Append(pcap, e) ELSE pcap
      BY <1>4, <2>1, <2>4 DEF Deliver, handle_event, update_stats
    <3>2. pcap' \in Seq(Packets)
      BY <2>2, <3>1 DEF OwnersInv
    <3>3. ASSUME HasOut, NEW s \in Slots PROVE Owned(g_talkers'[s], s, pcap')
      <4>1. Slot(e.src) = 0 => e.src = <<0, 0>>
        BY <2>1 DEF NoZeroNet
      <4>2. Owned(g_talkers[s], s, pcap) /\ pcap \in Seq(Packets) /\ OwnSlots(g_talkers)
        BY <3>3 DEF OwnersInv
      <4>3. Owned(Counted(g_talkers, e)[s], s, Append(pcap, e))
        BY <2>2, <4>1, <4>2, OwnedKept, TalkersType
      <4> QED
        BY <3>1, <3>3, <4>3, Zenon
    <3> QED
      BY <1>1, <3>2, <3>3 DEF OwnersInv
  <2> QED
    BY <2>3, <2>4 DEF TypeOK
<1> QED
  BY <1>3, <1>4 DEF Next

(* Every slot is free and the file is empty at first. *)
LEMMA OwnersInit == Init => OwnersInv
<1> SUFFICES ASSUME Init PROVE OwnersInv
  OBVIOUS
<1>1. g_talkers = [s \in Slots |-> NoTalker] /\ pcap = <<>>
  BY DEF Init
<1>2. \A s \in Slots : g_talkers[s].ip = <<0, 0>> /\ g_talkers[s].bytes = 0
  BY <1>1 DEF NoTalker
<1>3. pcap \in Seq(Packets)
  BY <1>1
<1>4. \A a \in Addrs : BytesOf(pcap, a) = 0
  BY <1>1, EmptyBytes
<1> QED
  BY <1>2, <1>3, <1>4 DEF OwnersInv, OwnSlots, Owned

(* update_stats, for every traffic in which no source but 0.0.0.0 has the  *)
(* first octet 0: the bytes counted for the owner of a slot are all the    *)
(* bytes captured from it.  Without that condition it does not hold: the   *)
(* records of ARP packets have the address 0.0.0.0 and count in slot 0,    *)
(* whose owner stays 0, so a source 0.x.y.z would inherit their bytes.     *)
THEOREM OwnersCountAll ==
  ASSUME NoZeroNet
  PROVE  Spec => []OwnerCountsAll
<1>1. Init => TypeOK /\ RingInv /\ OwnersInv
  BY InitTypes, OwnersInit
<1>2. TypeOK /\ OwnersInv /\ [Next]_vars => OwnersInv'
  BY OwnersStep
<1>3. OwnersInv => OwnerCountsAll
  BY DEF OwnersInv, Owned, OwnerCountsAll
<1> QED
  BY <1>1, <1>2, <1>3, TypeCorrect, PTL DEF Spec

-----------------------------------------------------------------------------
(* The top talkers: what the insertion of the first n slots has made.      *)

Rows == 1..MAX_TALKERS

Descending(top) == \A j, k \in Rows : j < k => top[j].bytes >= top[k].bytes

(* An entry is empty or the talker of one of the first n slots. *)
Entry(x, t, n) == x = NoTalker \/ \E s \in Slots : s < n /\ x = t[s] /\ t[s].ip # <<0, 0>>

Distinct(top) == \A j, k \in Rows : j # k /\ top[j].ip = top[k].ip => top[j].ip = <<0, 0>>

(* The talker x is there, or every entry has at least as many bytes. *)
Placed(top, x) ==
  \/ x.ip = <<0, 0>>
  \/ \E j \in Rows : top[j] = x
  \/ \A j \in Rows : top[j].bytes >= x.bytes

Ranking(top, t, n) ==
  /\ top \in [Rows -> Talkers]
  /\ Descending(top)
  /\ \A j \in Rows : Entry(top[j], t, n)
  /\ Distinct(top)
  /\ \A s \in Slots : s < n => Placed(top, t[s])

(* x goes before row p and the last entry goes. *)
Shifted(top, x, p) ==
  [k \in Rows |-> IF k < p THEN top[k] ELSE IF k = p THEN x ELSE top[k - 1]]

(* What one insertion does: nothing, or a shift from the first smaller entry. *)
LEMMA RankedValue ==
  ASSUME NEW top, NEW x
  PROVE  \/ /\ Ranked(top, x) = top
            /\ x.ip = <<0, 0>> \/ \A j \in Rows : ~(x.bytes > top[j].bytes)
         \/ /\ x.ip # <<0, 0>>
            /\ \E p \in Rows : /\ Ranked(top, x) = Shifted(top, x, p)
                               /\ x.bytes > top[p].bytes
                               /\ \A k \in Rows : k < p => ~(x.bytes > top[k].bytes)
<1> DEFINE J == {j \in 1..MAX_TALKERS : x.bytes > top[j].bytes}
<1>1. CASE x.ip = <<0, 0>> \/ J = {}
  <2>1. Ranked(top, x) = top
    BY <1>1 DEF Ranked
  <2> QED
    BY <1>1, <2>1 DEF Rows
<1>2. CASE ~(x.ip = <<0, 0>> \/ J = {})
  <2>1. PICK p : p = CHOOSE j \in J : \A k \in J : j <= k
    OBVIOUS
  <2>2. \E j \in J : \A k \in J : j <= k
    <3>1. J \in SUBSET Nat
      OBVIOUS
    <3> QED
      BY <1>2, <3>1, Least
  <2>3. p \in J /\ \A k \in J : p <= k
    BY <2>1, <2>2
  <2>4. Ranked(top, x) = Shifted(top, x, p)
    BY <1>2, <2>1 DEF Ranked, Shifted, Rows
  <2>5. p \in Rows /\ x.bytes > top[p].bytes /\ \A k \in Rows : k < p => ~(x.bytes > top[k].bytes)
    BY <2>3 DEF Rows
  <2> QED
    BY <1>2, <2>4, <2>5
<1> QED
  BY <1>1, <1>2

(* The shift keeps the ranking: order, origin, distinctness, and nobody lost unfairly. *)
LEMMA ShiftedRanking ==
  ASSUME NEW t \in [Slots -> Talkers], OwnSlots(t), NEW n \in Slots, NEW top, Ranking(top, t, n),
         t[n].ip # <<0, 0>>, NEW p \in Rows, t[n].bytes > top[p].bytes,
         \A k \in Rows : k < p => ~(t[n].bytes > top[k].bytes)
  PROVE  Ranking(Shifted(top, t[n], p), t, n + 1)
<1>1. PICK x \in Talkers : x = t[n] /\ x.bytes \in Nat
  <2>1. t[n] \in Talkers /\ t[n].bytes \in Nat
    BY DEF Talkers
  <2> QED
    BY <2>1
<1>2. PICK new : new = Shifted(top, x, p)
  OBVIOUS
<1>3. n \in Nat /\ MAX_TALKERS \in Nat /\ p \in Nat /\ \A s \in Slots : s \in Nat
  BY DEF Slots, Rows
<1>4. /\ top \in [Rows -> Talkers] /\ Descending(top) /\ Distinct(top)
      /\ \A j \in Rows : Entry(top[j], t, n)
      /\ \A s \in Slots : s < n => Placed(top, t[s])
  BY DEF Ranking
<1>5. \A k \in Rows : top[k] \in Talkers /\ top[k].bytes \in Nat
  BY <1>4 DEF Talkers
<1>6. \A k \in Rows : k > p => k - 1 \in Rows
  BY DEF Rows
<1>7. \A k \in Rows : new[k] = IF k < p THEN top[k] ELSE IF k = p THEN x ELSE top[k - 1]
  BY <1>2 DEF Shifted
<1>8. new \in [Rows -> Talkers]
  <2>1. \A k \in Rows : new[k] \in Talkers
    BY <1>3, <1>5, <1>6, <1>7 DEF Rows
  <2> QED
    BY <1>2, <2>1 DEF Shifted
<1>9. \A k \in Rows : /\ k < p => top[k].bytes >= x.bytes
                      /\ k >= p => x.bytes > top[k].bytes
  <2> SUFFICES ASSUME NEW k \in Rows
               PROVE  (k < p => top[k].bytes >= x.bytes) /\ (k >= p => x.bytes > top[k].bytes)
    OBVIOUS
  <2>1. k < p => top[k].bytes >= x.bytes
    BY <1>1, <1>5
  <2>2. top[p].bytes \in Nat /\ top[k].bytes \in Nat
    BY <1>5
  <2>3. k > p => top[p].bytes >= top[k].bytes
    BY <1>3, <1>4 DEF Descending
  <2>4. k = p => x.bytes > top[k].bytes
    BY <1>1
  <2>5. k > p => x.bytes > top[k].bytes
    BY <1>1, <2>2, <2>3
  <2> QED
    BY <1>3, <2>1, <2>4, <2>5 DEF Rows
<1>10. Descending(new)
  <2> SUFFICES ASSUME NEW j \in Rows, NEW k \in Rows, j < k PROVE new[j].bytes >= new[k].bytes
    BY DEF Descending
  <2>0. j \in Nat /\ k \in Nat
    BY DEF Rows
  <2>1. CASE k < p
    BY <1>3, <1>4, <1>7, <2>0, <2>1 DEF Descending
  <2>2. CASE k = p
    BY <1>3, <1>7, <1>9, <2>0, <2>2
  <2>3. CASE k > p
    <3>1. k - 1 \in Rows /\ new[k] = top[k - 1] /\ k - 1 >= p
      BY <1>3, <1>6, <1>7, <2>0, <2>3
    <3>2. CASE j < p
      <4>1. new[j] = top[j] /\ j < k - 1
        BY <1>3, <1>7, <2>0, <2>3, <3>2
      <4> QED
        BY <1>4, <3>1, <4>1 DEF Descending
    <3>3. CASE j = p
      <4>1. x.bytes > top[k - 1].bytes /\ top[k - 1].bytes \in Nat
        BY <1>5, <1>9, <3>1
      <4>2. new[j] = x
        BY <1>3, <1>7, <3>3
      <4> QED
        BY <1>1, <3>1, <4>1, <4>2
    <3>4. CASE j > p
      <4>1. j - 1 \in Rows /\ new[j] = top[j - 1] /\ j - 1 < k - 1
        BY <1>3, <1>6, <1>7, <2>0, <3>4
      <4> QED
        BY <1>4, <3>1, <4>1 DEF Descending
    <3> QED
      BY <1>3, <2>0, <3>2, <3>3, <3>4
  <2> QED
    BY <1>3, <2>0, <2>1, <2>2, <2>3
<1>11. \A k \in Rows : Entry(new[k], t, n + 1)
  <2> SUFFICES ASSUME NEW k \in Rows PROVE Entry(new[k], t, n + 1)
    OBVIOUS
  <2>1. CASE new[k] = x
    <3>1. n < n + 1 /\ x = t[n] /\ t[n].ip # <<0, 0>>
      BY <1>1, <1>3
    <3> QED
      BY <2>1, <3>1 DEF Entry
  <2>2. ASSUME NEW j \in Rows, new[k] = top[j] PROVE Entry(new[k], t, n + 1)
    <3>1. Entry(top[j], t, n)
      BY <1>4
    <3>2. \A s \in Slots : s < n => s < n + 1
      BY DEF Slots
    <3> QED
      BY <2>2, <3>1, <3>2 DEF Entry
  <2> QED
    BY <1>3, <1>6, <1>7, <2>1, <2>2 DEF Rows
<1>12. Distinct(new)
  <2>1. ASSUME NEW k \in Rows PROVE top[k].ip # x.ip
    <3>1. Entry(top[k], t, n)
      BY <1>4
    <3>2. CASE top[k] = NoTalker
      <4>1. top[k].ip = <<0, 0>>
        BY <3>2 DEF NoTalker
      <4> QED
        BY <1>1, <4>1
    <3>3. ASSUME NEW s \in Slots, s < n, top[k] = t[s], t[s].ip # <<0, 0>> PROVE top[k].ip # x.ip
      <4>1. Slot(t[s].ip) = s /\ Slot(x.ip) = n
        BY <1>1, <3>3 DEF OwnSlots
      <4>2. s # n
        BY <1>3, <3>3
      <4> QED
        BY <3>3, <4>1, <4>2
    <3> QED
      BY <3>1, <3>2, <3>3 DEF Entry
  <2> SUFFICES ASSUME NEW j \in Rows, NEW k \in Rows, j # k, new[j].ip = new[k].ip
               PROVE  new[j].ip = <<0, 0>>
    BY DEF Distinct
  <2>0. j \in Nat /\ k \in Nat
    BY DEF Rows
  <2>2. \A i \in Rows : i # p => \E i2 \in Rows : new[i] = top[i2] /\ i2 = IF i < p THEN i ELSE i - 1
    BY <1>3, <1>6, <1>7 DEF Rows
  <2>3. j # p
    <3> SUFFICES ASSUME j = p PROVE FALSE
      OBVIOUS
    <3>1. new[j] = x
      BY <1>3, <1>7
    <3>2. PICK k2 \in Rows : new[k] = top[k2]
      BY <2>2
    <3> QED
      BY <2>1, <3>1, <3>2
  <2>4. k # p
    <3> SUFFICES ASSUME k = p PROVE FALSE
      OBVIOUS
    <3>1. new[k] = x
      BY <1>3, <1>7
    <3>2. PICK j2 \in Rows : new[j] = top[j2]
      BY <2>2
    <3> QED
      BY <2>1, <3>1, <3>2
  <2>5. PICK j2 \in Rows : new[j] = top[j2] /\ j2 = IF j < p THEN j ELSE j - 1
    BY <2>2, <2>3
  <2>6. PICK k2 \in Rows : new[k] = top[k2] /\ k2 = IF k < p THEN k ELSE k - 1
    BY <2>2, <2>4
  <2>7. j2 # k2
    BY <1>3, <2>0, <2>3, <2>4, <2>5, <2>6
  <2> QED
    BY <1>4, <2>5, <2>6, <2>7 DEF Distinct
<1>13. ASSUME NEW s \in Slots, s < n + 1 PROVE Placed(new, t[s])
  <2>1. CASE s = n
    <3>1. new[p] = t[s]
      BY <1>1, <1>3, <1>7, <2>1
    <3> QED
      BY <3>1 DEF Placed
  <2>2. CASE s # n
    <3>1. Placed(top, t[s])
      BY <1>3, <1>4, <1>13, <2>2
    <3>2. t[s] \in Talkers /\ t[s].bytes \in Nat
      BY DEF Talkers
    <3>3. ASSUME \A j \in Rows : top[j].bytes >= t[s].bytes PROVE Placed(new, t[s])
      <4>1. ASSUME NEW k \in Rows PROVE new[k].bytes >= t[s].bytes
        <5>1. CASE k < p
          BY <1>7, <3>3, <5>1
        <5>2. CASE k = p
          <6>1. new[k] = x /\ x.bytes > top[k].bytes /\ top[k].bytes >= t[s].bytes /\ top[k].bytes \in Nat
            BY <1>1, <1>3, <1>5, <1>7, <3>3, <5>2
          <6> QED
            BY <1>1, <3>2, <6>1
        <5>3. CASE k > p
          <6>1. k - 1 \in Rows /\ new[k] = top[k - 1]
            BY <1>3, <1>6, <1>7, <5>3 DEF Rows
          <6> QED
            BY <3>3, <6>1
        <5> QED
          BY <1>3, <5>1, <5>2, <5>3 DEF Rows
      <4> QED
        BY <4>1 DEF Placed
    <3>4. ASSUME NEW j \in Rows, top[j] = t[s] PROVE Placed(new, t[s])
      <4>1. CASE j < p
        <5>1. new[j] = t[s]
          BY <1>7, <3>4, <4>1
        <5> QED
          BY <5>1 DEF Placed
      <4>2. CASE j >= p /\ j < MAX_TALKERS
        <5>1. j + 1 \in Rows /\ j + 1 > p /\ j + 1 - 1 = j
          BY <1>3, <4>2 DEF Rows
        <5>2. PICK i \in Rows : i = j + 1 /\ ~(i < p) /\ i # p /\ i - 1 = j
          BY <1>3, <5>1 DEF Rows
        <5>3. new[i] = t[s]
          BY <1>7, <3>4, <5>2
        <5> QED
          BY <5>3 DEF Placed
      <4>3. CASE j = MAX_TALKERS
        <5>1. ASSUME NEW k \in Rows PROVE top[k].bytes >= t[s].bytes
          <6>1. k < j \/ k = j
            BY <1>3, <4>3 DEF Rows
          <6>2. k < j => top[k].bytes >= top[j].bytes
            BY <1>4 DEF Descending
          <6> QED
            BY <3>2, <3>4, <6>1, <6>2
        <5> QED
          BY <3>3, <5>1
      <4> QED
        BY <1>3, <4>1, <4>2, <4>3 DEF Rows
    <3>5. CASE t[s].ip = <<0, 0>>
      BY <3>5 DEF Placed
    <3> QED
      BY <3>1, <3>3, <3>4, <3>5 DEF Placed
  <2> QED
    BY <2>1, <2>2
<1> QED
  BY <1>1, <1>2, <1>8, <1>10, <1>11, <1>12, <1>13 DEF Ranking

(* One more slot is inserted. *)
LEMMA RankedRanking ==
  ASSUME NEW t \in [Slots -> Talkers], OwnSlots(t), NEW n \in Slots, NEW top, Ranking(top, t, n)
  PROVE  Ranking(Ranked(top, t[n]), t, n + 1)
<1>1. PICK x : x = t[n] /\ x.bytes \in Nat
  <2>1. t[n].bytes \in Nat
    BY DEF Talkers
  <2> QED
    BY <2>1
<1>2. n \in Nat /\ \A s \in Slots : s \in Nat
  BY DEF Slots
<1>3. CASE /\ Ranked(top, x) = top
           /\ x.ip = <<0, 0>> \/ \A j \in Rows : ~(x.bytes > top[j].bytes)
  <2>1. top \in [Rows -> Talkers] /\ Descending(top) /\ Distinct(top)
    BY DEF Ranking
  <2>2. \A j \in Rows : top[j].bytes \in Nat
    BY <2>1 DEF Talkers
  <2>3. Placed(top, x)
    <3>1. CASE x.ip = <<0, 0>>
      BY <3>1 DEF Placed
    <3>2. CASE \A j \in Rows : ~(x.bytes > top[j].bytes)
      BY <1>1, <2>2, <3>2 DEF Placed
    <3> QED
      BY <1>3, <3>1, <3>2
  <2>4. ASSUME NEW s \in Slots, s < n + 1 PROVE Placed(top, t[s])
    <3>1. s < n \/ s = n
      BY <1>2, <2>4
    <3> QED
      BY <1>1, <2>3, <3>1 DEF Ranking
  <2>5. ASSUME NEW j \in Rows PROVE Entry(top[j], t, n + 1)
    <3>1. Entry(top[j], t, n)
      BY DEF Ranking
    <3>2. \A s \in Slots : s < n => s < n + 1
      BY DEF Slots
    <3> QED
      BY <3>1, <3>2 DEF Entry
  <2>6. Ranking(top, t, n + 1)
    BY <2>1, <2>4, <2>5 DEF Ranking
  <2> QED
    BY <1>1, <1>3, <2>6
<1>4. ASSUME x.ip # <<0, 0>>, NEW p \in Rows, Ranked(top, x) = Shifted(top, x, p),
             x.bytes > top[p].bytes, \A k \in Rows : k < p => ~(x.bytes > top[k].bytes)
      PROVE  Ranking(Ranked(top, t[n]), t, n + 1)
  BY <1>1, <1>4, ShiftedRanking
<1> QED
  BY <1>3, <1>4, RankedValue

(* The tables after 0, 1, ..., n slots. *)
IsTop(f, t, n) ==
  f = [s \in 0..n |-> IF s = 0 THEN [j \in 1..MAX_TALKERS |-> NoTalker]
                      ELSE Ranked(f[s - 1], t[s - 1])]

(* The function that TopTalkers defines recursively exists. *)
LEMMA TopExists ==
  ASSUME NEW t, NEW n \in Nat
  PROVE  \E f : IsTop(f, t, n)
<1> DEFINE T == {m \in Nat : ~\E f : IsTop(f, t, m)}
<1> SUFFICES ASSUME T # {} PROVE FALSE
  OBVIOUS
<1>1. PICK m \in T : \A k \in T : m <= k
  <2>1. T \in SUBSET Nat
    OBVIOUS
  <2> QED
    BY <2>1, Least
<1>2. m # 0
  <2>1. PICK f : f = [i \in 0..0 |-> [j \in 1..MAX_TALKERS |-> NoTalker]]
    OBVIOUS
  <2>2. IsTop(f, t, 0)
    BY <2>1 DEF IsTop
  <2> QED
    BY <2>2
<1>3. PICK f : IsTop(f, t, m - 1)
  <2>1. m - 1 \in Nat /\ ~(m <= m - 1)
    BY <1>2
  <2> QED
    BY <1>1, <2>1
<1>4. PICK g : g = [i \in 0..m |-> IF i = m THEN Ranked(f[m - 1], t[m - 1]) ELSE f[i]]
  OBVIOUS
<1>5. IsTop(g, t, m)
  <2>1. \A i \in 0..(m - 1) : f[i] = IF i = 0 THEN [j \in 1..MAX_TALKERS |-> NoTalker]
                                     ELSE Ranked(f[i - 1], t[i - 1])
    BY <1>3 DEF IsTop
  <2>2. \A i \in 0..m : g[i] = IF i = 0 THEN [j \in 1..MAX_TALKERS |-> NoTalker]
                               ELSE Ranked(g[i - 1], t[i - 1])
    BY <1>2, <1>4, <2>1
  <2> QED
    BY <1>4, <2>2 DEF IsTop
<1> QED
  BY <1>5

(* TopTalkers is the table after the last slot. *)
LEMMA TopValue ==
  ASSUME NEW t
  PROVE  \E f : IsTop(f, t, NSlots) /\ TopTalkers(t) = f[NSlots]
<1>1. PICK f : f = CHOOSE g : IsTop(g, t, NSlots)
  OBVIOUS
<1>2. IsTop(f, t, NSlots)
  BY <1>1, TopExists
<1>3. TopTalkers(t) = f[NSlots]
  BY <1>1 DEF TopTalkers, IsTop
<1> QED
  BY <1>2, <1>3

(* All slots are inserted: by least counterexample over the slots. *)
LEMMA TopIsGood ==
  ASSUME NEW t \in [Slots -> Talkers], OwnSlots(t)
  PROVE  Ranking(TopTalkers(t), t, NSlots)
<1>1. PICK f : IsTop(f, t, NSlots) /\ TopTalkers(t) = f[NSlots]
  BY TopValue
<1> DEFINE T == {m \in 0..NSlots : ~Ranking(f[m], t, m)}
<1>2. T = {}
  <2> SUFFICES ASSUME T # {} PROVE FALSE
    OBVIOUS
  <2>1. PICK m \in T : \A k \in T : m <= k
    <3>1. T \in SUBSET Nat
      OBVIOUS
    <3> QED
      BY <3>1, Least
  <2>2. m \in 0..NSlots /\ ~Ranking(f[m], t, m)
    OBVIOUS
  <2>3. f[m] = IF m = 0 THEN [j \in 1..MAX_TALKERS |-> NoTalker] ELSE Ranked(f[m - 1], t[m - 1])
    BY <1>1, <2>2 DEF IsTop
  <2>4. CASE m = 0
    <3>1. PICK top : top = f[m] /\ top = [j \in Rows |-> NoTalker]
      BY <2>3, <2>4 DEF Rows
    <3>2. NoTalker \in Talkers /\ NoTalker.ip = <<0, 0>> /\ NoTalker.bytes = 0
      BY DEF NoTalker, Talkers
    <3>3. top \in [Rows -> Talkers] /\ \A j \in Rows : top[j] = NoTalker
      BY <3>1, <3>2
    <3>4. Descending(top) /\ Distinct(top)
      BY <3>2, <3>3 DEF Descending, Distinct
    <3>5. \A j \in Rows : Entry(top[j], t, 0)
      BY <3>3 DEF Entry
    <3>6. \A s \in Slots : ~(s < 0)
      BY DEF Slots
    <3>7. Ranking(top, t, 0)
      BY <3>3, <3>4, <3>5, <3>6 DEF Ranking
    <3> QED
      BY <2>2, <2>4, <3>1, <3>7
  <2>5. CASE m # 0
    <3>1. PICK n \in Slots : n = m - 1 /\ n + 1 = m /\ ~(m <= n) /\ n \in 0..NSlots
      BY <2>2, <2>5 DEF Slots
    <3>2. Ranking(f[n], t, n)
      BY <2>1, <3>1
    <3>3. Ranking(Ranked(f[n], t[n]), t, n + 1)
      BY <3>2, RankedRanking
    <3>4. f[m] = Ranked(f[n], t[n])
      BY <2>3, <2>5, <3>1
    <3> QED
      BY <2>2, <3>1, <3>3, <3>4, Zenon
  <2> QED
    BY <2>4, <2>5
<1>3. NSlots \in 0..NSlots
  OBVIOUS
<1> QED
  BY <1>1, <1>2, <1>3

(* The ranking of all slots is what TopRanking demands. *)
LEMMA TopRanks ==
  ASSUME NEW t \in [Slots -> Talkers], OwnSlots(t)
  PROVE  TopIsRanking(TopTalkers(t), t)
<1>1. PICK top : top = TopTalkers(t)
  OBVIOUS
<1>2. Ranking(top, t, NSlots)
  BY <1>1, TopIsGood
<1>3. ASSUME NEW j \in Rows, NEW k \in Rows, j < k
      PROVE  top[j].bytes >= top[k].bytes /\ (top[j].ip = top[k].ip => top[k] = NoTalker)
  <2>1. top[j].bytes >= top[k].bytes
    BY <1>2, <1>3 DEF Ranking, Descending
  <2>2. ASSUME top[j].ip = top[k].ip PROVE top[k] = NoTalker
    <3>1. j # k
      BY <1>3 DEF Rows
    <3>2. top[k].ip = <<0, 0>>
      BY <1>2, <2>2, <3>1 DEF Ranking, Distinct
    <3> QED
      BY <1>2, <3>2 DEF Ranking, Entry
  <2> QED
    BY <2>1, <2>2
<1>4. ASSUME NEW s \in Slots PROVE Placed(top, t[s])
  <2>1. s < NSlots
    BY DEF Slots
  <2> QED
    BY <1>2, <2>1 DEF Ranking
<1> QED
  BY <1>1, <1>3, <1>4 DEF TopIsRanking, Rows, Placed

(* update_stats, for every number of slots and rows: a refreshed top-      *)
(* talker table is in descending order, has no address twice, and no       *)
(* talker it leaves out has more bytes than one it shows.                  *)
THEOREM TopTableRanks == Spec => TopRanking
<1> DEFINE Good == g_last_pkts' # g_last_pkts => TopIsRanking(g_top', g_talkers')
<1>1. Init => OwnSlots(g_talkers)
  BY OwnersInit DEF OwnersInv
<1>2. TypeOK /\ OwnSlots(g_talkers) /\ [Next]_vars => OwnSlots(g_talkers)'
  BY SlotsStep DEF OwnSlots
<1>3. TypeOK /\ TypeOK' /\ OwnSlots(g_talkers) /\ [Next]_vars => [Good]_vars
  <2> SUFFICES ASSUME TypeOK, TypeOK', OwnSlots(g_talkers), Next, g_last_pkts' # g_last_pkts
               PROVE  TopIsRanking(g_top', g_talkers')
    BY DEF vars
  <2>1. ~(PollEnds \/ PollFails \/ KeyStep \/ Redraw \/ Signal)
    BY LoopIsQuiet DEF Quiet, statVars
  <2>2. PICK e, tick : ~g_paused /\ update_stats(e, tick)
    <3>1. PICK t \in Traffic, tick \in Ticks : Deliver(t, tick)
      BY <2>1 DEF Next
    <3>2. PICK e : handle_event(e, tick)
      BY <3>1 DEF Deliver
    <3> QED
      BY <3>2 DEF handle_event, statVars
  <2>3. g_top' = TopTalkers(g_talkers')
    BY <2>2 DEF update_stats
  <2>4. g_talkers' \in [Slots -> Talkers]
    BY DEF TypeOK, Talkers
  <2>5. OwnSlots(g_talkers')
    BY SlotsStep
  <2> QED
    BY <2>3, <2>4, <2>5, TopRanks
<1> QED
  BY <1>1, <1>2, <1>3, TypeCorrect, PTL DEF Spec, TopRanking
=============================================================================
