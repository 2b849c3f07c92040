------------------------------ MODULE CamEdges ------------------------------
(***************************************************************************)
(* cam_v2's cam_identity from emit_event (cam_v2/cam_identity.bpf.c) to    *)
(* handle_event (cam_v2/cam_identity.c): the table of delegation edges.    *)
(*                                                                         *)
(* A program that has remembered a caller (module CamCaller) reports an    *)
(* edge and then a call, two records that it reserves and fills one after  *)
(* the other; the frame hooks report one record each.  The records of      *)
(* several CPUs are mixed, and since a record gets its timestamp after its *)
(* place, their times may be out of order.  handle_event keeps the last    *)
(* MAX_EDGES edges and looks one up for every call and frame event.        *)
(*                                                                         *)
(* The BPF ring buffer is that of module ProbeTool, kept as a sequence.    *)
(* Names of processes, the foreground package and the text that is printed *)
(* are left out: shown is the edge that a CHAIN or LINK line relies on.    *)
(***************************************************************************)
EXTENDS Integers, Sequences, FiniteSets

CONSTANTS
  CPUs,
  Pids,
  CHAIN_WINDOW,    \* CHAIN_WINDOW_NS
  MAX_EDGES,
  MaxRun,          \* how long a program may take, less than the window
  MaxTime,         \* bound of the model: the clock
  MaxHooks         \* bound of the model: hooks fired

ASSUME EdgesAssumption ==
  /\ 0 \notin Pids
  /\ CHAIN_WINDOW \in Nat /\ MAX_EDGES \in Nat \ {0}
  /\ MaxTime \in Nat /\ MaxHooks \in Nat
  /\ MaxRun \in Nat /\ MaxRun <= CHAIN_WINDOW

VARIABLES
  clock,
  prog,            \* the program running on each CPU: what it still reports
  fired,           \* hooks fired so far; each gets the next number
  ring,            \* the records in the order of their reservation
  dropped,         \* the records that found no room, [type, n]
  handled,         \* how many records handle_event has seen
  edges, edge_pos,
  shown            \* the edge that handle_event found for the last record

userVars == <<handled, edges, edge_pos, shown>>
vars == <<clock, prog, fired, ring, dropped, userVars>>

NoEdge == [src_pid |-> 0, ts |-> 0]
Idle == [pc |-> "idle", pid |-> 0, n |-> 0, now |-> 0, emit |-> <<>>, slot |-> 0]

-----------------------------------------------------------------------------
(* The programs.                                                           *)

(* A hook fires: its program is going to report the events of emit. *)
Hook(c, p, emit) ==
  /\ prog[c].pc = "idle"
  /\ fired < MaxHooks
  /\ fired' = fired + 1
  /\ prog' = [prog EXCEPT ![c] = [pc |-> "emit", pid |-> p, n |-> fired + 1, now |-> clock,
                                  emit |-> emit, slot |-> 0]]
  /\ UNCHANGED <<clock, ring, dropped, userVars>>

(* Fault: the call is reported before its edge. *)
CallFirst == <<"CALL", "EDGE">>

(* trace_binder_transaction: the edge, then the call. *)
BinderReports == <<"EDGE", "CALL">>

Binder(c, p) == Hook(c, p, BinderReports)

(* cam_apply_req, cam_buf_done, v4l2_qbuf, v4l2_dqbuf. *)
Frame(c, p) == Hook(c, p, <<"FRAME">>)

(* emit_event returns: the program goes on to its next event or ends. *)
Emitted(c) ==
  IF Len(prog[c].emit) = 1 THEN Idle
  ELSE [prog[c] EXCEPT !.pc = "emit", !.emit = Tail(@), !.slot = 0]

(* emit_event: bpf_ringbuf_reserve finds no room. *)
ReserveFails(c) ==
  /\ prog[c].pc = "emit"
  /\ dropped' = dropped \cup {[type |-> Head(prog[c].emit), n |-> prog[c].n]}
  /\ prog' = [prog EXCEPT ![c] = Emitted(c)]
  /\ UNCHANGED <<clock, fired, ring, userVars>>

(* emit_event: a record is reserved ... *)
Reserve(c) ==
  /\ prog[c].pc = "emit"
  /\ ring' = Append(ring, [type |-> Head(prog[c].emit), pid |-> prog[c].pid, n |-> prog[c].n,
                           ts |-> 0, st |-> "busy"])
  /\ prog' = [prog EXCEPT ![c].pc = "fill", ![c].slot = Len(ring) + 1]
  /\ UNCHANGED <<clock, fired, dropped, userVars>>

(* ... and filled, the timestamp first, and submitted. *)
Submit(c) ==
  /\ prog[c].pc = "fill"
  /\ ring' = [ring EXCEPT ![prog[c].slot].ts = clock, ![prog[c].slot].st = "ready"]
  /\ prog' = [prog EXCEPT ![c] = Emitted(c)]
  /\ UNCHANGED <<clock, fired, dropped, userVars>>

Tick ==
  /\ clock < MaxTime
  /\ clock' = clock + 1
  /\ \A c \in CPUs : prog[c].pc # "idle" => clock' - prog[c].now <= MaxRun
  /\ UNCHANGED <<prog, fired, ring, dropped, userVars>>

-----------------------------------------------------------------------------
(* handle_event.                                                           *)

(* Fault: the table is read as if it had never been filled up. *)
RecentEdgesFirst == {i \in 0..(edge_pos - 1) : i < MAX_EDGES}

(* The numbers of the edges that are still in the table. *)
RecentEdges == {i \in 0..(edge_pos - 1) : i >= edge_pos - MAX_EDGES}

(* Those of pid that are not later than ts and not older than the window. *)
Fitting(pid, ts) ==
  {i \in RecentEdges :
     LET e == edges[i % MAX_EDGES] IN
       e.src_pid = pid /\ ts >= e.ts /\ ts - e.ts <= CHAIN_WINDOW}

find_recent_edge(pid, ts) ==
  LET found == Fitting(pid, ts) IN
    IF found = {} THEN NoEdge
    ELSE edges[(CHOOSE i \in found : \A j \in found : j <= i) % MAX_EDGES]

remember_edge(e) ==
  /\ edges' = [edges EXCEPT ![edge_pos % MAX_EDGES] = [src_pid |-> e.pid, ts |-> e.ts]]
  /\ edge_pos' = edge_pos + 1

HandleEvent ==
  /\ handled < Len(ring)
  /\ ring[handled + 1].st = "ready"
  /\ handled' = handled + 1
  /\ LET e == ring[handled + 1] IN
       IF e.type = "EDGE"
         THEN remember_edge(e) /\ shown' = NoEdge
         ELSE shown' = find_recent_edge(e.pid, e.ts) /\ UNCHANGED <<edges, edge_pos>>
  /\ UNCHANGED <<clock, prog, fired, ring, dropped>>

-----------------------------------------------------------------------------
Init ==
  /\ clock = 0
  /\ prog = [c \in CPUs |-> Idle]
  /\ fired = 0
  /\ ring = <<>> /\ dropped = {}
  /\ handled = 0
  /\ edges = [i \in 0..(MAX_EDGES - 1) |-> NoEdge] /\ edge_pos = 0
  /\ shown = NoEdge

Next ==
  \/ Tick \/ HandleEvent
  \/ \E c \in CPUs :
       \/ ReserveFails(c) \/ Reserve(c) \/ Submit(c)
       \/ \E p \in Pids : Binder(c, p) \/ Frame(c, p)

Spec == Init /\ [][Next]_vars

-----------------------------------------------------------------------------
(* Properties.                                                             *)

EdgesSince(i) == {j \in i..handled : ring[j].type = "EDGE"}

(* emit_event and handle_event: when a call is handled its own edge was    *)
(* handled before, and an edge is shown unless MAX_EDGES edges came since  *)
(* or the ring buffer had no room for its own.                             *)
CallShowsEdge ==
  handled > 0 =>
    LET r == ring[handled] IN
      r.type = "CALL" /\ [type |-> "EDGE", n |-> r.n] \notin dropped =>
        \E i \in 1..handled :
          /\ ring[i].type = "EDGE" /\ ring[i].n = r.n
          /\ Cardinality(EdgesSince(i)) <= MAX_EDGES => shown # NoEdge

(* find_recent_edge: the edge shown is the one that was handled last among *)
(* those of the pid whose age is in the chain window, although the table   *)
(* forgets and the timestamps are not in order; none is shown only if      *)
(* there is none among the last MAX_EDGES edges.                           *)
LinkIsLatest ==
  handled > 0 /\ ring[handled].type # "EDGE" =>
    LET r == ring[handled]
        fits == {i \in 1..handled :
                   /\ ring[i].type = "EDGE" /\ ring[i].pid = r.pid
                   /\ ring[i].ts \in (r.ts - CHAIN_WINDOW)..r.ts
                   /\ Cardinality(EdgesSince(i)) <= MAX_EDGES}
    IN IF fits = {} THEN shown = NoEdge
       ELSE \E i \in fits : /\ \A j \in fits : j <= i
                            /\ shown = [src_pid |-> r.pid, ts |-> ring[i].ts]
=============================================================================
