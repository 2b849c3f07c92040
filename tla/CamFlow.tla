------------------------------ MODULE CamFlow ------------------------------
(***************************************************************************)
(* The maps of cam_ident/cam_flow.bpf.c: the submit time of a camera       *)
(* request is stored under the request's number when the request manager   *)
(* applies it, and read, and deleted, when a buffer of it is done.  The    *)
(* difference is the latency that cam_flow.c prints.                       *)
(*                                                                         *)
(* The programs of several CPUs interleave between their map helpers.  A   *)
(* request may be applied again (once per device, and numbers start anew   *)
(* in every session), may be done several times (once per context) or      *)
(* never (it was flushed: no hook tells).                                  *)
(*                                                                         *)
(* The hash map is kernel code, modelled from its use: its elements are    *)
(* allocated in advance, one more per CPU than it has entries.  An update  *)
(* fills an element that no key has and then publishes it; a deleted or    *)
(* replaced element may be filled again at once, although a program may    *)
(* still hold the pointer that its lookup returned.                        *)
(*                                                                         *)
(* The records and their ring are ProbeTool's; here a program ends by      *)
(* reporting the latency, with or without room in the ring.                *)
(***************************************************************************)
EXTENDS Integers, FiniteSets

CONSTANTS
  CPUs,
  Reqs,          \* request numbers
  Contexts,      \* addresses of camera contexts
  MAX_REQS,      \* max_entries of req_submit_ts, 256 in the code
  MAX_SESSIONS,  \* max_entries of session_map, 64 in the code
  Elems,         \* the elements allocated for req_submit_ts
  NULL,          \* no element
  W,             \* the modulus of the unsigned arithmetic, 2^64 in the code
  MaxTime        \* bound of the model: the clock

ASSUME CamFlowAssumption ==
  /\ IsFiniteSet(CPUs) /\ IsFiniteSet(Elems) /\ IsFiniteSet(Reqs)
  /\ MAX_REQS \in Nat \ {0} /\ MAX_SESSIONS \in Nat \ {0}
  /\ Cardinality(Elems) = MAX_REQS + Cardinality(CPUs)
  /\ NULL \notin Elems
  /\ Contexts \subseteq Nat
  /\ MaxTime \in Nat /\ W \in Nat /\ W > MaxTime

VARIABLES
  clock,        \* bpf_ktime_get_ns
  prog,         \* prog[c]: the program running on CPU c
  table,        \* table[r]: the element of request r in req_submit_ts, or NULL
  mem,          \* mem[e]: the time in element e
  session_map,  \* the keys in session_map
  hist,         \* hist[r]: what became of the last apply of r, and its time
  clean         \* requests whose programs have not overlapped since the last apply began

vars == <<clock, prog, table, mem, session_map, hist, clean>>

Times == 0..MaxTime
Idle == [pc |-> "idle"]
Stored == {r \in Reqs : table[r] # NULL}
Unused == Elems \ {table[r] : r \in Reqs}
Running(r) == {c \in CPUs : prog[c].pc # "idle" /\ prog[c].req = r}

Init ==
  /\ clock = 0
  /\ prog = [c \in CPUs |-> Idle]
  /\ table = [r \in Reqs |-> NULL]
  /\ mem = [e \in Elems |-> 0]
  /\ session_map = {}
  /\ hist = [r \in Reqs |-> [st |-> "none", t |-> 0]]
  /\ clean = {}

(* CPU c, inside a program, goes on at p. *)
Goto(c, p) == prog' = [prog EXCEPT ![c] = p]
At(c, pc) == prog[c].pc = pc

-----------------------------------------------------------------------------
(* flow_cam_req_mgr_apply *)

Apply(c, r) ==
  /\ At(c, "idle")
  /\ Goto(c, [pc |-> "update", req |-> r, now |-> clock])
  /\ clean' = IF Running(r) = {} THEN clean \cup {r} ELSE clean \ {r}
  /\ UNCHANGED <<clock, table, mem, session_map, hist>>

HasRoom(r) == table[r] # NULL \/ Cardinality(Stored) < MAX_REQS

(* Fault: a request that has an element keeps its time (BPF_NOEXIST). *)
UpdateNew(c) ==
  LET r == prog[c].req IN
    /\ At(c, "update")
    /\ HasRoom(r)
    /\ \E e \in Unused :
         IF table[r] = NULL
           THEN table' = [table EXCEPT ![r] = e] /\ mem' = [mem EXCEPT ![e] = prog[c].now]
           ELSE UNCHANGED <<table, mem>>
    /\ hist' = [hist EXCEPT ![r] = [st |-> "sent", t |-> prog[c].now]]
    /\ Goto(c, Idle)
    /\ UNCHANGED <<clock, session_map, clean>>

(* bpf_map_update_elem(..., BPF_ANY) *)
Update(c) ==
  LET r == prog[c].req IN
    /\ At(c, "update")
    /\ HasRoom(r)
    /\ \E e \in Unused :
         table' = [table EXCEPT ![r] = e] /\ mem' = [mem EXCEPT ![e] = prog[c].now]
    /\ hist' = [hist EXCEPT ![r] = [st |-> "sent", t |-> prog[c].now]]
    /\ Goto(c, Idle)
    /\ UNCHANGED <<clock, session_map, clean>>

(* The map is full of other requests: the update fails, unnoticed. *)
UpdateFails(c) ==
  /\ At(c, "update")
  /\ ~HasRoom(prog[c].req)
  /\ hist' = [hist EXCEPT ![prog[c].req] = [st |-> "refused", t |-> 0]]
  /\ Goto(c, Idle)
  /\ UNCHANGED <<clock, table, mem, session_map, clean>>

-----------------------------------------------------------------------------
(* flow_cam_buf_done *)

(* A buffer of a request is done after the request was applied. *)
BufDone(c, r) ==
  /\ At(c, "idle")
  /\ hist[r].st # "none"
  /\ Goto(c, [pc |-> "lookup", req |-> r, now |-> clock])
  /\ clean' = IF Running(r) = {} THEN clean ELSE clean \ {r}
  /\ UNCHANGED <<clock, table, mem, session_map, hist>>

Lookup(c) ==
  LET p == prog[c] IN
    /\ At(c, "lookup")
    /\ Goto(c, IF table[p.req] = NULL
                 THEN [pc |-> "report", req |-> p.req, now |-> p.now, latency |-> 0]
                 ELSE [pc |-> "read", req |-> p.req, now |-> p.now, ptr |-> table[p.req]])
    /\ UNCHANGED <<clock, table, mem, session_map, hist, clean>>

(* latency = now - *submit_ts: whatever the element holds by now. *)
Read(c) ==
  LET p == prog[c] IN
    /\ At(c, "read")
    /\ Goto(c, [pc |-> "delete", req |-> p.req, now |-> p.now,
                latency |-> (p.now - mem[p.ptr]) % W])
    /\ UNCHANGED <<clock, table, mem, session_map, hist, clean>>

(* Fault: the request keeps its element. *)
DeleteMissing(c) ==
  /\ At(c, "delete")
  /\ Goto(c, [prog[c] EXCEPT !.pc = "report"])
  /\ UNCHANGED <<clock, table, mem, session_map, hist, clean>>

(* bpf_map_delete_elem: by key, not by the element that was read. *)
Delete(c) ==
  /\ At(c, "delete")
  /\ table' = [table EXCEPT ![prog[c].req] = NULL]
  /\ Goto(c, [prog[c] EXCEPT !.pc = "report"])
  /\ UNCHANGED <<clock, mem, session_map, hist, clean>>

(* The record is reserved, filled with prog[c].latency and submitted, or   *)
(* there is no room for it.                                                *)
Report(c) ==
  /\ At(c, "report")
  /\ hist' = [hist EXCEPT ![prog[c].req] = [st |-> "done", t |-> 0]]
  /\ Goto(c, Idle)
  /\ UNCHANGED <<clock, table, mem, session_map, clean>>

-----------------------------------------------------------------------------
(* flow_cam_context_state: the key is the low half of the address's low    *)
(* word; every state but 0 stores it anew.  Nothing reads session_map.     *)

SessionKey(ctx) == ctx % 65536

(* Fault: the map grows beyond its size. *)
SessionsUnbounded(key, state) ==
  IF state = 0 THEN session_map \ {key} ELSE session_map \cup {key}

Sessions(key, state) ==
  IF state = 0 THEN session_map \ {key}
  ELSE IF Cardinality(session_map) < MAX_SESSIONS THEN session_map \cup {key}
  ELSE session_map

ContextState(ctx, state) ==
  /\ session_map' = Sessions(SessionKey(ctx), state)
  /\ UNCHANGED <<clock, prog, table, mem, hist, clean>>

Tick ==
  /\ clock < MaxTime
  /\ clock' = clock + 1
  /\ UNCHANGED <<prog, table, mem, session_map, hist, clean>>

BpfStep(c) ==
  Update(c) \/ UpdateFails(c) \/ Lookup(c) \/ Read(c) \/ Delete(c) \/ Report(c)

Next ==
  \/ \E c \in CPUs : BpfStep(c) \/ \E r \in Reqs : Apply(c, r) \/ BufDone(c, r)
  \/ \E ctx \in Contexts, state \in {0, 1} : ContextState(ctx, state)
  \/ Tick

Spec == Init /\ [][Next]_vars

-----------------------------------------------------------------------------
(* Properties.                                                             *)

Programs ==
  {Idle}
    \cup [pc : {"update", "lookup"}, req : Reqs, now : Times]
    \cup [pc : {"read"}, req : Reqs, now : Times, ptr : Elems]
    \cup [pc : {"delete", "report"}, req : Reqs, now : Times, latency : 0..(W - 1)]

(* Every variable has its type, and neither map exceeds its size. *)
TypeOK ==
  /\ clock \in Times
  /\ prog \in [CPUs -> Programs]
  /\ table \in [Reqs -> Elems \cup {NULL}]
  /\ mem \in [Elems -> Times]
  /\ Cardinality(Stored) <= MAX_REQS
  /\ session_map \subseteq {SessionKey(ctx) : ctx \in Contexts}
  /\ Cardinality(session_map) <= MAX_SESSIONS
  /\ hist \in [Reqs -> [st : {"none", "sent", "refused", "done"}, t : Times]]
  /\ clean \subseteq Reqs

(* What a program of r that is alone may find. *)
Consistent(r) ==
  IF hist[r].st = "sent" THEN table[r] # NULL /\ mem[table[r]] = hist[r].t ELSE table[r] = NULL

(* The latency r's next done should report at time now. *)
Owed(r, now) == IF hist[r].st = "sent" THEN now - hist[r].t ELSE 0

(* No two requests share an element.  As long as the programs of a request *)
(* do not overlap each other, req_submit_ts holds it exactly from the      *)
(* apply that was stored until the first done, with the time of that       *)
(* apply, and the pointer a done program holds is its own request's,       *)
(* whatever the programs of other requests do to the map in between.       *)
TableExact ==
  /\ \A r, q \in Stored : r # q => table[r] # table[q]
  /\ \A r \in clean :
       /\ \A c, d \in Running(r) : c = d
       /\ Running(r) = {} => Consistent(r)
       /\ \A c \in Running(r) :
            /\ At(c, "lookup") => Consistent(r)
            /\ At(c, "read") => Consistent(r) /\ prog[c].ptr = table[r]
            /\ At(c, "delete") => Consistent(r) /\ table[r] # NULL
            /\ At(c, "report") => table[r] = NULL

(* flow_cam_buf_done: the first done of a request reports the time since   *)
(* its last apply, every later one, and one whose apply found the map      *)
(* full, reports 0, unless its programs overlapped.  (When two dones of    *)
(* one request overlap, the second may read an element that by now holds   *)
(* the time of another request.)                                           *)
LatencyExact ==
  \A c \in CPUs :
    At(c, "report") /\ prog[c].req \in clean =>
      prog[c].latency = Owed(prog[c].req, prog[c].now)

(* The apply of a request is refused only while MAX_REQS other requests    *)
(* hold an element: each was applied and not done since, or has a program  *)
(* running or had overlapping ones.  A flushed request counts for ever.    *)
RefusedWhenFull ==
  [][\A r \in Reqs :
       hist'[r].st = "refused" /\ hist[r].st # "refused" =>
         Cardinality({q \in Reqs \ {r} :
           hist[q].st = "sent" \/ Running(q) # {} \/ q \notin clean}) >= MAX_REQS]_vars
=============================================================================
