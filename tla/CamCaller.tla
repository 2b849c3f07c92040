----------------------------- MODULE CamCaller -----------------------------
(***************************************************************************)
(* cam_identity, kernel side: which app uses the camera.  version says     *)
(* which of the two tools runs: 1 is cam_ident/cam_identity.bpf.c, 2 is    *)
(* cam_v2/cam_identity.bpf.c.                                              *)
(*                                                                         *)
(* A binder transaction of an app to cameraserver is remembered, unless    *)
(* the same app was remembered a moment ago, and reported.  A camera       *)
(* session event is attributed to the last caller, in version 2 only if    *)
(* that one is fresh.  The programs run on every CPU at once and none of   *)
(* the maps is locked; the target of the Makefile is arm64, so two plain   *)
(* stores, or two plain loads, may take effect in either order.            *)
(*                                                                         *)
(* The maps have other names in version 1: its seen_callers is version 2's *)
(* recent_caller, and its recent_caller, a hash map with the single key 0, *)
(* version 2's array last_caller.  A session program of version 1 keeps    *)
(* the pointer that its lookup returned: the element may have been given   *)
(* to later callers when it is read.                                       *)
(*                                                                         *)
(* Transactions that are replies, go to another process or come from a uid *)
(* below 10000 change nothing and are left out.  What becomes of the       *)
(* reported edges and calls is the subject of module CamEdges.             *)
(***************************************************************************)
EXTENDS Integers, Sequences, FiniteSets

CONSTANTS
  CPUs,
  Apps,            \* pids of processes with a uid of at least 10000
  Others,          \* the pids camera events run under: cameraserver, the HAL
  MATCH_WINDOW,    \* CAMSERVER_MATCH_WINDOW_NS
  DEDUP_WINDOW,    \* BINDER_DEDUP_WINDOW_NS
  MaxCallers,      \* max_entries of recent_caller
  TimeMod,         \* 2^64 in the code
  MaxRun,          \* how long a program may take, far less than the windows
  MaxTime,         \* bound of the model: the clock
  MaxCalls,        \* bound of the model: binder transactions
  MaxSessions      \* bound of the model: session events reported

ASSUME CamAssumption ==
  /\ Apps \cap Others = {} /\ 0 \notin Apps \cup Others
  /\ MATCH_WINDOW \in Nat /\ DEDUP_WINDOW \in Nat
  /\ MaxCallers \in Nat /\ MaxTime \in Nat /\ MaxRun \in Nat
  /\ MaxRun <= MATCH_WINDOW /\ MaxRun <= DEDUP_WINDOW
  /\ TimeMod \in Nat /\ TimeMod > MaxTime + MATCH_WINDOW + DEDUP_WINDOW

VARIABLES
  version,         \* which cam_identity runs
  clock,
  prog,            \* the BPF program running on each CPU
  recent_caller,   \* the map: pid -> time of the last remembered call
  last_caller, last_caller_ns,
  sessions,        \* the session events: [pid, own, now, quiet, seen, upto]
  calls,           \* history: the transactions in order, [pid, now]
  kept,            \* history: those remembered, in order of completion
  raced            \* history: apps with transactions on two CPUs at once

mapVars == <<recent_caller, last_caller, last_caller_ns>>
histVars == <<calls, kept, raced>>
vars == <<version, clock, prog, mapVars, sessions, histVars>>

NoPid == 0
Idle == [pc |-> "idle"]

(* What a call stores, and a session event reads, of the last caller. *)
Parts == IF version = 1 THEN {"pid"} ELSE {"pid", "ns"}

InFlight(p) == {c \in CPUs : prog[c].pc # "idle" /\ prog[c].pid = p}

(* An unsigned difference: of a time later than now it is huge. *)
Age(now, ts) == (now - ts) % TimeMod

-----------------------------------------------------------------------------
(* trace_binder_transaction.                                               *)

Transaction(c, p) ==
  /\ prog[c].pc = "idle"
  /\ Len(calls) < MaxCalls
  /\ prog' = [prog EXCEPT ![c] = [pc |-> "dedup", pid |-> p, now |-> clock, todo |-> Parts]]
  /\ calls' = Append(calls, [pid |-> p, now |-> clock])
  /\ raced' = IF InFlight(p) = {} THEN raced ELSE raced \cup {p}
  /\ UNCHANGED <<version, clock, mapVars, sessions, kept>>

(* Fault: a call is forgotten a moment too early. *)
SeenRecentlyShort(p, now) ==
  p \in DOMAIN recent_caller /\ Age(now, recent_caller[p]) < DEDUP_WINDOW - 1

(* last_seen && (now - *last_seen) < BINDER_DEDUP_WINDOW_NS *)
SeenRecently(p, now) ==
  p \in DOMAIN recent_caller /\ Age(now, recent_caller[p]) < DEDUP_WINDOW

Dedup(c) ==
  /\ prog[c].pc = "dedup"
  /\ prog' = IF SeenRecently(prog[c].pid, prog[c].now)
               THEN [prog EXCEPT ![c] = Idle]
               ELSE [prog EXCEPT ![c].pc = "recent"]
  /\ UNCHANGED <<version, clock, mapVars, sessions, histVars>>

(* bpf_map_update_elem with BPF_ANY; a full map refuses a new pid. *)
Updated(p, now) ==
  IF p \in DOMAIN recent_caller \/ Cardinality(DOMAIN recent_caller) < MaxCallers
    THEN [q \in DOMAIN recent_caller \cup {p} |-> IF q = p THEN now ELSE recent_caller[q]]
    ELSE recent_caller

(* remember_caller: the hash map; nobody looks whether it took the pid. *)
RememberRecent(c) ==
  /\ prog[c].pc = "recent"
  /\ recent_caller' = Updated(prog[c].pid, prog[c].now)
  /\ prog' = [prog EXCEPT ![c].pc = "last"]
  /\ UNCHANGED <<version, clock, last_caller, last_caller_ns, sessions, histVars>>

(* The programs after CPU c has stored f: with its last store it has done  *)
(* all that matters here, and a session program that has not yet read both *)
(* maps was disturbed; one that holds a pointer may now find c's pid there. *)
Stored(c, f) ==
  [d \in CPUs |->
     IF d = c THEN IF prog[c].todo = {f} THEN Idle ELSE [prog[c] EXCEPT !.todo = @ \ {f}]
     ELSE CASE prog[d].pc = "load" -> [prog[d] EXCEPT !.quiet = FALSE]
            [] prog[d].pc = "infer" /\ version = 1 -> [prog[d] EXCEPT !.later = @ \cup {prog[c].pid}]
            [] OTHER -> prog[d]]

(* Fault: only the first caller is stored (BPF_NOEXIST). *)
RememberLastOnce(c, f) ==
  /\ prog[c].pc = "last" /\ f \in prog[c].todo
  /\ last_caller' = IF f = "pid" /\ last_caller = NoPid THEN prog[c].pid ELSE last_caller
  /\ last_caller_ns' = IF f = "ns" /\ last_caller_ns = 0 THEN prog[c].now ELSE last_caller_ns
  /\ kept' = IF prog[c].todo = {f} THEN Append(kept, [pid |-> prog[c].pid, now |-> prog[c].now])
             ELSE kept
  /\ prog' = Stored(c, f)
  /\ UNCHANGED <<version, clock, recent_caller, sessions, calls, raced>>

(* remember_caller: the two array maps; the edge and the call are then     *)
(* reported.                                                               *)
RememberLast(c, f) ==
  /\ prog[c].pc = "last" /\ f \in prog[c].todo
  /\ last_caller' = IF f = "pid" THEN prog[c].pid ELSE last_caller
  /\ last_caller_ns' = IF f = "ns" THEN prog[c].now ELSE last_caller_ns
  /\ kept' = IF prog[c].todo = {f} THEN Append(kept, [pid |-> prog[c].pid, now |-> prog[c].now])
             ELSE kept
  /\ prog' = Stored(c, f)
  /\ UNCHANGED <<version, clock, recent_caller, sessions, calls, raced>>

-----------------------------------------------------------------------------
(* trace_cam_context_state.                                                *)

Session(c, p) ==
  /\ prog[c].pc = "idle"
  /\ Cardinality(sessions) < MaxSessions
  /\ prog' = [prog EXCEPT ![c] =
                [pc |-> "load", pid |-> p, now |-> clock, todo |-> Parts,
                 who |-> NoPid, ns |-> 0, later |-> {}, seen |-> Len(kept),
                 quiet |-> \A d \in CPUs : prog[d].pc # "last"]]
  /\ UNCHANGED <<version, clock, mapVars, sessions, histVars>>

(* get_last_caller reads the pid and the time; version 1 looks the element *)
(* up.                                                                     *)
LoadLast(c, f) ==
  /\ prog[c].pc = "load" /\ f \in prog[c].todo
  /\ prog' = [prog EXCEPT ![c].todo = @ \ {f},
                          ![c].pc = IF prog[c].todo = {f} THEN "infer" ELSE "load",
                          ![c].who = IF f = "pid" THEN last_caller ELSE @,
                          ![c].ns = IF f = "ns" THEN last_caller_ns ELSE @]
  /\ UNCHANGED <<version, clock, mapVars, sessions, histVars>>

(* Fault: the age of the last caller is not looked at. *)
InferredNoWindow(pr) == IF pr.who = NoPid THEN pr.pid ELSE pr.who

(* The last caller when it is fresh, and otherwise the current pid. *)
Inferred(pr) ==
  IF Age(pr.now, pr.ns) > MATCH_WINDOW \/ pr.who = NoPid THEN pr.pid ELSE pr.who

(* Whom the record may name.  Version 1: whoever the element holds by now, *)
(* or nobody if there was none.                                            *)
Names(pr) ==
  IF version = 2 THEN {Inferred(pr)}
  ELSE IF pr.who = NoPid THEN {NoPid} ELSE {pr.who} \cup pr.later

Report(c) ==
  /\ prog[c].pc = "infer"
  /\ \E p \in Names(prog[c]) :
       sessions' = sessions \cup
         {[pid |-> p, own |-> prog[c].pid, now |-> prog[c].now,
           quiet |-> prog[c].quiet, seen |-> prog[c].seen, upto |-> Len(kept)]}
  /\ prog' = [prog EXCEPT ![c] = Idle]
  /\ UNCHANGED <<version, clock, mapVars, histVars>>

(* No room in the ring buffer. *)
ReportFails(c) ==
  /\ prog[c].pc = "infer"
  /\ prog' = [prog EXCEPT ![c] = Idle]
  /\ UNCHANGED <<version, clock, mapVars, sessions, histVars>>

-----------------------------------------------------------------------------
Tick ==
  /\ clock < MaxTime
  /\ clock' = clock + 1
  /\ \A c \in CPUs : prog[c].pc # "idle" => clock' - prog[c].now <= MaxRun
  /\ UNCHANGED <<version, prog, mapVars, sessions, histVars>>

Init ==
  /\ version \in {1, 2}
  /\ clock = 0
  /\ prog = [c \in CPUs |-> Idle]
  /\ recent_caller = [p \in {} |-> 0]
  /\ last_caller = NoPid /\ last_caller_ns = 0
  /\ sessions = {}
  /\ calls = <<>> /\ kept = <<>> /\ raced = {}

BpfStep(c) ==
  \/ Dedup(c) \/ RememberRecent(c)
  \/ \E f \in {"pid", "ns"} : RememberLast(c, f) \/ LoadLast(c, f)
  \/ Report(c) \/ ReportFails(c)

Hook(c) ==
  \/ \E p \in Apps : Transaction(c, p)
  \/ \E p \in Others : Session(c, p)

Next == Tick \/ \E c \in CPUs : BpfStep(c) \/ Hook(c)

Spec == Init /\ [][Next]_vars

-----------------------------------------------------------------------------
(* Properties.                                                             *)

(* get_last_caller, no wrong app: a session event of version 2 names the   *)
(* process it ran in or an app that did call cameraserver, and unless a    *)
(* call was being stored at that moment the app called within the match    *)
(* window, even if last_caller and last_caller_ns were written by          *)
(* different programs.                                                     *)
SessionAttribution ==
  \A r \in sessions :
    \/ version = 1
    \/ r.pid = r.own
    \/ \E i \in DOMAIN calls :
         /\ calls[i].pid = r.pid
         /\ r.quiet => calls[i].now \in (r.now - MATCH_WINDOW - MaxRun)..r.now

(* Version 1, whose pointer may outlive the entry it was found in: the app *)
(* that a session event names was the last one stored at some moment       *)
(* between the event and its record, and nobody is named only if no call   *)
(* had been stored before the event.                                       *)
NamedWasLast ==
  version = 1 => \A r \in sessions :
    IF r.pid = NoPid THEN r.seen = 0
    ELSE \E j \in r.seen..r.upto : j > 0 /\ kept[j].pid = r.pid

(* get_last_caller, no missed app: a session event that names no app found *)
(* none whose call was stored and fresh, however the stores of several     *)
(* calls overlapped.                                                       *)
FreshCallerFound ==
  \A r \in sessions :
    r.quiet /\ r.pid = r.own =>
      \A j \in 1..r.seen : kept[j].now < r.now - MATCH_WINDOW + MaxRun

(* trace_binder_transaction: the reported calls of an app are at least the *)
(* dedup window apart, if the map has room for the app and no two of its   *)
(* threads called at once.                                                 *)
DedupSpacing ==
  \A i, j \in DOMAIN kept :
    /\ i < j /\ kept[i].pid = kept[j].pid
    /\ kept[i].pid \in DOMAIN recent_caller \ raced
    => kept[j].now - kept[i].now >= DEDUP_WINDOW
=============================================================================
