----------------------------- MODULE Filewatch -----------------------------
(***************************************************************************)
(* filewatch and filewatch_broad, several of which may run at once: the    *)
(* kprobes on the VFS, the pid they ignore, and what printing a record     *)
(* does.  A printed line is itself a vfs_write, which every other watcher  *)
(* sees.                                                                   *)
(*                                                                         *)
(* filewatch reports regular files only, filewatch_broad every file.       *)
(* stdout is a terminal (not a regular file; one write per line) or was    *)
(* redirected to a file (regular; the C library writes once it has         *)
(* BUF_LINES lines, and the rest at exit).  ProbeTool has what this module *)
(* leaves out: concurrent reservations, poll and its errors.               *)
(***************************************************************************)
EXTENDS Integers, Sequences, FiniteSets

CONSTANTS
  Watchers,   \* pids of the processes that run a watcher
  App,        \* pid of everything else
  RbSize,     \* records the ring buffer events has room for
  BUF_LINES,  \* lines that fill the buffer of a redirected stdout
  MaxOps      \* bound of the model: file operations of apps

ASSUME FilewatchAssumption ==
  /\ IsFiniteSet(Watchers) /\ App \notin Watchers
  /\ RbSize \in Nat \ {0} /\ BUF_LINES \in Nat /\ BUF_LINES > 1 /\ MaxOps \in Nat

VARIABLES
  tool,        \* tool[w]: "filewatch" or "filewatch_broad"
  stdout,      \* stdout[w]: "tty" or "file"
  pc,          \* where main() of w is
  ignore_pid,  \* the map: {} until main() has stored its pid
  attached,    \* the watchers whose probes are attached
  events,      \* events[w]: the ring buffer, the pids of its records
  unwritten,   \* unwritten[w]: lines in w's buffer
  ops          \* file operations that apps have done

vars == <<tool, stdout, pc, ignore_pid, attached, events, unwritten, ops>>
config == <<tool, stdout>>

Init ==
  /\ tool \in [Watchers -> {"filewatch", "filewatch_broad"}]
  /\ stdout \in [Watchers -> {"tty", "file"}]
  /\ pc = [w \in Watchers |-> "load"]
  /\ ignore_pid = [w \in Watchers |-> {}]
  /\ attached = {}
  /\ events = [w \in Watchers |-> <<>>]
  /\ unwritten = [w \in Watchers |-> 0]
  /\ ops = 0

-----------------------------------------------------------------------------
(* Kernel side.                                                            *)

(* Fault: the pid is compared with nothing. *)
IgnoreNobody(w, pid) == FALSE

should_ignore_self(w, pid) == pid \in ignore_pid[w]

(* Fault: the other tool's test. *)
RegularOnly(w, regular) == regular

(* filewatch's is_regular_file; filewatch_broad has no such test. *)
Reported(w, regular) == tool[w] = "filewatch_broad" \/ regular

(* submit_event of w's probe, for an operation of pid. *)
Submitted(w, pid, regular) ==
  /\ w \in attached
  /\ ~should_ignore_self(w, pid)
  /\ Reported(w, regular)
  /\ Len(events[w]) < RbSize

(* The rings after an operation of pid, if they were evs before. *)
AfterOp(evs, pid, regular) ==
  [w \in Watchers |-> IF Submitted(w, pid, regular) THEN Append(evs[w], pid) ELSE evs[w]]

(* vfs_open, vfs_write, vfs_unlink or vfs_rename of some other process. *)
AppOp(regular) ==
  /\ ops < MaxOps
  /\ ops' = ops + 1
  /\ events' = AfterOp(events, App, regular)
  /\ UNCHANGED <<config, pc, ignore_pid, attached, unwritten>>

-----------------------------------------------------------------------------
(* User side: main() of watcher w.                                         *)

Goto(w, from, to) == pc[w] = from /\ pc' = [pc EXCEPT ![w] = to]

(* Fault: the probes are attached before the pid is stored. *)
LoadAttaches(w) ==
  /\ Goto(w, "load", "ignore")
  /\ attached' = attached \cup {w}
  /\ UNCHANGED <<config, ignore_pid, events, unwritten, ops>>

Load(w) ==
  /\ Goto(w, "load", "ignore")
  /\ UNCHANGED <<config, ignore_pid, attached, events, unwritten, ops>>

SetIgnorePid(w) ==
  /\ Goto(w, "ignore", "attach")
  /\ ignore_pid' = [ignore_pid EXCEPT ![w] = {w}]
  /\ UNCHANGED <<config, attached, events, unwritten, ops>>

Attach(w) ==
  /\ Goto(w, "attach", "newrb")
  /\ attached' = attached \cup {w}
  /\ UNCHANGED <<config, ignore_pid, events, unwritten, ops>>

NewRingBuffer(w) ==
  /\ Goto(w, "newrb", "banner")
  /\ UNCHANGED <<config, ignore_pid, attached, events, unwritten, ops>>

(* printf of one line, when the rings are evs. *)
PrintLine(w, evs) ==
  IF stdout[w] = "tty"
    THEN events' = AfterOp(evs, w, FALSE) /\ UNCHANGED unwritten
    ELSE IF unwritten[w] + 1 = BUF_LINES
      THEN /\ events' = AfterOp(evs, w, TRUE)
           /\ unwritten' = [unwritten EXCEPT ![w] = 0]
      ELSE /\ events' = evs
           /\ unwritten' = [unwritten EXCEPT ![w] = @ + 1]

(* "Monitoring file activity", then "Ignored self PID". *)
Banner(w) ==
  /\ Goto(w, "banner", "banner2") \/ Goto(w, "banner2", "poll")
  /\ PrintLine(w, events)
  /\ UNCHANGED <<config, ignore_pid, attached, ops>>

(* A failed call, of which there is a message on stderr, goes to cleanup;  *)
(* a failed attach may leave probes attached until then.                   *)
StartFails(w) ==
  /\ pc[w] \in {"load", "ignore", "attach", "newrb"}
  /\ pc' = [pc EXCEPT ![w] = "cleanup"]
  /\ attached' \in {attached, IF pc[w] = "attach" THEN attached \cup {w} ELSE attached}
  /\ events' = AfterOp(events, w, FALSE)
  /\ UNCHANGED <<config, ignore_pid, unwritten, ops>>

(* ring_buffer__poll hands the oldest record to handle_event and releases  *)
(* it.                                                                     *)
HandleEvent(w) ==
  /\ pc[w] = "poll"
  /\ events[w] # <<>>
  /\ PrintLine(w, [events EXCEPT ![w] = Tail(@)])
  /\ UNCHANGED <<config, pc, ignore_pid, attached, ops>>

(* SIGINT or SIGTERM, or an error of ring_buffer__poll, which has a        *)
(* message on stderr.                                                      *)
LeaveLoop(w) ==
  /\ Goto(w, "poll", "cleanup")
  /\ events' \in {events, AfterOp(events, w, FALSE)}
  /\ UNCHANGED <<config, ignore_pid, attached, unwritten, ops>>

(* ring_buffer__free and filewatch_bpf__destroy. *)
Cleanup(w) ==
  /\ Goto(w, "cleanup", "flush")
  /\ attached' = attached \ {w}
  /\ events' = [events EXCEPT ![w] = <<>>]
  /\ UNCHANGED <<config, ignore_pid, unwritten, ops>>

(* return from main: the C library writes what is left. *)
Exit(w) ==
  /\ Goto(w, "flush", "exit")
  /\ events' = IF unwritten[w] > 0 THEN AfterOp(events, w, TRUE) ELSE events
  /\ unwritten' = [unwritten EXCEPT ![w] = 0]
  /\ UNCHANGED <<config, ignore_pid, attached, ops>>

MainStep(w) ==
  \/ Load(w) \/ SetIgnorePid(w) \/ Attach(w) \/ NewRingBuffer(w) \/ Banner(w)
  \/ HandleEvent(w) \/ Cleanup(w) \/ Exit(w)

Next ==
  \/ \E regular \in BOOLEAN : AppOp(regular)
  \/ \E w \in Watchers : MainStep(w) \/ StartFails(w) \/ LeaveLoop(w)

(* The scheduler runs every watcher that has something to do. *)
Fairness == \A w \in Watchers : WF_vars(MainStep(w))

Spec == Init /\ [][Next]_vars /\ Fairness

-----------------------------------------------------------------------------
(* Properties.                                                             *)

(* filewatch/SUMMARY.md:52 "Self-noise suppression by PID avoids recursion *)
(* from the tracer process itself": a watcher never records what it does   *)
(* itself, from its first line to its last.                                *)
NoSelfRecord == \A w \in Watchers : \A i \in DOMAIN events[w] : events[w][i] # w

(* Two watchers of all files that both print to terminals. *)
Echoing(w, v) ==
  /\ w # v
  /\ \A x \in {w, v} : tool[x] = "filewatch_broad" /\ stdout[x] = "tty"

(* No recursion through others: after the last operation of an app all     *)
(* watchers fall silent, although they report each other's lines, except   *)
(* where two of them are echoing: every other circle passes through a      *)
(* buffer, which makes one write of BUF_LINES lines.                       *)
FallsSilent ==
  (\A w, v \in Watchers : ~Echoing(w, v)) => <>[](\A w \in Watchers : events[w] = <<>>)

(* Two echoing watchers that are running never fall silent once one of     *)
(* them had something to report: each line of one is a record for the      *)
(* other, until one of them is stopped.                                    *)
EchoesForever ==
  [][\A w, v \in Watchers :
       Echoing(w, v) /\ pc[w] = "poll" /\ pc[v] = "poll" /\ UNCHANGED pc
       /\ (events[w] # <<>> \/ events[v] # <<>>)
       => events'[w] # <<>> \/ events'[v] # <<>>]_vars
=============================================================================
