----------------------------- MODULE Procwatch -----------------------------
(***************************************************************************)
(* procwatch: the argument area of its records.  handle_exec copies the    *)
(* raw argument bytes of the process (its arguments, each with a NUL) over *)
(* the front of args; handle_fork and handle_exit leave args alone.  The   *)
(* memory of a record is not cleared: it holds what the record before it   *)
(* at that place left there.  handle_event replaces the NULs between the   *)
(* arguments by spaces, inside the record.                                 *)
(*                                                                         *)
(* External: libbpf maps the pages of the records read-only, and the       *)
(* kernel refuses any other mapping of them, so a store to a record ends   *)
(* the process with SIGSEGV.  Concurrent programs and the rest of main()   *)
(* are ProbeTool's.                                                        *)
(***************************************************************************)
EXTENDS Integers

CONSTANTS
  RbSize,        \* records the ring buffer rb has room for
  MAX_ARGS_LEN,  \* bytes of args, 256 in the code
  NUL,           \* the byte that ends an argument
  ArgAreas,      \* argument areas: sequences of bytes; <<>> if there is no mm
  MaxEvents      \* bound of the model: records reserved

VARIABLES
  args,      \* args[i]: the argument bytes at place i of the ring
  prod,      \* records submitted so far
  cons,      \* records taken so far
  lines,     \* lines printed so far
  running    \* the process is alive

vars == <<args, prod, cons, lines, running>>

Place(n) == n % RbSize
Bytes == 1..MAX_ARGS_LEN

Init ==
  /\ args = [i \in 0..(RbSize - 1) |-> [b \in Bytes |-> NUL]]
  /\ prod = 0 /\ cons = 0 /\ lines = 0
  /\ running = TRUE

(* bpf_ringbuf_reserve and bpf_ringbuf_submit of the next record. *)
Record ==
  /\ running
  /\ prod < MaxEvents
  /\ prod - cons < RbSize
  /\ prod' = prod + 1
  /\ UNCHANGED <<cons, lines, running>>

(* The first len bytes of the area, len being cut to MAX_ARGS_LEN. *)
Copied(old, area) == [b \in Bytes |-> IF b \in DOMAIN area THEN area[b] ELSE old[b]]

handle_exec(area) ==
  /\ Record
  /\ args' = [args EXCEPT ![Place(prod)] = Copied(@, area)]

(* handle_fork and handle_exit *)
handle_fork_exit == Record /\ UNCHANGED args

(* The NULs that sanitize_args replaces. *)
Separators(a) == {b \in Bytes : b + 1 \in Bytes /\ a[b] = NUL /\ a[b + 1] # NUL}

(* handle_event: sanitize_args has nothing to store, and a line is printed. *)
HandleEvent ==
  /\ running
  /\ cons < prod
  /\ Separators(args[Place(cons)]) = {}
  /\ cons' = cons + 1
  /\ lines' = lines + 1
  /\ UNCHANGED <<args, prod, running>>

(* handle_event: the first store of sanitize_args faults. *)
SanitizeFaults ==
  /\ running
  /\ cons < prod
  /\ Separators(args[Place(cons)]) # {}
  /\ cons' = cons + 1
  /\ running' = FALSE
  /\ UNCHANGED <<args, prod, lines>>

Next ==
  \/ \E area \in ArgAreas : handle_exec(area)
  \/ handle_fork_exit
  \/ HandleEvent \/ SanitizeFaults

Spec == Init /\ [][Next]_vars

-----------------------------------------------------------------------------
(* procwatch/SUMMARY.md:14 "User space prints a single line per event":    *)
(* every record that handle_event was given is a printed line.             *)
LinePerEvent == lines = cons
=============================================================================
