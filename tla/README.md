# Verification of the eBPF monitoring tools for Android

This directory holds TLA+ models of the tools in this repository, the TLC
configurations that check them on small instances, and proofs, checked by
TLAPS, of their most important properties for every value of the parameters.
`PROJECT.json` maps each definition to the source lines it models and lists
the runs, the seeded faults, the findings, the hazards and the theorems.

## 1. Inventory

Every tool has a kernel side, BPF programs that run on the CPU where their
hook fires, and a user side, a C program that loads them and consumes a BPF
ring buffer.

| part | state | operations | what is hard |
|---|---|---|---|
| tool skeleton (execguard, filewatch, filewatch_broad, privwatch, procwatch, cam_*) | ring buffer, stop flag, attached programs | reserve / fill / submit / discard per CPU; open, load, attach, poll, signal, cleanup | programs of several CPUs interleave; a busy record holds up the consumer; signals between test and poll; failed starts |
| pksniff user interface | packet ring, filter, selection, statistics, `-o` file | handle_event, keys, redraw, resize, save | a wrapping ring read with hand-written index arithmetic in four places; a selection made in an older view |
| pksniff kernel program | per-CPU scratch event | process_packet, DNS / TLS / HTTP parsers | packets cut off anywhere; a scratch event that is never cleared as a whole |
| TC attachment (pktrace, pksniff) | clsact hook, one place per direction, filters of others | hook create, attach, detach, hook destroy, kill, restart | filters outlive their process; several runs share an interface; a start that fails half way |
| execguard | hash map (uid, name) -> window start and count | handle_exec, severity_for | unlocked read-modify-write on all CPUs; elements reused under a program's pointer; unsigned time differences; a full map |
| cam_v2 cam_identity, kernel | recent_caller, last_caller, last_caller_ns | binder transaction, camera session | three maps updated one by one without a lock, on a weakly ordered machine |
| cam_v2 cam_identity, user | table of the last edges | handle_event, remember_edge, find_recent_edge | timestamps that are out of ring order; a table that wraps |
| pktrace kernel program and output | none between packets | pktrace_fn, handle_event | a fixed load of 64 bytes; headers longer than what was captured |
| cam_ident cam_flow | req_submit_ts, session_map | request applied, buffer done, context state | pointers into a map whose elements are reused; requests that are never done; a full map |
| cam_ident cam_identity (version 1) | seen_callers, one last caller | binder transaction, camera session | a pointer read after its element was replaced |
| cam_ident, cam_control, cam_buffer | maps that are written and never read | one event per hook | nothing beyond the skeleton |
| filewatch, filewatch_broad | ignore_pid, the probes, buffered output | VFS probes, start, print, exit | a printed line is itself a file operation that other watchers see |
| procwatch | argument bytes of the records | exec, fork, exit, sanitize_args | records that are not cleared; a callback that changes its record |
| privwatch | none | severity rule | |

Kernel and user side interact only through the ring buffer (and filewatch's
`ignore_pid`, cam_v2's `config_map`, both written before the attachment).
`node_modules`, the report sources, `vmlinux.h`, the document generator
`camtrace_docs.js` and the older copy `cam_data_tracking` are left aside.

## 2. Modules

| module | models | abstract specification | proofs |
|---|---|---|---|
| `ProbeTool` | tool skeleton and ring buffer | `EventStream` | `ProbeTool_proofs` |
| `Pksniff` | pksniff/Pksniff.c | `PacketLog`, `EditLine` | `Pksniff_proofs` |
| `PacketProgram` | pksniff/Pksniff.bpf.c | reference definitions `DnsExpected`, `SniExpected` | `PacketTools_proofs` |
| `TcTools` | TC use of pktrace.c and Pksniff.c | | `PacketTools_proofs` |
| `Execguard` | execguard.bpf.c, severity_for | | `Execguard_proofs` |
| `Pktrace` | pktrace_v2: pktrace_fn and handle_event | | `PacketTools_proofs` |
| `PacketTools` | `PacketProgram` and `Pktrace` on the same packets | | `PacketTools_proofs` |
| `CamCaller` | cam_v2/cam_identity.bpf.c and cam_ident/cam_identity.bpf.c | | `CamCaller_proofs` |
| `CamEdges` | emit_event, cam_v2/cam_identity.c | | `CamEdges_proofs` |
| `CamFlow` | cam_ident/cam_flow.bpf.c | | `CamFlow_proofs` |
| `Filewatch` | several filewatch and filewatch_broad at once | | `Filewatch_proofs` |
| `Procwatch` | argument area of procwatch's records | | |

The `MC*` modules give the constants their values; the definitions whose
comment begins with "Fault:" are seeded faults, used only to show that a
property can fail.

### ProbeTool

`prog[c]` is the BPF program on CPU `c` ("idle", "entered" before the
reservation, "filling" a record), `prod` and `cons` are the positions of the
ring buffer and `rec` the records between them. `upc` is the place in `main()`.
`Enter`, `Reserve`, `ReserveFails`, `Submit` and `Discard` are the steps of a
program; `Open` ... `Destroy` those of `main()`; `Signal`, `Kill`,
`PollInterrupted`, `PollError` and `StartFails` come from outside. `loop` is
the only difference between the tools that matters here: whether `-EINTR` ends
the poll loop (execguard, filewatch, filewatch_broad, privwatch, procwatch) or
not (the cam_* tools). A failed attach may leave some programs attached until
the cleanup.

Fairness: weak fairness of `Scheduled`, the steps of `main()` except the end of
a drain that has caught up (the process is scheduled, and an idle
`ring_buffer__poll` returns after its timeout), and of each CPU's program (BPF
programs terminate, the verifier sees to it). Hooks and signals are not fair.
A drain that has caught up need not end: libbpf goes over the ring again
as long as it got new data, and never looks at the tool's flag. That events are
bounded in the model must not help here, so `DrainEnd` is not assumed to be taken
then, and `StopObeyed` says what is left: the tool ends, or stays in a drain for
ever. Where the drain stops at a busy record, it does end.

### Pksniff

The variables have the names of the globals of Pksniff.c. One turn of the main
loop is poll (`Deliver`* then `PollEnds`), one key (`NoKey`, `KeyQuit`, ...)
and one redraw; `handle_event`, `update_stats`, `parse_filter_str`,
`event_matches` are operators. The ring is seen through `RingIndex`, the
arithmetic of line 452, which four functions share. `term_rows` differs from
`list_rows` because a resize is ignored while a filter is typed. A packet is
numbered by its arrival, so order and duplicates are visible.

The filter line is the C string of the code: an array with a terminating NUL
and stale bytes behind it, edited by `memmove` with the code's byte counts
(`Backspaced`, `Deleted`, `Inserted`), padded by the `strncpy` of the F key and
cut by the reset, which only writes a NUL at its front. One place of the array
holds a whole token of the filter language instead of a character, so that
short lines already parse to filters. `EditLine` is what it promises: a text
with a cursor, edited at the cursor; `strlen` and the bytes before the NUL are
the refinement mapping.

Fairness: `getch` returns within 50 ms, and the redraw is straight-line code.
The end of the poll is not fair: the timeout of 0 bounds only the wait for data,
and while packets come fast enough libbpf's drain goes on. `QuitObeyed` therefore
allows a loop that never again leaves the poll, and says that nothing else (no
phase, no mode, no key) can hold up the Q key or a signal.

### PacketProgram

A packet is a step of one CPU; `scratch[c]` holds the strings of the CPU's
event as arrays with NULs, because what stays behind a NUL matters. Header
sizes and positions are those of the code. The payload is given by its
structure (labels, extensions, an HTTP line) and cut off by `len`; the parsers
are the loops of the code, as recursive functions over the turns of the loop,
and the properties compare them with definitions that do not follow the loop:
which labels are whole, and which extension is the first server name.

`PacketsAssumption` says what a packet is. Its linear bytes are part of it, and
an IPv4 packet is no longer than its 16 bit length field can say. What comes on
port 53 is a sequence of labels, each behind a length byte of 1 to 191, and then
a 0 or a byte from 192 on: any payload can be read so, because bytes behind
`len` are free and the code takes every byte below 192 for a length. The one
restriction is that labels and server names contain no NUL. Extensions lie one
behind the other and their lengths add up.

### Pktrace and PacketTools

`pktrace_fn` keeps nothing between packets, so `traced` and `dropped` hold the
fate of the last one: its event with what `handle_event` makes of it, or the
packet itself if its event was reserved and discarded. `PacketTools` lets each
packet pass both programs, which were written apart: `ProgramsAgree` compares
their arithmetic, and limits pktrace's discards to packets shorter than its
fixed load. (SUMMARY.md:61 of pktrace_v2 says that all IPv4 packets are traced;
those shorter than 64 bytes are not.)

### TcTools

Each run of a tool has a program counter; `slot[d]` is who holds handle 1,
priority 1 in a direction, `foreign` the directions with filters of other
programs. `bpf_tc_detach` is always refused, since the options still hold the
program's descriptor; it is `bpf_tc_hook_destroy` that removes the filter, by
flushing the direction. The refusal is what `OwnFilterStays` rests on: with a
detach that works, another run could attach between the two calls and be
flushed (this is the seeded fault `DetachWorks`).

### Execguard

Each access of a map element is a step. `stats[k]` is the element the map has
for key `k`, `mem[e]` the value in element `e`. The elements are allocated in
advance, one more per CPU than there are entries; an update takes any element
that no key has, fills it and publishes it, as one step. Two programs that both
found no element both insert: the element of the first is replaced and can be
filled at once for any key, while a program that looked it up in between goes on
reading and writing it. `raced` remembers the keys executed on two CPUs at once
and those given an element that a program still held. Through such an element an
execution of one key is counted for another, in the code as in the model: a
record may report more executions of its key than there were. `NoOvercount`
bounds it by the executions of all raced keys together, and by its own for a key
that was not raced; `CountSound` and `BurstDetected` exempt raced keys. Time
differences are unsigned, modulo `TimeMod`. A reservation is one step with what
follows it, since the ring is not part of this module.

### CamCaller and CamEdges

`CamCaller` follows a transaction through the dedup and the three maps, and a
session event through the two loads. The two array stores, and the two loads,
take effect in either order (the target is arm64 and nothing orders them).
`quiet` marks the sessions during which no store was under way. `CamEdges`
starts where `remember_caller` ends: a program reports an edge and then a call,
each reserved first and stamped later, so ring order and time order differ.

`version` chooses between the two tools called cam_identity. Version 1 keeps
only the last caller's pid, in a hash map, never asks for its age, and reads it
through the pointer its lookup returned. By then a later call may have replaced
the element and, the memory being reused, left its own pid there: `later` holds
the pids the record may name besides the one that was looked up. `NamedWasLast`
says that whoever is named was the last caller at some moment between the
lookup and the report.

`MaxRun` bounds how long a program may run; it is far below the windows of
2 seconds and 60 seconds in reality and at most as long in the models.

### CamFlow

The hash map is modelled down to its elements, because `flow_cam_buf_done` keeps
a pointer to one while other CPUs may delete it and fill it for another request:
`table[r]` is the element of request `r`, `mem[e]` the time in element `e`, and
an update takes any unused element. As in the kernel there are as many elements
as entries and one more per CPU. `hist[r]` records what the last apply of `r`
came to, `clean` the requests whose programs have not overlapped since: for
those the table and the reported latency are exact, whatever other requests do.
For overlapping programs of one request (two contexts that are done at once)
they are not: the second may report a latency computed from the time of another
request. `session_map` is written by context events and never read.

### Filewatch

`Watchers` are processes running either tool, `App` everything else. Each has
its probes, its ring and its stdout, a terminal (one write per line) or a file
(the C library writes once its buffer is full, and at exit); messages on stderr
go to a terminal. `AfterOp` is what one file operation does to all rings.
Fairness: each watcher's `main()` is scheduled (WF of `MainStep`); file
operations, failures and stop requests are not fair.

### Procwatch

`args[i]` are the argument bytes at place `i` of the ring. `handle_exec` writes
only as many as the process has, forks and exits write none, and places are
used again uncleared. `sanitize_args` stores spaces into the record; that the
pages of the records are mapped read-only is libbpf's and the kernel's doing
(external), and makes the first such store fatal.

## 3. Runs

| run | states | shows |
|---|---|---|
| `probe_tool` | 28,532 | every event has one fate (`Accounted`); events of a CPU are handled once and in order (`ImplementsStream`); no exit leaves a program attached; a submitted record is handled, and a stop request obeyed unless the drain never ends |
| `pksniff_capture` | 109,984 | the ring is a log of the newest packets; the owner of a talker slot is credited with all its bytes; the top table is a ranking |
| `pksniff_view` | 348,340 | the filter line is an edited text (`ImplementsLine`), the selection is always visible, a save is the filtered end of the capture, a quit (key or signal) is obeyed unless the poll never ends |
| `pksniff_packets` | 231,740 | an event describes its own packet: no chunk outside it, no offset outside it, no string of an earlier one, and the server name found exactly when it is all there; pktrace agrees and prints only captured bytes |
| `tc_tools` | 10,589 | runs do not take each other's filter, give back theirs, and are blocked by that of a killed run |
| `execguard` | 2.6 million | no execution is invented, not even through an element reused under a pointer; without races the count is that of the window; a burst of 2 * rate - 1 is noticed |
| `cam_caller` | 3.7 million | a session names a caller of the match window (version 2) or one that was the last (version 1), or none only if there was none; reported calls keep the dedup distance |
| `cam_edges` | 1 million | a call's edge is known when the call is handled; a link is to the last fitting edge |
| `cam_flow` | 792,732 | the table holds a request from its apply to its first done, the latency is its own, and an apply is refused only when the map is full of others |
| `filewatch` | 61,008 | no watcher records itself; watchers fall silent after the last operation (`FallsSilent`) except two broad ones on terminals, which echo each other for ever (`EchoesForever`) |

Each property of these runs has a seeded fault that violates it.

Two runs show a disagreement between the code and what is said about it:

- `pksniff_sni`: `tls_sni` is to be a NUL-terminated hostname (Pksniff.h:71-74),
  but the characters of a longer name reported earlier on the same CPU follow a
  shorter one: only index 15 is made NUL, and only index 0 was cleared.
- `procwatch_args`: "User space prints a single line per event"
  (procwatch/SUMMARY.md:14), but `sanitize_args` stores into the read-only
  record, so the first record with two arguments ends the tool.

Smaller disagreements met on the way, without a run of their own: `-o` of
pksniff is to "write ALL packets" (Pksniff.c:814) but packets of a pause are not
written (line 299); execguard's window is called sliding (SUMMARY.md:24) but
tumbles, so that `BurstDetected` needs almost twice the rate; in cam_v2 a
deduplicated call does not refresh the last caller (cam_identity.bpf.c:161),
which is why `FreshCallerFound` speaks of calls that were remembered; pktrace
does not trace packets shorter than 64 bytes. `parse_dns_name` is said to give
"a dot-joined name, NUL-terminated, truncated to out_max-1" (Pksniff.bpf.c:110-111;
"first DNS query label chain", Pksniff.h:72), but it keeps only the first four
characters of a label and at most eight labels, so that www.google.com is shown
as www.goog.com, and it puts a dot before a label that is then cut off:
`HintsAreOwn` states the name as the code shortens it. Execguard says "Ctrl+C to
stop" (execguard.c:189), and the other tools the like, but a drain that hooks keep
busy without a pause (filewatch_broad prints a line for every vfs_write) does not
look at the flag; pksniff under lasting traffic ignores Q in the same way.
`StopObeyed` and `QuitObeyed` name this exception.

### Bounds

- ProbeTool: two CPUs and a ring that is smaller than the number of events, so
  that it fills, wraps and holds busy and ready records of both CPUs.
- Pksniff: rings of 2 and 3 packets with 4 arrivals wrap; four hosts of which
  two share a slot; two heights of the list; a filter line with room for two
  tokens, so that a deletion can leave a stale one behind the NUL. The pause key is
  pressed in `pksniff_capture` only: with it `pksniff_view` takes too long, and
  saves after a pause are left to the proof (`SavesTheRecent`).
- PacketTools: 2 labels of 2 characters, 2 extensions and 4 characters of a
  server name instead of 8, 4, 16 and 16, so that names one longer than each
  limit are among the packets; packet lengths on both sides of each test; three
  packets on two CPUs, so that a longer string, a shorter one and another kind
  can follow each other.
- TcTools: three runs of both tools, enough for one that is killed, one that is
  ending and one that starts.
- Execguard: two CPUs; keys ls, su and cp with at most 3, 2 and 1 executions, 5
  in all; a map of two entries and four elements, a window of one tick, programs of at
  most one tick, a clock that stops at 2. Three executions of ls and two of su are what
  it takes to replace an element under a program and fill it for the other key;
  with cp the map is full for one of them. CPUs and elements are interchangeable,
  so symmetry is used.
- CamCaller, CamEdges: two CPUs, windows of 1 to 3 ticks, maps and tables of one
  or two entries so that they are full, and three or four hooks. CPUs (and, in
  CamEdges, pids) are interchangeable, so symmetry is used; no liveness is checked
  in these runs or in Execguard's.
- CamFlow: two CPUs, two requests, room for one and three elements: the map is
  full with one request, and an element can be reused while a pointer to it is
  held.
- Filewatch: two watchers of all four combinations of tool and output each,
  three file operations, rings of two records (which fill) and buffers of two
  lines. Larger buffers make fewer writes per line, so that the watchers fall
  silent sooner.
- Procwatch: four records over two places.

Deadlock is checked in `cam_flow`. In the other runs it is not: the tools end,
and the bounds end the models.

## 4. Proofs

All theorems hold for every value of the constants that satisfies the named
assumptions of the module: `RbAssumption`, `PksniffAssumption`,
`TokensAssumption` (only printable characters are typed, Pksniff.c:797),
`TcAssumption`, `ExecguardAssumption`, `CamAssumption`, `EdgesAssumption`,
`CamFlowAssumption`, `FilewatchAssumption`, `ProgramAssumption` (the limits of
the parsers fit their arrays), `PacketsAssumption` and `TraceAssumption`. TLC
evaluates them in the runs.

- **ProbeTool_proofs.** `TypeOK /\ RingInv` is inductive: a program that fills a
  record holds an unreleased busy record with its own event, and the records of
  a CPU are in event order and newer than the last handled one. Without
  `RingInv` neither the type of the ring after a submit nor the order of what is
  handled follows. From it: `TypeCorrect`, `RingCorrect`, and `StreamRefinement`
  (a `Consume` of a ready record is a `Deliver` of the abstract stream, an
  `Enter` a `Fire`, all else a stutter). `EveryEventAccounted` adds `Accounts`:
  whatever is anywhere has happened, and the places an event can be in exclude
  each other; `RecordsInOrder` is what makes the place in the ring unique.
  `NoProbeLeftBehind` rests on an invariant of its own: programs are attached
  only between attach and destroy.
- **Pksniff_proofs.** The key fact is that until the ring is full its head equals
  its count. With it the modular index is computed once (`OneTurn`,
  `RingIndexValue`), and storing a packet is shown to append to the visible
  sequence and to drop its first element when it is full (`ShownAfterStore`):
  `TypeCorrect`, `RingCorrect`, `LogRefinement`, `SelectionAlwaysShown`.
  `LineRefinement` needs `LineInv`, that the buffer holds a string with its NUL
  inside and the cursor on it; each `memmove` is then an edit of the text before
  the NUL (`InsertLine`, `RemoveLine`). `SavesTheRecent`: the ring shows the end
  of what `-o` recorded (`SavedInv`), and filtering keeps ends
  (`SuffixFiltered`). `TopTableRanks`: after n slots the table is a ranking of
  them (`Ranking`: descending, every entry a talker of those slots, distinct
  because each talker sits in its own slot, and nobody dropped who has more bytes
  than one shown), and one more insertion keeps that. `OwnersCountAll`: a slot
  without an owner has counted nothing of its addresses, one with an owner all of
  it (`Owned`). This theorem has a hypothesis, `NoZeroNet`: no source but
  0.0.0.0 has the first octet 0. The code needs it: records without an IP header
  have the address 0.0.0.0 and count in slot 0, which stays without an owner, so
  a source 0.x.y.z would inherit their bytes (update_stats, Pksniff.c:263-267).
  `Filtered`, `BytesOf` and `TopTalkers` are recursive functions; that they exist
  and what they compute is shown by least counterexamples (`Least`, from the
  well-foundedness of the natural numbers).
- **PacketTools_proofs**, on PacketTools. The inductive invariant `ProgramInv` is
  weak on purpose: an event was made by `process_packet` from a captured packet
  and some scratch event, of which nothing is known but the sizes of its arrays;
  `TraceInv` says the same of pktrace. What the properties say of an event must
  then follow from the program for every packet and every leftover of an earlier
  one, so the proofs do not depend on the order or number of packets.
  `OffsetsSafe`, `ToolsAgree` and `PreviewSafe` are arithmetic on the lengths;
  the 16 bit payload length of an event never overflows (`PayloadLen`).
  `SniCorrect` and `HintsCorrect` follow the loops by an induction over their
  turns. `Walked`: after n extensions the walk is at the end of the n-th and has
  met no server name, or it is done and has the name exactly if all of it that
  is looked at is in the packet; that the end of the extensions is the smaller
  of two bounds makes no difference (`HeadFits`, `NameFits`). `Turned`: after n
  turns the position is the end of the n-th label and the text is the first n
  labels joined, or the loop has stopped behind the last whole label, with a dot
  if another one begins; this rests on what the bytes of a name are (`NameAt`).
  `DnsValue` shows that the text and its NUL fit in MAX_DNS_NAME, which is why
  the model needs no test of `out_pos`. A C string is read back by `CStringTo`,
  so whatever is behind the NUL cannot show, except behind a server name without
  one, which is what `SniFound` leaves open and the finding is about.
  The recursive functions are shown to exist by `UpTo`, an induction over a set
  of numbers (no operator is a parameter of it).
- **PacketTools_proofs**, on TcTools. The invariant `Agree` says that what a live
  run believes to have attached is what the kernel holds for it, and conversely.
  Results: `TypeCorrect`, `FilterKept`, `NothingLeft`, `OrphanForever`.
- **Execguard_proofs.** `Apart` says who may reach an element, through the map or
  a pointer: two keys share one only if both raced, and the programs of a key
  that did not race reach none but its own. `NeverOvercounts`: a program's
  executions fall into groups, the raced keys together and every other key by
  itself; every count, in an element somebody reaches, in a program's hands or in
  a record, is covered by the executions of its group other than those whose
  program has yet to count (`Covered`). A key that becomes raced joins its group
  to the raced one, which only adds executions. `NoFalseAlarm`: for a key that was
  not raced the only program in flight is followed line by line (`AllSingle`), and
  by `Apart` no other program writes its element, so that it never counts more than
  the executions since its window began. `BurstsAlert`: a function that names for
  each record the start of its window exists (`AllBursts`); windows do not overlap
  and no window reports a count twice, so records within `WINDOW` lie in at most
  two windows and, being 2 * ALERT_AT - 1 of them, at least ALERT_AT of them in
  one: counting them (`OneWindow`, `TwoWindows`) gives one with a count of at least
  ALERT_AT.
- **CamCaller_proofs.** The three theorems about sessions share one invariant:
  no program runs longer than `MaxRun` (`Clocked`); a call in progress is in the
  history (`Listed`); the time that is stored is at most `MaxRun` later than a
  call of the pid that is stored, unless its program has yet to store its pid
  (`Paired`), and at most `MaxRun` earlier than any call that was remembered
  (`Newest`), in whichever order the two stores take effect. What a session event
  has loaded (`Known`), may name through its pointer (`Named`) and has recorded
  (`Told`) follows. `ReportsAreSpaced` has its own: only a full map refuses a pid
  and it stays full (`Remembered`), and the map holds the last reported call of
  an app that was not raced (`Spaced`).
- **CamEdges_proofs.** `Queue`: an edge precedes its call in the ring, or was
  dropped. `Table`: edges are numbered in the order in which they were handled,
  and the last MAX_EDGES are in the table, each at its number modulo MAX_EDGES.
  `Found`: what is shown is what a search would find now. Results: `LinkTheorem`,
  `CallTheorem`.
- **CamFlow_proofs.** `TypeOK /\ TableExact` is inductive. `LatencySafe` needs in
  addition that a done program of a request whose programs do not overlap began
  after the apply it belongs to, and that a latency once computed stays the one
  owed (`OnTime`, `Timely`). `RefusedOnlyWhenFull` follows from `TableExact`:
  whoever is in the map is outstanding, running or had overlapping programs.
- **Filewatch_proofs.** `NeverRecordsItself`: the probes of a watcher are attached
  only once its pid is stored (`PidBeforeProbes`), so that nothing of its own can
  enter its ring; records of what happened before do not exist. `EchoesNeverEnd`
  follows action by action.

Only model-checked: liveness (`StopObeyed`, `SubmittedIsHandled`, `QuitObeyed`,
`FallsSilent`), which is outside the prover's reach. Every other property of a
passing run is stated by a theorem.

## 5. Not modelled

- The kernel's ring buffer, maps and TC, and libbpf, beyond what the tools see.
- Printed lines, colours, process names read from `/proc`, the foreground
  package and its cache, file names, exit statuses.
- Option parsing, except pktrace's `--payload`; the characters inside a token of
  pksniff's filter line.
- A ClientHello whose inner lengths contradict each other, and NULs inside a DNS
  label or a server name (PacketProgram reads payloads that may be cut off but
  are otherwise consistent).
- A restart of cameraserver while cam_identity runs.
- A save of pksniff whose file cannot be opened (it returns and changes nothing).
- The foreground package of cam_v2: which package is in front is decided outside
  the repository, and with its cache CamEdges is beyond TLC's reach.
- The maps of cam_ident and cam_buffer (pid_to_camera, pid_to_comm, buffer_map):
  nothing ever reads them. privwatch's severity rule: two comparisons.

## 6. Plan

Done, in this order: tool skeleton; pksniff's user side; TC attachment;
execguard; cam_v2's callers and edges; pksniff's kernel program; pktrace's
program and the composition of the two; pksniff's filter line and its
refinement; cam_flow; version 1 of cam_identity; the two file watchers;
procwatch's arguments.

Then the proofs, by component: tool skeleton, ring and log, TC attachment;
cam_flow, filewatch, callers, edges, the fates of events, the filter line,
execguard; pksniff's saved view, talker table and ranking; the two packet
programs and their parsers.

Left: nothing of the plan. The liveness properties stay with TLC; what section 5
lists would be new modelling.
