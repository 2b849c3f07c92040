-------------------------- MODULE CamCaller_proofs --------------------------
(***************************************************************************)
(* Proofs about CamCaller, both versions, for any number of CPUs, apps and *)
(* camera processes, any windows and any size of recent_caller.            *)
(*                                                                         *)
(* last_caller and last_caller_ns are two maps, stored and loaded one      *)
(* after the other by programs that overlap.  Paired and Newest say what   *)
(* still holds of the two together: they are never further apart than a    *)
(* program may run, except while a program is between its two stores.      *)
(* Known carries that over to a session program that was not disturbed     *)
(* between its own two loads.                                              *)
(***************************************************************************)
EXTENDS CamCaller, TLAPS

(* Arithmetic on times. *)
LEMMA NotMuchLater ==
  ASSUME NEW a \in Nat, NEW b \in Nat, NEW now \in Nat, NEW run \in Nat,
         a <= now, now <= b + run
  PROVE  a <= b + run
OBVIOUS

LEMMA InMatchWindow ==
  ASSUME NEW m \in Nat, NEW t \in Nat, NEW n \in Nat, NEW window \in Nat, NEW run \in Nat,
         m <= n, t <= m + run, n - t <= window
  PROVE  m \in (n - window - run)..n
OBVIOUS

LEMMA BeforeMatchWindow ==
  ASSUME NEW m \in Nat, NEW t \in Nat, NEW n \in Nat, NEW window \in Nat, NEW run \in Nat,
         m <= t + run, n - t > window
  PROVE  m < n - window + run
OBVIOUS

USE CamAssumption

Callers == [pc : {"dedup", "recent", "last"}, pid : Apps, now : Nat, todo : SUBSET {"pid", "ns"}]
Watchers == [pc : {"load", "infer"}, pid : Others, now : Nat, todo : SUBSET {"pid", "ns"},
             who : Apps \cup {NoPid}, ns : Nat, later : SUBSET Apps, seen : Nat, quiet : BOOLEAN]

Calling(c) == prog[c].pc \in {"dedup", "recent", "last"}
Watching(c) == prog[c].pc \in {"load", "infer"}

Types ==
  /\ version \in {1, 2} /\ clock \in Nat /\ clock <= MaxTime
  /\ prog \in [CPUs -> {Idle} \cup Callers \cup Watchers]
  /\ recent_caller \in [DOMAIN recent_caller -> Nat]
  /\ last_caller \in Apps \cup {NoPid} /\ last_caller_ns \in Nat
  /\ calls \in Seq([pid : Apps, now : Nat])
  /\ kept \in Seq([pid : Apps, now : Nat])

(* No time is later than the clock, no program takes longer than MaxRun,   *)
(* and one has something left to do at each of its steps.                  *)
Clocked ==
  /\ \A c \in CPUs : prog[c].pc # "idle" => prog[c].now <= clock /\ clock <= prog[c].now + MaxRun
  /\ last_caller_ns <= clock
  /\ \A j \in 1..Len(kept) : kept[j].now <= clock
  /\ \A c \in CPUs :
       /\ prog[c].pc \in {"dedup", "recent"} => prog[c].todo = Parts
       /\ prog[c].pc \in {"last", "load"} => prog[c].todo \subseteq Parts /\ prog[c].todo # {}

-----------------------------------------------------------------------------
(* p called cameraserver. *)
CalledAt(p, i) == i \in 1..Len(calls) /\ calls[i].pid = p

(* Every call in progress is in the history. *)
Listed ==
  \A c \in CPUs : Calling(c) => \E i \in 1..Len(calls) : CalledAt(prog[c].pid, i) /\ calls[i].now = prog[c].now

(* The time stored is not much later than the call of the pid stored,      *)
(* unless its program is going to store its pid as well.                   *)
Paired ==
  last_caller # NoPid =>
    \E i \in 1..Len(calls) :
      /\ CalledAt(last_caller, i) /\ calls[i].now <= clock
      /\ \/ last_caller_ns <= calls[i].now + MaxRun
         \/ \E c \in CPUs : /\ prog[c].pc = "last" /\ prog[c].todo = {"pid"}
                            /\ prog[c].now = last_caller_ns
      /\ \A c \in CPUs : prog[c].pc = "last" /\ "pid" \notin prog[c].todo =>
           prog[c].now <= calls[i].now + MaxRun

(* The time stored is not much earlier than any call remembered. *)
Newest ==
  /\ version = 2 =>
       /\ \A j \in 1..Len(kept) : kept[j].now <= last_caller_ns + MaxRun
       /\ \A c \in CPUs : prog[c].pc = "last" /\ "ns" \notin prog[c].todo =>
            prog[c].now <= last_caller_ns + MaxRun
  /\ last_caller = NoPid => Len(kept) = 0 /\ \A c \in CPUs : prog[c].pc = "last" => "pid" \in prog[c].todo

(* The pair (who, ns) is a good answer at time now, when the first seen of *)
(* the calls ks were complete.                                             *)
Good(cs, ks, who, ns, now, seen) ==
  /\ ns <= now
  /\ who # NoPid => \E i \in 1..Len(cs) : /\ cs[i].pid = who /\ cs[i].now <= now
                                            /\ ns <= cs[i].now + MaxRun
  /\ who = NoPid => seen = 0
  /\ \A j \in 1..seen : ks[j].now <= ns + MaxRun

KnownTo(c) ==
  /\ prog[c].seen <= Len(kept)
  /\ prog[c].who # NoPid => \E i \in 1..Len(calls) : calls[i].pid = prog[c].who
  /\ version = 2 /\ prog[c].quiet =>
       /\ prog[c].pc = "load" =>
            /\ Good(calls, kept, last_caller, last_caller_ns, prog[c].now, prog[c].seen)
            /\ "pid" \notin prog[c].todo => prog[c].who = last_caller
            /\ "ns" \notin prog[c].todo => prog[c].ns = last_caller_ns
       /\ prog[c].pc = "infer" =>
            Good(calls, kept, prog[c].who, prog[c].ns, prog[c].now, prog[c].seen)

Known == \A c \in CPUs : Watching(c) => KnownTo(c)

-----------------------------------------------------------------------------
(* Version 1: p was stored by one of the calls from..to of ks. *)
WasLast(ks, p, from, to) == \E j \in 1..to : from <= j /\ ks[j].pid = p

NamedBy(c) ==
  /\ prog[c].pc = "load" => prog[c].seen <= Len(kept) /\ prog[c].later = {}
  /\ prog[c].pc = "infer" =>
       /\ prog[c].seen <= Len(kept)
       /\ prog[c].who = NoPid => prog[c].seen = 0
       /\ prog[c].who # NoPid => WasLast(kept, prog[c].who, prog[c].seen, Len(kept))
       /\ \A p \in prog[c].later : WasLast(kept, p, prog[c].seen, Len(kept))

Named ==
  version = 1 =>
    /\ Len(kept) = 0 => last_caller = NoPid
    /\ Len(kept) # 0 => last_caller = kept[Len(kept)].pid
    /\ \A c \in CPUs : NamedBy(c)

-----------------------------------------------------------------------------
(* The reported session events: what one says of the history stays true. *)
Told(r) ==
  /\ r.seen \in Nat /\ r.seen <= Len(kept) /\ r.upto \in Nat /\ r.upto <= Len(kept)
  /\ \/ version = 1
     \/ r.pid = r.own
     \/ \E i \in 1..Len(calls) :
          /\ calls[i].pid = r.pid
          /\ r.quiet => calls[i].now \in (r.now - MATCH_WINDOW - MaxRun)..r.now
  /\ r.quiet /\ r.pid = r.own => \A j \in 1..r.seen : kept[j].now < r.now - MATCH_WINDOW + MaxRun
  /\ version = 1 => IF r.pid = NoPid THEN r.seen = 0
                    ELSE \E j \in r.seen..r.upto : j > 0 /\ kept[j].pid = r.pid

Records == \A r \in sessions : Told(r)

-----------------------------------------------------------------------------
(* What the dedup test means for an app whose transactions do not overlap. *)
Full == ~(Cardinality(DOMAIN recent_caller) < MaxCallers)

Spaced(p) ==
  /\ \A c, d \in CPUs : Calling(c) /\ Calling(d) /\ prog[c].pid = p /\ prog[d].pid = p => c = d
  /\ p \in DOMAIN recent_caller =>
       /\ recent_caller[p] <= clock
       /\ \A j \in 1..Len(kept) : kept[j].pid = p => kept[j].now <= recent_caller[p]
       /\ \A i, j \in 1..Len(kept) : i < j /\ kept[i].pid = p /\ kept[j].pid = p =>
            kept[j].now - kept[i].now >= DEDUP_WINDOW
       /\ \A c \in CPUs : Calling(c) /\ prog[c].pid = p =>
            /\ prog[c].pc = "dedup" => recent_caller[p] <= prog[c].now
            /\ prog[c].pc = "recent" => prog[c].now - recent_caller[p] >= DEDUP_WINDOW
            /\ prog[c].pc = "last" =>
                 /\ recent_caller[p] = prog[c].now
                 /\ \A j \in 1..Len(kept) : kept[j].pid = p => prog[c].now - kept[j].now >= DEDUP_WINDOW

(* Only a full map refuses a pid, and it stays full. *)
Remembered ==
  /\ \A j \in 1..Len(kept) : kept[j].pid \in DOMAIN recent_caller \/ Full
  /\ \A c \in CPUs : prog[c].pc = "last" => prog[c].pid \in DOMAIN recent_caller \/ Full

DedupInv == Remembered /\ \A p \in Apps \ raced : Spaced(p)
-----------------------------------------------------------------------------
(* What each step does to the fields of the programs.                      *)

LEMMA ProgramFields ==
  ASSUME Types, NEW c \in CPUs
  PROVE  /\ prog[c].pc = "idle" => prog[c] = Idle
         /\ Calling(c) => prog[c] \in Callers
         /\ Watching(c) => prog[c] \in Watchers
         /\ prog[c].pc = "idle" \/ Calling(c) \/ Watching(c)
         /\ prog[c].pc # "idle" => prog[c].now \in Nat /\ prog[c].todo \subseteq {"pid", "ns"}
<1>1. prog[c] \in {Idle} \cup Callers \cup Watchers
  BY DEF Types
<1>2. CASE prog[c] = Idle
  BY <1>2 DEF Idle, Calling, Watching
<1>3. CASE prog[c] \in Callers
  BY <1>3 DEF Callers, Calling, Watching
<1>4. CASE prog[c] \in Watchers
  BY <1>4 DEF Watchers, Calling, Watching
<1> QED
  BY <1>1, <1>2, <1>3, <1>4

LEMMA HistoryFields ==
  ASSUME Types
  PROVE  /\ Len(calls) \in Nat /\ \A i \in 1..Len(calls) : calls[i].pid \in Apps /\ calls[i].now \in Nat
         /\ Len(kept) \in Nat /\ \A j \in 1..Len(kept) : kept[j].pid \in Apps /\ kept[j].now \in Nat
<1>0. PICK R : R = [pid : Apps, now : Nat]
  OBVIOUS
<1>s. calls \in Seq(R) /\ kept \in Seq(R)
  BY <1>0 DEF Types
<1>1. \A i \in 1..Len(calls) : calls[i] \in R
  BY <1>s
<1>2. \A j \in 1..Len(kept) : kept[j] \in R
  BY <1>s
<1>3. Len(calls) \in Nat /\ Len(kept) \in Nat
  BY SMTT(40) DEF Types
<1> QED
  BY <1>0, <1>1, <1>2, <1>3

(* Only the program of CPU c moves. *)
OnlyOn(c) == \A d \in CPUs : d # c => prog'[d] = prog[d]

LEMMA OneMoves ==
  ASSUME Types, NEW c \in CPUs, OnlyOn(c), prog' = [prog EXCEPT ![c] = prog'[c]],
         prog'[c] \in {Idle} \cup Callers \cup Watchers
  PROVE  prog' \in [CPUs -> {Idle} \cup Callers \cup Watchers]
BY DEF Types, OnlyOn

LEMMA TransactionFields ==
  ASSUME Types, NEW c \in CPUs, NEW p \in Apps, Transaction(c, p)
  PROVE  /\ OnlyOn(c) /\ prog' = [prog EXCEPT ![c] = prog'[c]]
         /\ prog'[c] \in Callers /\ prog'[c].pc = "dedup"
         /\ prog'[c].pid = p /\ prog'[c].now = clock /\ prog'[c].todo = Parts
<1>1. prog' = [prog EXCEPT ![c] = [pc |-> "dedup", pid |-> p, now |-> clock, todo |-> Parts]]
  BY DEF Transaction
<1>2. [pc |-> "dedup", pid |-> p, now |-> clock, todo |-> Parts] \in Callers
  BY DEF Callers, Parts, Types
<1> QED
  BY <1>1, <1>2 DEF Types, OnlyOn

LEMMA DedupFields ==
  ASSUME Types, NEW c \in CPUs, Dedup(c)
  PROVE  /\ OnlyOn(c) /\ prog' = [prog EXCEPT ![c] = prog'[c]]
         /\ \/ prog'[c] = Idle
            \/ /\ prog'[c] \in Callers /\ prog'[c].pc = "recent"
               /\ prog'[c].pid = prog[c].pid /\ prog'[c].now = prog[c].now
               /\ prog'[c].todo = prog[c].todo /\ ~SeenRecently(prog[c].pid, prog[c].now)
<1>1. prog[c] \in Callers
  BY ProgramFields DEF Dedup, Calling
<1>2. [prog[c] EXCEPT !.pc = "recent"] =
        [pc |-> "recent", pid |-> prog[c].pid, now |-> prog[c].now, todo |-> prog[c].todo]
  BY <1>1 DEF Callers
<1>3. \/ prog' = [prog EXCEPT ![c] = Idle]
      \/ /\ prog' = [prog EXCEPT ![c] = [prog[c] EXCEPT !.pc = "recent"]]
         /\ ~SeenRecently(prog[c].pid, prog[c].now)
  BY DEF Dedup
<1> QED
  BY <1>1, <1>2, <1>3, ZenonT(60) DEF Types, OnlyOn, Callers

LEMMA RecentFields ==
  ASSUME Types, NEW c \in CPUs, RememberRecent(c)
  PROVE  /\ OnlyOn(c) /\ prog' = [prog EXCEPT ![c] = prog'[c]]
         /\ prog'[c] \in Callers /\ prog'[c].pc = "last"
         /\ prog'[c].pid = prog[c].pid /\ prog'[c].now = prog[c].now
         /\ prog'[c].todo = prog[c].todo
<1>1. prog[c] \in Callers
  BY ProgramFields DEF RememberRecent, Calling
<1>2. [prog[c] EXCEPT !.pc = "last"] =
        [pc |-> "last", pid |-> prog[c].pid, now |-> prog[c].now, todo |-> prog[c].todo]
  BY <1>1 DEF Callers
<1>3. prog' = [prog EXCEPT ![c] = [prog[c] EXCEPT !.pc = "last"]]
  BY DEF RememberRecent
<1> QED
  BY <1>1, <1>2, <1>3 DEF Types, OnlyOn, Callers

LEMMA SessionFields ==
  ASSUME Types, NEW c \in CPUs, NEW p \in Others, Session(c, p)
  PROVE  /\ OnlyOn(c) /\ prog' = [prog EXCEPT ![c] = prog'[c]]
         /\ prog'[c] \in Watchers /\ prog'[c].pc = "load"
         /\ prog'[c].pid = p /\ prog'[c].now = clock /\ prog'[c].todo = Parts
         /\ prog'[c].who = NoPid /\ prog'[c].later = {} /\ prog'[c].seen = Len(kept)
         /\ prog'[c].quiet = (\A d \in CPUs : prog[d].pc # "last")
<1> DEFINE new == [pc |-> "load", pid |-> p, now |-> clock, todo |-> Parts,
                   who |-> NoPid, ns |-> 0, later |-> {}, seen |-> Len(kept),
                   quiet |-> \A d \in CPUs : prog[d].pc # "last"]
<1>1. prog' = [prog EXCEPT ![c] = new]
  BY DEF Session
<1>2. new \in Watchers
  BY DEF Watchers, Parts, Types
<1> QED
  BY <1>1, <1>2 DEF Types, OnlyOn

LEMMA LoadFields ==
  ASSUME Types, NEW c \in CPUs, NEW f \in {"pid", "ns"}, LoadLast(c, f)
  PROVE  /\ OnlyOn(c) /\ prog' = [prog EXCEPT ![c] = prog'[c]]
         /\ prog'[c] \in Watchers
         /\ prog'[c].pc = IF prog[c].todo = {f} THEN "infer" ELSE "load"
         /\ prog'[c].pid = prog[c].pid /\ prog'[c].now = prog[c].now
         /\ prog'[c].todo = prog[c].todo \ {f}
         /\ prog'[c].who = IF f = "pid" THEN last_caller ELSE prog[c].who
         /\ prog'[c].ns = IF f = "ns" THEN last_caller_ns ELSE prog[c].ns
         /\ prog'[c].later = prog[c].later /\ prog'[c].seen = prog[c].seen
         /\ prog'[c].quiet = prog[c].quiet
<1> DEFINE new == [pc |-> IF prog[c].todo = {f} THEN "infer" ELSE "load",
                   pid |-> prog[c].pid, now |-> prog[c].now, todo |-> prog[c].todo \ {f},
                   who |-> IF f = "pid" THEN last_caller ELSE prog[c].who,
                   ns |-> IF f = "ns" THEN last_caller_ns ELSE prog[c].ns,
                   later |-> prog[c].later, seen |-> prog[c].seen, quiet |-> prog[c].quiet]
<1>1. prog[c] \in Watchers
  BY ProgramFields DEF LoadLast, Watching
<1>2. new \in Watchers
  BY <1>1 DEF Watchers, Types
<1>3. prog'[c] = [prog[c] EXCEPT !.todo = @ \ {f},
                                 !.pc = IF prog[c].todo = {f} THEN "infer" ELSE "load",
                                 !.who = IF f = "pid" THEN last_caller ELSE @,
                                 !.ns = IF f = "ns" THEN last_caller_ns ELSE @]
  BY DEF LoadLast, Types
<1>4. prog'[c] = new
  BY <1>1, <1>3, ZenonT(60) DEF Watchers
<1>5. OnlyOn(c) /\ prog' = [prog EXCEPT ![c] = prog'[c]]
  BY DEF LoadLast, Types, OnlyOn
<1> QED
  BY <1>2, <1>4, <1>5

(* The program that stores, and those of the other CPUs. *)
LEMMA StoreFields ==
  ASSUME Types, NEW c \in CPUs, NEW f \in {"pid", "ns"}, RememberLast(c, f)
  PROVE  /\ \/ prog[c].todo = {f} /\ prog'[c] = Idle
            \/ /\ prog[c].todo # {f} /\ prog'[c] \in Callers /\ prog'[c].pc = "last"
               /\ prog'[c].pid = prog[c].pid /\ prog'[c].now = prog[c].now
               /\ prog'[c].todo = prog[c].todo \ {f}
         /\ \A d \in CPUs : d # c /\ ~Watching(d) => prog'[d] = prog[d]
         /\ \A d \in CPUs : d # c /\ Watching(d) =>
              /\ prog'[d] \in Watchers /\ prog'[d].pc = prog[d].pc
              /\ prog'[d].pid = prog[d].pid /\ prog'[d].now = prog[d].now
              /\ prog'[d].todo = prog[d].todo /\ prog'[d].who = prog[d].who
              /\ prog'[d].ns = prog[d].ns /\ prog'[d].seen = prog[d].seen
              /\ IF prog[d].pc = "load"
                   THEN prog'[d].quiet = FALSE /\ prog'[d].later = prog[d].later
                   ELSE /\ prog'[d].quiet = prog[d].quiet
                        /\ prog'[d].later \in {prog[d].later, prog[d].later \cup {prog[c].pid}}
         /\ prog' \in [CPUs -> {Idle} \cup Callers \cup Watchers]
<1>1. prog[c] \in Callers
  BY ProgramFields DEF RememberLast, Calling
<1>2. prog' = Stored(c, f) /\ DOMAIN prog' = CPUs
  BY DEF RememberLast, Stored
<1>3. \/ prog[c].todo = {f} /\ prog'[c] = Idle
      \/ /\ prog[c].todo # {f} /\ prog'[c] \in Callers /\ prog'[c].pc = "last"
         /\ prog'[c].pid = prog[c].pid /\ prog'[c].now = prog[c].now
         /\ prog'[c].todo = prog[c].todo \ {f}
  <2>1. prog'[c] = IF prog[c].todo = {f} THEN Idle ELSE [prog[c] EXCEPT !.todo = @ \ {f}]
    BY <1>2 DEF Stored
  <2>2. [prog[c] EXCEPT !.todo = @ \ {f}] =
          [pc |-> prog[c].pc, pid |-> prog[c].pid, now |-> prog[c].now, todo |-> prog[c].todo \ {f}]
    <3>1. PICK v : v = prog[c].todo \ {f}
      OBVIOUS
    <3>2. [prog[c] EXCEPT !.todo = v] =
            [pc |-> prog[c].pc, pid |-> prog[c].pid, now |-> prog[c].now, todo |-> v]
      BY <1>1 DEF Callers
    <3> QED
      BY <3>1, <3>2
  <2>3. prog[c].pc = "last"
    BY DEF RememberLast
  <2>4. [pc |-> prog[c].pc, pid |-> prog[c].pid, now |-> prog[c].now, todo |-> prog[c].todo \ {f}]
          \in Callers
    BY <1>1 DEF Callers
  <2>5. CASE prog[c].todo = {f}
    BY <2>1, <2>5
  <2>6. CASE prog[c].todo # {f}
    <3>1. prog'[c] = [pc |-> prog[c].pc, pid |-> prog[c].pid, now |-> prog[c].now,
                      todo |-> prog[c].todo \ {f}]
      BY <2>1, <2>2, <2>6
    <3> QED
      BY <2>3, <2>4, <2>6, <3>1
  <2> QED
    BY <2>5, <2>6
<1>4. ASSUME NEW d \in CPUs, d # c, ~Watching(d) PROVE prog'[d] = prog[d]
  BY <1>2, <1>4 DEF Stored, Watching
<1>5. ASSUME NEW d \in CPUs, d # c, Watching(d)
      PROVE  /\ prog'[d] \in Watchers /\ prog'[d].pc = prog[d].pc
             /\ prog'[d].pid = prog[d].pid /\ prog'[d].now = prog[d].now
             /\ prog'[d].todo = prog[d].todo /\ prog'[d].who = prog[d].who
             /\ prog'[d].ns = prog[d].ns /\ prog'[d].seen = prog[d].seen
             /\ IF prog[d].pc = "load"
                  THEN prog'[d].quiet = FALSE /\ prog'[d].later = prog[d].later
                  ELSE /\ prog'[d].quiet = prog[d].quiet
                       /\ prog'[d].later \in {prog[d].later, prog[d].later \cup {prog[c].pid}}
  <2>1. prog[d] \in Watchers
    BY <1>5, ProgramFields
  <2>2. CASE prog[d].pc = "load"
    <3>1. prog'[d] = [prog[d] EXCEPT !.quiet = FALSE]
      BY <1>2, <1>5, <2>2 DEF Stored
    <3> QED
      BY <2>1, <2>2, <3>1 DEF Watchers
  <2>3. CASE prog[d].pc # "load"
    <3>1. prog'[d] = prog[d] \/ prog'[d] = [prog[d] EXCEPT !.later = @ \cup {prog[c].pid}]
      BY <1>2, <1>5, <2>3 DEF Stored
    <3>2. prog[c].pid \in Apps
      BY <1>1 DEF Callers
    <3> QED
      BY <2>1, <2>3, <3>1, <3>2 DEF Watchers
  <2> QED
    BY <2>2, <2>3
<1>6. ASSUME NEW d \in CPUs PROVE prog'[d] \in {Idle} \cup Callers \cup Watchers
  <2>1. prog[d] \in {Idle} \cup Callers \cup Watchers
    BY DEF Types
  <2> QED
    BY <1>3, <1>4, <1>5, <2>1
<1>7. prog' \in [CPUs -> {Idle} \cup Callers \cup Watchers]
  <2>1. prog' = [d \in CPUs |-> prog'[d]]
    BY <1>2 DEF Stored
  <2> QED
    BY <1>6, <2>1
<1> QED
  BY <1>3, <1>4, <1>5, <1>7
-----------------------------------------------------------------------------
(* Types and times.                                                        *)

Base == Types /\ Clocked

(* A step of one program that leaves the clock, the last caller and the    *)
(* calls remembered alone. *)
LEMMA PlainBase ==
  ASSUME Base, NEW c \in CPUs, OnlyOn(c), prog' = [prog EXCEPT ![c] = prog'[c]],
         prog'[c] \in {Idle} \cup Callers \cup Watchers,
         UNCHANGED <<version, clock, last_caller, last_caller_ns, kept>>,
         recent_caller' \in [DOMAIN recent_caller' -> Nat],
         calls' \in Seq([pid : Apps, now : Nat]),
         \/ prog'[c] = Idle
         \/ /\ prog'[c].now <= clock /\ clock <= prog'[c].now + MaxRun
            /\ prog'[c].pc \in {"dedup", "recent"} => prog'[c].todo = Parts
            /\ prog'[c].pc \in {"last", "load"} => prog'[c].todo \subseteq Parts /\ prog'[c].todo # {}
  PROVE  Base'
<1>1. prog' \in [CPUs -> {Idle} \cup Callers \cup Watchers]
  BY OneMoves DEF Base
<1>2. Types'
  BY <1>1 DEF Base, Types
<1>3. Parts' = Parts
  BY DEF Parts
<1>4. ASSUME NEW d \in CPUs
      PROVE  /\ prog'[d].pc # "idle" => prog'[d].now <= clock /\ clock <= prog'[d].now + MaxRun
             /\ prog'[d].pc \in {"dedup", "recent"} => prog'[d].todo = Parts
             /\ prog'[d].pc \in {"last", "load"} => prog'[d].todo \subseteq Parts /\ prog'[d].todo # {}
  <2>1. CASE d = c
    BY <2>1 DEF Idle
  <2>2. CASE d # c
    <3>1. prog'[d] = prog[d]
      BY <2>2 DEF OnlyOn
    <3> QED
      BY <3>1 DEF Base, Clocked
  <2> QED
    BY <2>1, <2>2
<1>5. Clocked'
  BY <1>3, <1>4 DEF Base, Clocked
<1> QED
  BY <1>2, <1>5 DEF Base

LEMMA TransactionBase ==
  ASSUME Base, NEW c \in CPUs, NEW p \in Apps, Transaction(c, p)
  PROVE  Base'
<1>1. UNCHANGED <<version, clock, last_caller, last_caller_ns, kept, recent_caller>>
  BY DEF Transaction, mapVars
<1>2. calls' \in Seq([pid : Apps, now : Nat])
  <2>1. [pid |-> p, now |-> clock] \in [pid : Apps, now : Nat]
    BY DEF Base, Types
  <2> QED
    BY <2>1 DEF Transaction, Base, Types
<1>3. clock \in Nat /\ recent_caller' \in [DOMAIN recent_caller' -> Nat]
  BY <1>1 DEF Base, Types
<1>4. /\ OnlyOn(c) /\ prog' = [prog EXCEPT ![c] = prog'[c]]
      /\ prog'[c] \in Callers /\ prog'[c].pc = "dedup"
      /\ prog'[c].now = clock /\ prog'[c].todo = Parts
  BY TransactionFields DEF Base
<1>5. prog'[c].now <= clock /\ clock <= prog'[c].now + MaxRun
  BY <1>3, <1>4
<1> QED
  BY <1>1, <1>2, <1>3, <1>4, <1>5, PlainBase

LEMMA DedupBase ==
  ASSUME Base, NEW c \in CPUs, Dedup(c)
  PROVE  Base'
<1>1. UNCHANGED <<version, clock, last_caller, last_caller_ns, kept, recent_caller, calls>>
  BY DEF Dedup, mapVars, histVars
<1>2. prog[c].pc = "dedup"
  BY DEF Dedup
<1>3. prog[c].now <= clock /\ clock <= prog[c].now + MaxRun /\ prog[c].todo = Parts
  BY <1>2 DEF Base, Clocked
<1>4. /\ OnlyOn(c) /\ prog' = [prog EXCEPT ![c] = prog'[c]]
      /\ \/ prog'[c] = Idle
         \/ /\ prog'[c] \in Callers /\ prog'[c].pc = "recent"
            /\ prog'[c].now = prog[c].now /\ prog'[c].todo = prog[c].todo
  BY DedupFields DEF Base
<1>5. recent_caller' \in [DOMAIN recent_caller' -> Nat] /\ calls' \in Seq([pid : Apps, now : Nat])
  BY <1>1 DEF Base, Types
<1> QED
  BY <1>1, <1>3, <1>4, <1>5, PlainBase

(* m is recent_caller after an update of the entry of p: a map that is     *)
(* full takes no new pid.                                                  *)
UpdateOf(m, p, now) ==
  /\ p \in DOMAIN recent_caller \/ ~Full => DOMAIN m = DOMAIN recent_caller \cup {p} /\ m[p] = now
  /\ p \notin DOMAIN recent_caller /\ Full => m = recent_caller
  /\ \A q \in DOMAIN recent_caller : q # p => q \in DOMAIN m /\ m[q] = recent_caller[q]
  /\ \A q \in DOMAIN m : q # p => q \in DOMAIN recent_caller

(* bpf_map_update_elem changes the entry of p, or nothing. *)
LEMMA UpdatedFields ==
  ASSUME Types, NEW p \in Apps, NEW now \in Nat
  PROVE  /\ Updated(p, now) \in [DOMAIN Updated(p, now) -> Nat]
         /\ UpdateOf(Updated(p, now), p, now)
<1>1. recent_caller \in [DOMAIN recent_caller -> Nat]
  BY DEF Types
<1>2. CASE p \in DOMAIN recent_caller \/ ~Full
  <2>1. Updated(p, now) =
          [q \in DOMAIN recent_caller \cup {p} |-> IF q = p THEN now ELSE recent_caller[q]]
    BY <1>2 DEF Updated, Full
  <2> QED
    BY <1>1, <1>2, <2>1 DEF UpdateOf
<1>3. CASE p \notin DOMAIN recent_caller /\ Full
  <2>1. Updated(p, now) = recent_caller
    BY <1>3 DEF Updated, Full
  <2> QED
    BY <1>1, <1>3, <2>1 DEF UpdateOf
<1> QED
  BY <1>2, <1>3

LEMMA RecentBase ==
  ASSUME Base, NEW c \in CPUs, RememberRecent(c)
  PROVE  Base'
<1>1. UNCHANGED <<version, clock, last_caller, last_caller_ns, kept, calls>>
  BY DEF RememberRecent, histVars
<1>2. prog[c].pc = "recent" /\ prog[c] \in Callers
  BY ProgramFields DEF RememberRecent, Base, Calling
<1>3. prog[c].now <= clock /\ clock <= prog[c].now + MaxRun /\ prog[c].todo = Parts
  BY <1>2 DEF Base, Clocked
<1>4. /\ OnlyOn(c) /\ prog' = [prog EXCEPT ![c] = prog'[c]]
      /\ prog'[c] \in Callers /\ prog'[c].pc = "last"
      /\ prog'[c].now = prog[c].now /\ prog'[c].todo = prog[c].todo
  BY RecentFields DEF Base
<1>5. recent_caller' \in [DOMAIN recent_caller' -> Nat]
  <2>1. prog[c].pid \in Apps /\ prog[c].now \in Nat
    BY <1>2 DEF Callers
  <2> QED
    BY <2>1, UpdatedFields DEF RememberRecent, Base
<1>6. calls' \in Seq([pid : Apps, now : Nat]) /\ Parts # {}
  BY <1>1 DEF Base, Types, Parts
<1> QED
  BY <1>1, <1>3, <1>4, <1>5, <1>6, PlainBase

LEMMA SessionBase ==
  ASSUME Base, NEW c \in CPUs, NEW p \in Others, Session(c, p)
  PROVE  Base'
<1>1. UNCHANGED <<version, clock, last_caller, last_caller_ns, kept, recent_caller, calls>>
  BY DEF Session, mapVars, histVars
<1>2. /\ clock \in Nat /\ recent_caller' \in [DOMAIN recent_caller' -> Nat] /\ Parts # {}
      /\ calls' \in Seq([pid : Apps, now : Nat])
  BY <1>1 DEF Base, Types, Parts
<1>3. /\ OnlyOn(c) /\ prog' = [prog EXCEPT ![c] = prog'[c]]
      /\ prog'[c] \in Watchers /\ prog'[c].pc = "load"
      /\ prog'[c].now = clock /\ prog'[c].todo = Parts
  BY SessionFields DEF Base
<1>4. prog'[c].now <= clock /\ clock <= prog'[c].now + MaxRun
  BY <1>2, <1>3
<1> QED
  BY <1>1, <1>2, <1>3, <1>4, PlainBase

LEMMA LoadBase ==
  ASSUME Base, NEW c \in CPUs, NEW f \in {"pid", "ns"}, LoadLast(c, f)
  PROVE  Base'
<1>1. UNCHANGED <<version, clock, last_caller, last_caller_ns, kept, recent_caller, calls>>
  BY DEF LoadLast, mapVars, histVars
<1>2. /\ recent_caller' \in [DOMAIN recent_caller' -> Nat]
      /\ calls' \in Seq([pid : Apps, now : Nat])
  BY <1>1 DEF Base, Types
<1>3. prog[c].pc = "load" /\ f \in prog[c].todo
  BY DEF LoadLast
<1>4. prog[c].now <= clock /\ clock <= prog[c].now + MaxRun /\ prog[c].todo \subseteq Parts
  BY <1>3 DEF Base, Clocked
<1>5. /\ OnlyOn(c) /\ prog' = [prog EXCEPT ![c] = prog'[c]]
      /\ prog'[c] \in Watchers /\ prog'[c].pc = IF prog[c].todo = {f} THEN "infer" ELSE "load"
      /\ prog'[c].now = prog[c].now /\ prog'[c].todo = prog[c].todo \ {f}
  BY LoadFields DEF Base
<1>6. prog'[c].pc = "load" => prog'[c].todo \subseteq Parts /\ prog'[c].todo # {}
  BY <1>3, <1>4, <1>5
<1>7. prog'[c].pc \notin {"dedup", "recent", "last"}
  BY <1>5
<1> QED
  BY <1>1, <1>2, <1>4, <1>5, <1>6, <1>7, PlainBase

LEMMA ReportBase ==
  ASSUME Base, NEW c \in CPUs, Report(c) \/ ReportFails(c)
  PROVE  Base'
<1>1. UNCHANGED <<version, clock, last_caller, last_caller_ns, kept, recent_caller, calls>>
  BY DEF Report, ReportFails, mapVars, histVars
<1>2. /\ recent_caller' \in [DOMAIN recent_caller' -> Nat]
      /\ calls' \in Seq([pid : Apps, now : Nat])
  BY <1>1 DEF Base, Types
<1>3. OnlyOn(c) /\ prog' = [prog EXCEPT ![c] = prog'[c]] /\ prog'[c] = Idle
  BY DEF Report, ReportFails, Base, Types, OnlyOn
<1> QED
  BY <1>1, <1>2, <1>3, PlainBase

(* What a store does to the last caller and to the calls remembered. *)
LEMMA StoreMaps ==
  ASSUME Base, NEW c \in CPUs, NEW f \in {"pid", "ns"}, RememberLast(c, f)
  PROVE  /\ UNCHANGED <<version, clock, recent_caller, sessions, calls, raced>>
         /\ prog[c] \in Callers /\ prog[c].pc = "last" /\ f \in prog[c].todo
         /\ prog[c].now <= clock /\ clock <= prog[c].now + MaxRun
         /\ last_caller' = IF f = "pid" THEN prog[c].pid ELSE last_caller
         /\ last_caller_ns' = IF f = "ns" THEN prog[c].now ELSE last_caller_ns
         /\ kept' \in Seq([pid : Apps, now : Nat])
         /\ prog[c].todo # {f} => kept' = kept
         /\ prog[c].todo = {f} =>
              /\ Len(kept') = Len(kept) + 1
              /\ \A j \in 1..Len(kept) : kept'[j] = kept[j]
              /\ kept'[Len(kept) + 1].pid = prog[c].pid
              /\ kept'[Len(kept) + 1].now = prog[c].now
<1>1. /\ UNCHANGED <<version, clock, recent_caller, sessions, calls, raced>>
      /\ prog[c].pc = "last" /\ f \in prog[c].todo
      /\ last_caller' = IF f = "pid" THEN prog[c].pid ELSE last_caller
      /\ last_caller_ns' = IF f = "ns" THEN prog[c].now ELSE last_caller_ns
  BY DEF RememberLast
<1>2. prog[c] \in Callers
  BY <1>1, ProgramFields DEF Base, Calling
<1>3. prog[c].now <= clock /\ clock <= prog[c].now + MaxRun
  BY <1>1 DEF Base, Clocked
<1>4. kept \in Seq([pid : Apps, now : Nat])
  BY DEF Base, Types
<1>5. CASE prog[c].todo # {f}
  <2>1. kept' = kept
    BY <1>5 DEF RememberLast
  <2> QED
    BY <1>1, <1>2, <1>3, <1>4, <1>5, <2>1
<1>6. CASE prog[c].todo = {f}
  <2>1. PICK r : r = [pid |-> prog[c].pid, now |-> prog[c].now]
    OBVIOUS
  <2>2. r \in [pid : Apps, now : Nat] /\ r.pid = prog[c].pid /\ r.now = prog[c].now
    BY <1>2, <2>1 DEF Callers
  <2>3. kept' = Append(kept, r)
    BY <1>6, <2>1 DEF RememberLast
  <2> QED
    BY <1>1, <1>2, <1>3, <1>4, <1>6, <2>2, <2>3
<1> QED
  BY <1>5, <1>6

LEMMA StoreBase ==
  ASSUME Base, NEW c \in CPUs, NEW f \in {"pid", "ns"}, RememberLast(c, f)
  PROVE  Base'
<1>0. Types
  BY DEF Base
<1>1. Types'
  <2>1. prog' \in [CPUs -> {Idle} \cup Callers \cup Watchers]
    BY StoreFields DEF Base
  <2>2. last_caller' \in Apps \cup {NoPid} /\ last_caller_ns' \in Nat
    BY StoreMaps, SMTT(40) DEF Base, Types, Callers
  <2> QED
    BY <2>1, <2>2, StoreMaps DEF Base, Types
<1>2. last_caller_ns' <= clock' /\ \A j \in 1..Len(kept') : kept'[j].now <= clock'
  <2>1. last_caller_ns' <= clock'
    BY StoreMaps DEF Base, Clocked
  <2>2. CASE prog[c].todo # {f}
    BY <2>1, <2>2, StoreMaps DEF Base, Clocked
  <2>3. CASE prog[c].todo = {f}
    <3>1. ASSUME NEW j \in 1..Len(kept') PROVE kept'[j].now <= clock'
      <4>0. Len(kept) \in Nat
        BY HistoryFields DEF Base
      <4>1. Len(kept) \in Nat /\ Len(kept') = Len(kept) + 1
        BY <2>3, <4>0, StoreMaps
      <4>2. CASE j = Len(kept) + 1
        BY <2>3, <4>2, StoreMaps
      <4>3. CASE j \in 1..Len(kept)
        BY <2>3, <4>3, StoreMaps DEF Base, Clocked
      <4> QED
        BY <4>1, <4>2, <4>3
    <3> QED
      BY <2>1, <3>1
  <2> QED
    BY <2>2, <2>3
<1>3. Parts' = Parts /\ clock' = clock
  BY StoreMaps DEF Parts
<1>4. ASSUME NEW d \in CPUs
      PROVE  /\ prog'[d].pc # "idle" => prog'[d].now <= clock /\ clock <= prog'[d].now + MaxRun
             /\ prog'[d].pc \in {"dedup", "recent"} => prog'[d].todo = Parts
             /\ prog'[d].pc \in {"last", "load"} => prog'[d].todo \subseteq Parts /\ prog'[d].todo # {}
  <2>0. /\ prog[d].pc # "idle" => prog[d].now <= clock /\ clock <= prog[d].now + MaxRun
        /\ prog[d].pc \in {"dedup", "recent"} => prog[d].todo = Parts
        /\ prog[d].pc \in {"last", "load"} => prog[d].todo \subseteq Parts /\ prog[d].todo # {}
    BY DEF Base, Clocked
  <2>1. CASE d = c
    <3>1. prog[c].pc = "last" /\ f \in prog[c].todo
      BY StoreMaps
    <3>2. \/ prog[c].todo = {f} /\ prog'[c] = Idle
          \/ /\ prog[c].todo # {f} /\ prog'[c].pc = "last" /\ prog'[c].now = prog[c].now
             /\ prog'[c].todo = prog[c].todo \ {f}
      BY StoreFields, ZenonT(60) DEF Base
    <3> QED
      BY <2>0, <2>1, <3>1, <3>2 DEF Idle
  <2>2. CASE d # c
    <3>1. CASE Watching(d)
      <4>1. prog'[d].pc = prog[d].pc /\ prog'[d].now = prog[d].now /\ prog'[d].todo = prog[d].todo
        <5>1. d \in CPUs /\ d # c /\ Watching(d)
          BY <2>2, <3>1
        <5> QED
          BY <1>0, <5>1, StoreFields, ZenonT(60)
      <4> QED
        BY <2>0, <4>1
    <3>2. CASE ~Watching(d)
      <4>1. prog'[d] = prog[d]
        BY <1>0, <2>2, <3>2, StoreFields
      <4> QED
        BY <2>0, <4>1
    <3> QED
      BY <3>1, <3>2
  <2> QED
    BY <2>1, <2>2
<1>5. Clocked'
  BY <1>2, <1>3, <1>4 DEF Clocked
<1> QED
  BY <1>1, <1>5 DEF Base

LEMMA TickBase ==
  ASSUME Base, Tick
  PROVE  Base'
<1>1. UNCHANGED <<version, prog, recent_caller, last_caller, last_caller_ns, calls, kept>>
  BY DEF Tick, mapVars, histVars
<1>2. clock' = clock + 1 /\ clock < MaxTime /\ clock \in Nat
  BY DEF Tick, Base, Types
<1>3. Types'
  BY <1>1, <1>2, SMTT(40) DEF Base, Types
<1>4. ASSUME NEW c \in CPUs, prog[c].pc # "idle"
      PROVE  prog[c].now <= clock' /\ clock' <= prog[c].now + MaxRun
  <2>1. prog[c].now \in Nat
    BY <1>4, ProgramFields DEF Base
  <2>2. clock' - prog[c].now <= MaxRun /\ prog[c].now <= clock
    BY <1>4 DEF Tick, Base, Clocked
  <2> QED
    BY <1>2, <2>1, <2>2
<1>5. last_caller_ns <= clock' /\ \A j \in 1..Len(kept) : kept[j].now <= clock'
  <2>1. last_caller_ns \in Nat /\ last_caller_ns <= clock
    BY DEF Base, Types, Clocked
  <2>2. \A j \in 1..Len(kept) : kept[j].now \in Nat /\ kept[j].now <= clock
    BY HistoryFields DEF Base, Clocked
  <2> QED
    BY <1>2, <2>1, <2>2
<1>6. Parts' = Parts
  BY <1>1 DEF Parts
<1>7. Clocked'
  BY <1>1, <1>4, <1>5, <1>6 DEF Base, Clocked
<1> QED
  BY <1>3, <1>7 DEF Base

LEMMA InitBase == Init => Base
<1> SUFFICES ASSUME Init PROVE Base
  OBVIOUS
<1>1. prog \in [CPUs -> {Idle} \cup Callers \cup Watchers] /\ \A c \in CPUs : prog[c].pc = "idle"
  BY DEF Init, Idle
<1>2. calls = <<>> /\ kept = <<>> /\ Len(kept) = 0
  BY DEF Init
<1>3. recent_caller \in [DOMAIN recent_caller -> Nat]
  BY DEF Init
<1> QED
  BY <1>1, <1>2, <1>3 DEF Init, Base, Types, Clocked

LEMMA NextBase == Base /\ [Next]_vars => Base'
<1> SUFFICES ASSUME Base, [Next]_vars PROVE Base'
  OBVIOUS
<1>1. CASE UNCHANGED vars
  BY <1>1 DEF vars, mapVars, histVars, Base, Types, Clocked, Parts
<1>2. CASE Tick
  BY <1>2, TickBase
<1>3. ASSUME NEW c \in CPUs, BpfStep(c) \/ Hook(c) PROVE Base'
  BY <1>3, DedupBase, RecentBase, StoreBase, LoadBase, ReportBase, TransactionBase, SessionBase
     DEF BpfStep, Hook
<1> QED
  BY <1>1, <1>2, <1>3 DEF Next
-----------------------------------------------------------------------------
(* A time before the clock is at most MaxRun later than one that a program *)
(* that still runs has taken.                                              *)
LEMMA Within ==
  ASSUME NEW a \in Nat, NEW b \in Nat, NEW t \in Nat, a <= t, t <= b + MaxRun
  PROVE  a <= b + MaxRun
OBVIOUS

(* The history of calls only grows.                                        *)

CallsGrow ==
  /\ Len(calls) <= Len(calls')
  /\ \A i \in 1..Len(calls) : i \in 1..Len(calls') /\ calls'[i] = calls[i]

KeptGrow ==
  /\ Len(kept) <= Len(kept')
  /\ \A j \in 1..Len(kept) : j \in 1..Len(kept') /\ kept'[j] = kept[j]

LEMMA TransactionCalls ==
  ASSUME Base, NEW c \in CPUs, NEW p \in Apps, Transaction(c, p)
  PROVE  /\ CallsGrow /\ Len(calls) + 1 \in 1..Len(calls')
         /\ calls'[Len(calls) + 1].pid = p /\ calls'[Len(calls) + 1].now = clock
<1>1. PICK r : r = [pid |-> p, now |-> clock]
  OBVIOUS
<1>2. calls' = Append(calls, r)
  BY <1>1 DEF Transaction
<1>3. r.pid = p /\ r.now = clock
  BY <1>1
<1>4. PICK R : calls \in Seq(R) /\ r \in R
  <2>1. calls \in Seq([pid : Apps, now : Nat]) /\ r \in [pid : Apps, now : Nat]
    BY <1>1 DEF Base, Types
  <2> QED
    BY <2>1
<1>5. /\ Len(calls') = Len(calls) + 1 /\ Len(calls) \in Nat
      /\ calls'[Len(calls) + 1] = r /\ \A i \in 1..Len(calls) : calls'[i] = calls[i]
  BY <1>2, <1>4
<1> QED
  BY <1>3, <1>5 DEF CallsGrow

LEMMA HistoryGrows ==
  ASSUME Base, Next
  PROVE  CallsGrow /\ KeptGrow
<1>0. Len(calls) \in Nat /\ Len(kept) \in Nat
  BY HistoryFields DEF Base
<1>1. calls' = calls => CallsGrow
  BY <1>0 DEF CallsGrow
<1>2. kept' = kept => KeptGrow
  BY <1>0 DEF KeptGrow
<1>3. CASE Tick
  BY <1>1, <1>2, <1>3 DEF Tick, histVars
<1>4. ASSUME NEW c \in CPUs, NEW p \in Apps, Transaction(c, p) PROVE CallsGrow /\ KeptGrow
  BY <1>2, <1>4, TransactionCalls DEF Transaction
<1>5. ASSUME NEW c \in CPUs, NEW p \in Others, Session(c, p) PROVE CallsGrow /\ KeptGrow
  BY <1>1, <1>2, <1>5 DEF Session, histVars
<1>6. ASSUME NEW c \in CPUs, Dedup(c) \/ RememberRecent(c) \/ Report(c) \/ ReportFails(c)
      PROVE  CallsGrow /\ KeptGrow
  BY <1>1, <1>2, <1>6 DEF Dedup, RememberRecent, Report, ReportFails, histVars
<1>7. ASSUME NEW c \in CPUs, NEW f \in {"pid", "ns"}, LoadLast(c, f) PROVE CallsGrow /\ KeptGrow
  BY <1>1, <1>2, <1>7 DEF LoadLast, histVars
<1>8. ASSUME NEW c \in CPUs, NEW f \in {"pid", "ns"}, RememberLast(c, f) PROVE CallsGrow /\ KeptGrow
  <2>1. CallsGrow
    BY <1>1, <1>8 DEF RememberLast
  <2>2. CASE prog[c].todo = {f}
    <3>1. Len(kept') = Len(kept) + 1 /\ \A j \in 1..Len(kept) : kept'[j] = kept[j]
      BY <1>8, <2>2, StoreMaps
    <3> QED
      BY <1>0, <2>1, <3>1 DEF KeptGrow
  <2>3. CASE prog[c].todo # {f}
    BY <1>2, <1>8, <2>1, <2>3, StoreMaps
  <2> QED
    BY <2>2, <2>3
<1> QED
  BY <1>3, <1>4, <1>5, <1>6, <1>7, <1>8 DEF Next, BpfStep, Hook

-----------------------------------------------------------------------------
(* Calls and the last caller.                                              *)

LastInv == Listed /\ Paired /\ Newest

LEMMA PlainLast ==
  ASSUME Base, LastInv, CallsGrow, NEW c \in CPUs, OnlyOn(c), prog[c].pc # "last",
         UNCHANGED <<version, clock, last_caller, last_caller_ns, kept>>,
         prog'[c].pc = "last" => prog'[c].todo = Parts,
         Calling(c)' => \E i \in 1..Len(calls') : calls'[i].pid = prog'[c].pid /\ calls'[i].now = prog'[c].now
  PROVE  LastInv'
<1>1. ASSUME NEW d \in CPUs, Calling(d)'
      PROVE  \E i \in 1..Len(calls') : calls'[i].pid = prog'[d].pid /\ calls'[i].now = prog'[d].now
  <2>1. CASE d = c
    BY <1>1, <2>1
  <2>2. CASE d # c
    <3>1. prog'[d] = prog[d] /\ Calling(d)
      BY <1>1, <2>2 DEF OnlyOn, Calling
    <3>2. PICK i \in 1..Len(calls) : calls[i].pid = prog[d].pid /\ calls[i].now = prog[d].now
      BY <3>1 DEF LastInv, Listed, CalledAt
    <3> QED
      BY <3>1, <3>2 DEF CallsGrow
  <2> QED
    BY <2>1, <2>2
<1>2. Listed'
  BY <1>1 DEF Listed, CalledAt
<1>3. ASSUME NEW d \in CPUs, prog'[d].pc = "last"
      PROVE  \/ prog'[d] = prog[d] /\ d # c
             \/ prog'[d].todo = Parts
  BY <1>3 DEF OnlyOn
<1>4. "pid" \in Parts /\ (version = 2 => "ns" \in Parts)
  BY DEF Parts
<1>5. Paired'
  <2>1. SUFFICES ASSUME last_caller # NoPid PROVE Paired'
    BY DEF Paired
  <2>2. PICK i \in 1..Len(calls) :
      /\ CalledAt(last_caller, i) /\ calls[i].now <= clock
      /\ \/ last_caller_ns <= calls[i].now + MaxRun
         \/ \E d \in CPUs : /\ prog[d].pc = "last" /\ prog[d].todo = {"pid"}
                            /\ prog[d].now = last_caller_ns
      /\ \A d \in CPUs : prog[d].pc = "last" /\ "pid" \notin prog[d].todo =>
           prog[d].now <= calls[i].now + MaxRun
    BY <2>1 DEF LastInv, Paired
  <2>3. i \in 1..Len(calls') /\ calls'[i] = calls[i]
    BY DEF CallsGrow
  <2>4. \/ last_caller_ns <= calls[i].now + MaxRun
        \/ \E d \in CPUs : /\ prog'[d].pc = "last" /\ prog'[d].todo = {"pid"}
                           /\ prog'[d].now = last_caller_ns
    BY <2>2 DEF OnlyOn
  <2>5. \A d \in CPUs : prog'[d].pc = "last" /\ "pid" \notin prog'[d].todo =>
           prog'[d].now <= calls[i].now + MaxRun
    BY <1>3, <1>4, <2>2
  <2> QED
    BY <2>2, <2>3, <2>4, <2>5 DEF Paired, CalledAt
<1>6. Newest'
  <2>1. \A d \in CPUs : version = 2 /\ prog'[d].pc = "last" /\ "ns" \notin prog'[d].todo =>
           prog'[d].now <= last_caller_ns + MaxRun
    BY <1>3, <1>4 DEF LastInv, Newest
  <2>2. \A d \in CPUs : last_caller = NoPid /\ prog'[d].pc = "last" => "pid" \in prog'[d].todo
    BY <1>3, <1>4 DEF LastInv, Newest
  <2> QED
    BY <2>1, <2>2 DEF LastInv, Newest
<1> QED
  BY <1>2, <1>5, <1>6 DEF LastInv

(* The store of a pid brings the pair together; the store of a time either *)
(* is the first of its program, or follows the store of the pid.           *)
LEMMA StoreLast ==
  ASSUME Base, LastInv, NEW c \in CPUs, NEW f \in {"pid", "ns"}, RememberLast(c, f)
  PROVE  LastInv'
<1>0. Types /\ Len(kept) \in Nat /\ clock \in Nat /\ last_caller_ns \in Nat /\ last_caller_ns <= clock
  BY HistoryFields DEF Base, Types, Clocked
<1>1. /\ UNCHANGED <<version, clock, calls>> /\ prog[c] \in Callers
      /\ prog[c].pc = "last" /\ f \in prog[c].todo
      /\ prog[c].now <= clock /\ clock <= prog[c].now + MaxRun
      /\ last_caller' = IF f = "pid" THEN prog[c].pid ELSE last_caller
      /\ last_caller_ns' = IF f = "ns" THEN prog[c].now ELSE last_caller_ns
  BY StoreMaps
<1>2. prog[c].pid \in Apps /\ prog[c].pid # NoPid /\ prog[c].now \in Nat
  BY <1>1 DEF Callers, NoPid
<1>3. /\ prog[c].todo \subseteq {"pid", "ns"} /\ prog[c].todo \subseteq Parts
  BY <1>1 DEF Callers, Base, Clocked
<1>4. /\ \A d \in CPUs : d # c /\ ~Watching(d) => prog'[d] = prog[d]
      /\ \A d \in CPUs : d # c /\ Watching(d) => prog'[d].pc = prog[d].pc
      /\ \/ prog[c].todo = {f} /\ prog'[c] = Idle
         \/ /\ prog[c].todo # {f} /\ prog'[c].pc = "last"
            /\ prog'[c].pid = prog[c].pid /\ prog'[c].now = prog[c].now
            /\ prog'[c].todo = prog[c].todo \ {f}
  BY <1>0, StoreFields, ZenonT(60)
<1>5. \A d \in CPUs : d # c /\ Calling(d)' => prog'[d] = prog[d] /\ Calling(d)
  BY <1>4 DEF Calling, Watching
<1>6. \A d \in CPUs : Calling(d) => prog[d].now <= clock /\ clock <= prog[d].now + MaxRun
  BY DEF Base, Clocked, Calling
<1>7. \A d \in CPUs : Calling(d)' =>
        prog'[d].pid = prog[d].pid /\ prog'[d].now = prog[d].now /\ Calling(d)
  BY <1>1, <1>4, <1>5 DEF Calling, Idle
<1>8. Listed'
  BY <1>1, <1>7 DEF LastInv, Listed, CalledAt
<1>9. PICK i \in 1..Len(calls) : calls[i].pid = prog[c].pid /\ calls[i].now = prog[c].now
  BY <1>1 DEF LastInv, Listed, CalledAt, Calling
<1>10. Paired'
  <2>1. CASE f = "pid"
    <3>1. last_caller' = prog[c].pid /\ last_caller_ns' = last_caller_ns
      BY <1>1, <2>1
    <3>2. last_caller_ns <= calls[i].now + MaxRun
      BY <1>0, <1>1, <1>2, <1>9
    <3>3. ASSUME NEW d \in CPUs, prog'[d].pc = "last" PROVE prog'[d].now <= calls[i].now + MaxRun
      <4>1. prog'[d].now = prog[d].now /\ Calling(d)
        BY <1>7, <3>3 DEF Calling
      <4>2. prog[d].now <= clock /\ prog[d].now \in Nat
        BY <1>0, <1>6, <4>1, ProgramFields DEF Calling
      <4>3. MaxRun \in Nat /\ clock <= prog[c].now + MaxRun
        BY <1>1
      <4>4. prog[d].now <= prog[c].now + MaxRun
        BY <1>0, <1>2, <4>2, <4>3, NotMuchLater
      <4> QED
        BY <1>9, <4>1, <4>4
    <3> QED
      BY <1>1, <1>9, <3>1, <3>2, <3>3 DEF Paired, CalledAt
  <2>2. CASE f = "ns"
    <3>1. last_caller' = last_caller /\ last_caller_ns' = prog[c].now
      BY <1>1, <2>2
    <3>2. SUFFICES ASSUME last_caller # NoPid PROVE Paired'
      BY <3>1 DEF Paired
    <3>3. PICK k \in 1..Len(calls) :
        /\ CalledAt(last_caller, k) /\ calls[k].now <= clock
        /\ \A d \in CPUs : prog[d].pc = "last" /\ "pid" \notin prog[d].todo =>
             prog[d].now <= calls[k].now + MaxRun
      BY <3>2 DEF LastInv, Paired
    <3>4. \/ prog[c].now <= calls[k].now + MaxRun
          \/ prog'[c].pc = "last" /\ prog'[c].todo = {"pid"} /\ prog'[c].now = prog[c].now
      <4>1. CASE "pid" \in prog[c].todo
        BY <1>3, <1>4, <2>2, <4>1
      <4>2. CASE "pid" \notin prog[c].todo
        BY <1>1, <3>3, <4>2
      <4> QED
        BY <4>1, <4>2
    <3>5. ASSUME NEW d \in CPUs, prog'[d].pc = "last", "pid" \notin prog'[d].todo
          PROVE  prog'[d].now <= calls[k].now + MaxRun
      <4>1. prog[d].pc = "last" /\ prog'[d].now = prog[d].now /\ "pid" \notin prog[d].todo
        <5>1. CASE d = c
          BY <1>1, <1>4, <2>2, <3>5, <5>1 DEF Idle
        <5>2. CASE d # c
          BY <1>5, <3>5, <5>2 DEF Calling
        <5> QED
          BY <5>1, <5>2
      <4> QED
        BY <3>3, <4>1
    <3> QED
      BY <1>1, <3>1, <3>3, <3>4, <3>5 DEF Paired, CalledAt
  <2> QED
    BY <2>1, <2>2
<1>11. Newest'
  <2>1. ASSUME version = 2
        PROVE  /\ \A j \in 1..Len(kept') : kept'[j].now <= last_caller_ns' + MaxRun
               /\ \A d \in CPUs : prog'[d].pc = "last" /\ "ns" \notin prog'[d].todo =>
                    prog'[d].now <= last_caller_ns' + MaxRun
    <3>1. \/ f = "ns" /\ clock <= last_caller_ns' + MaxRun
          \/ f = "pid" /\ last_caller_ns' = last_caller_ns
      BY <1>1
    <3>2. last_caller_ns' \in Nat
      BY <1>0, <1>1, <1>2
    <3>3. ASSUME NEW j \in 1..Len(kept) PROVE kept[j].now <= last_caller_ns' + MaxRun
      <4>1. kept[j].now \in Nat /\ kept[j].now <= clock
        BY HistoryFields DEF Base, Clocked
      <4>2. kept[j].now <= last_caller_ns + MaxRun
        BY <2>1 DEF LastInv, Newest
      <4>3. CASE f = "ns"
        <5>1. clock <= last_caller_ns' + MaxRun /\ MaxRun \in Nat
          BY <3>1, <4>3
        <5> QED
          BY <1>0, <3>2, <4>1, <5>1, Within
      <4>4. CASE f = "pid"
        BY <3>1, <4>2, <4>4
      <4> QED
        BY <4>3, <4>4
    <3>4. ASSUME NEW d \in CPUs, Calling(d), prog[d].pc = "last", "ns" \notin prog[d].todo \/ f = "ns"
          PROVE  prog[d].now <= last_caller_ns' + MaxRun
      <4>1. prog[d].now \in Nat /\ prog[d].now <= clock
        BY <1>0, <1>6, <3>4, ProgramFields
      <4>2. f = "pid" => prog[d].now <= last_caller_ns + MaxRun
        BY <2>1, <3>4 DEF LastInv, Newest
      <4> QED
        BY <1>0, <3>1, <3>2, <4>1, <4>2
    <3>5. ASSUME NEW j \in 1..Len(kept') PROVE kept'[j].now <= last_caller_ns' + MaxRun
      <4>1. CASE prog[c].todo # {f}
        BY <3>3, <3>5, <4>1, StoreMaps
      <4>2. CASE prog[c].todo = {f}
        <5>1. /\ Len(kept') = Len(kept) + 1 /\ \A k \in 1..Len(kept) : kept'[k] = kept[k]
              /\ kept'[Len(kept) + 1].now = prog[c].now
          BY <4>2, StoreMaps
        <5>2. prog[c].now <= last_caller_ns' + MaxRun
          BY <1>1, <3>4, <4>2 DEF Calling
        <5> QED
          BY <1>0, <3>3, <5>1, <5>2
      <4> QED
        BY <4>1, <4>2
    <3>6. ASSUME NEW d \in CPUs, prog'[d].pc = "last", "ns" \notin prog'[d].todo
          PROVE  prog'[d].now <= last_caller_ns' + MaxRun
      <4>1. /\ prog[d].pc = "last" /\ prog'[d].now = prog[d].now /\ Calling(d)
            /\ "ns" \notin prog[d].todo \/ f = "ns"
        <5>1. CASE d = c
          BY <1>1, <1>4, <3>6, <5>1 DEF Idle, Calling
        <5>2. CASE d # c
          BY <1>5, <3>6, <5>2 DEF Calling
        <5> QED
          BY <5>1, <5>2
      <4> QED
        BY <3>4, <4>1
    <3> QED
      BY <3>5, <3>6
  <2>2. ASSUME last_caller' = NoPid
        PROVE  Len(kept') = 0 /\ \A d \in CPUs : prog'[d].pc = "last" => "pid" \in prog'[d].todo
    <3>1. f = "ns" /\ last_caller = NoPid
      BY <1>1, <1>2, <2>2
    <3>2. Len(kept) = 0 /\ \A d \in CPUs : prog[d].pc = "last" => "pid" \in prog[d].todo
      BY <3>1 DEF LastInv, Newest
    <3>3. prog[c].todo # {f}
      BY <1>1, <3>1, <3>2
    <3>4. kept' = kept
      BY <3>3, StoreMaps
    <3>5. \A d \in CPUs : prog'[d].pc = "last" => "pid" \in prog'[d].todo
      BY <1>1, <1>4, <1>5, <3>1, <3>2, <3>3 DEF Calling
    <3> QED
      BY <3>2, <3>4, <3>5
  <2> QED
    BY <1>1, <2>1, <2>2 DEF Newest
<1> QED
  BY <1>8, <1>10, <1>11 DEF LastInv

(* A step that starts no call and stores nothing. *)
LEMMA QuietLast ==
  ASSUME Base, LastInv, NEW c \in CPUs,
         \/ Dedup(c) \/ RememberRecent(c) \/ Report(c) \/ ReportFails(c)
         \/ \E f \in {"pid", "ns"} : LoadLast(c, f)
         \/ \E p \in Others : Session(c, p)
  PROVE  LastInv'
<1>0. Types
  BY DEF Base
<1>1. UNCHANGED <<version, clock, last_caller, last_caller_ns, kept, calls>> /\ prog[c].pc # "last"
  BY DEF Dedup, RememberRecent, Report, ReportFails, LoadLast, Session, mapVars, histVars
<1>2. CallsGrow
  BY <1>1, HistoryFields DEF CallsGrow, Base
<1>3. /\ OnlyOn(c)
      /\ Calling(c)' => Calling(c) /\ prog'[c].pid = prog[c].pid /\ prog'[c].now = prog[c].now
      /\ prog'[c].pc = "last" => prog'[c].todo = Parts
  <2>1. CASE Dedup(c)
    <3>1. /\ OnlyOn(c)
          /\ \/ prog'[c] = Idle
             \/ prog'[c].pc = "recent" /\ prog'[c].pid = prog[c].pid /\ prog'[c].now = prog[c].now
      BY <1>0, <2>1, DedupFields
    <3> QED
      BY <2>1, <3>1 DEF Dedup, Calling, Idle
  <2>2. CASE RememberRecent(c)
    <3>1. /\ OnlyOn(c) /\ prog'[c].pc = "last"
          /\ prog'[c].pid = prog[c].pid /\ prog'[c].now = prog[c].now /\ prog'[c].todo = prog[c].todo
      BY <1>0, <2>2, RecentFields
    <3>2. prog[c].pc = "recent" /\ prog[c].todo = Parts
      BY <2>2 DEF RememberRecent, Base, Clocked
    <3> QED
      BY <3>1, <3>2 DEF Calling
  <2>3. CASE Report(c) \/ ReportFails(c)
    BY <2>3 DEF Report, ReportFails, Base, Types, OnlyOn, Calling, Idle
  <2>4. ASSUME NEW f \in {"pid", "ns"}, LoadLast(c, f)
        PROVE  OnlyOn(c) /\ prog'[c].pc \in {"load", "infer"}
    BY <1>0, <2>4, LoadFields
  <2>5. ASSUME NEW p \in Others, Session(c, p)
        PROVE  OnlyOn(c) /\ prog'[c].pc \in {"load", "infer"}
    BY <1>0, <2>5, SessionFields
  <2> QED
    BY <2>1, <2>2, <2>3, <2>4, <2>5 DEF Calling
<1>4. Calling(c)' => \E i \in 1..Len(calls') : calls'[i].pid = prog'[c].pid /\ calls'[i].now = prog'[c].now
  BY <1>1, <1>3 DEF LastInv, Listed, CalledAt
<1> QED
  BY <1>1, <1>2, <1>3, <1>4, PlainLast

LEMMA TransactionLast ==
  ASSUME Base, LastInv, NEW c \in CPUs, NEW p \in Apps, Transaction(c, p)
  PROVE  LastInv'
<1>1. UNCHANGED <<version, clock, last_caller, last_caller_ns, kept>> /\ prog[c].pc # "last"
  BY DEF Transaction, mapVars
<1>2. /\ CallsGrow /\ Len(calls) + 1 \in 1..Len(calls')
      /\ calls'[Len(calls) + 1].pid = p /\ calls'[Len(calls) + 1].now = clock
  BY TransactionCalls
<1>3. OnlyOn(c) /\ prog'[c].pc = "dedup" /\ prog'[c].pid = p /\ prog'[c].now = clock
  BY TransactionFields DEF Base
<1>4. \E i \in 1..Len(calls') : calls'[i].pid = prog'[c].pid /\ calls'[i].now = prog'[c].now
  BY <1>2, <1>3
<1> QED
  BY <1>1, <1>2, <1>3, <1>4, PlainLast

LEMMA TickLast ==
  ASSUME Base, LastInv, Tick
  PROVE  LastInv'
<1>1. UNCHANGED <<version, prog, last_caller, last_caller_ns, calls, kept>>
  BY DEF Tick, mapVars, histVars
<1>2. \A i \in 1..Len(calls) : calls[i].now <= clock => calls[i].now <= clock'
  <2>1. clock' = clock + 1 /\ clock \in Nat
    BY DEF Tick, Base, Types
  <2>2. \A i \in 1..Len(calls) : calls[i].now \in Nat
    BY HistoryFields DEF Base
  <2> QED
    BY <2>1, <2>2
<1>3. Listed' /\ Newest'
  BY <1>1 DEF LastInv, Listed, Newest, CalledAt, Calling
<1>4. Paired'
  BY <1>1, <1>2 DEF LastInv, Paired, CalledAt
<1> QED
  BY <1>3, <1>4 DEF LastInv

LEMMA InitLast == Init => LastInv
<1> SUFFICES ASSUME Init PROVE LastInv
  OBVIOUS
<1>1. (\A c \in CPUs : prog[c].pc = "idle") /\ kept = <<>> /\ Len(kept) = 0 /\ last_caller = NoPid
  BY DEF Init, Idle
<1> QED
  BY <1>1 DEF LastInv, Listed, Paired, Newest, Calling

LEMMA NextLast == Base /\ LastInv /\ [Next]_vars => LastInv'
<1> SUFFICES ASSUME Base, LastInv, [Next]_vars PROVE LastInv'
  OBVIOUS
<1>1. CASE UNCHANGED vars
  BY <1>1 DEF vars, mapVars, histVars, LastInv, Listed, Paired, Newest, CalledAt, Calling
<1>2. CASE Tick
  BY <1>2, TickLast
<1>3. ASSUME NEW c \in CPUs, BpfStep(c) \/ Hook(c) PROVE LastInv'
  BY <1>3, QuietLast, StoreLast, TransactionLast DEF BpfStep, Hook
<1> QED
  BY <1>1, <1>2, <1>3 DEF Next
-----------------------------------------------------------------------------
(* A session program that was not disturbed holds a good pair.             *)

LEMMA GoodStays ==
  ASSUME CallsGrow, KeptGrow, NEW w, NEW t, NEW n, NEW s \in Nat, s <= Len(kept), Len(kept) \in Nat,
         Good(calls, kept, w, t, n, s)
  PROVE  Good(calls', kept', w, t, n, s)
<1>1. \A j \in 1..s : kept'[j] = kept[j]
  BY DEF KeptGrow
<1>2. ASSUME w # NoPid
      PROVE  \E i \in 1..Len(calls') : calls'[i].pid = w /\ calls'[i].now <= n /\ t <= calls'[i].now + MaxRun
  BY <1>2 DEF Good, CallsGrow
<1> QED
  BY <1>1, <1>2 DEF Good

(* The histories grow and nothing else that matters to c changes. *)
LEMMA KnownStays ==
  ASSUME Base, CallsGrow, KeptGrow, NEW c \in CPUs, Watching(c), KnownTo(c),
         prog'[c] = prog[c], UNCHANGED <<version, last_caller, last_caller_ns>>
  PROVE  KnownTo(c)'
<1>0. prog[c].seen \in Nat /\ Len(kept) \in Nat /\ Len(kept') \in Nat
  <2>1. prog[c] \in Watchers
    BY ProgramFields DEF Base
  <2>2. Len(kept) \in Nat
    BY HistoryFields DEF Base
  <2> QED
    BY <2>1, <2>2 DEF Watchers, KeptGrow
<1>1. prog[c].seen <= Len(kept) /\ prog[c].seen <= Len(kept')
  BY <1>0 DEF KnownTo, KeptGrow
<1>2. prog[c].who # NoPid => \E i \in 1..Len(calls') : calls'[i].pid = prog[c].who
  BY DEF KnownTo, CallsGrow
<1>3. ASSUME version = 2, prog[c].quiet, prog[c].pc = "load"
      PROVE  Good(calls', kept', last_caller, last_caller_ns, prog[c].now, prog[c].seen)
  BY <1>0, <1>1, <1>3, GoodStays DEF KnownTo
<1>4. ASSUME version = 2, prog[c].quiet, prog[c].pc = "infer"
      PROVE  Good(calls', kept', prog[c].who, prog[c].ns, prog[c].now, prog[c].seen)
  BY <1>0, <1>1, <1>4, GoodStays DEF KnownTo
<1> QED
  BY <1>1, <1>2, <1>3, <1>4 DEF KnownTo

LEMMA SessionKnown ==
  ASSUME Base, LastInv, NEW c \in CPUs, NEW p \in Others, Session(c, p)
  PROVE  KnownTo(c)'
<1>1. UNCHANGED <<version, clock, last_caller, last_caller_ns, kept, calls>>
  BY DEF Session, mapVars, histVars
<1>2. /\ prog'[c].pc = "load" /\ prog'[c].now = clock /\ prog'[c].todo = Parts
      /\ prog'[c].who = NoPid /\ prog'[c].seen = Len(kept)
      /\ prog'[c].quiet = (\A d \in CPUs : prog[d].pc # "last")
  BY SessionFields DEF Base
<1>3. ASSUME version = 2, \A d \in CPUs : prog[d].pc # "last"
      PROVE  Good(calls, kept, last_caller, last_caller_ns, clock, Len(kept))
  <2>1. last_caller_ns <= clock
    BY DEF Base, Clocked
  <2>2. ASSUME last_caller # NoPid
        PROVE  \E i \in 1..Len(calls) : /\ calls[i].pid = last_caller /\ calls[i].now <= clock
                                        /\ last_caller_ns <= calls[i].now + MaxRun
    BY <1>3, <2>2 DEF LastInv, Paired, CalledAt
  <2>3. last_caller = NoPid => Len(kept) = 0
    BY DEF LastInv, Newest
  <2>4. \A j \in 1..Len(kept) : kept[j].now <= last_caller_ns + MaxRun
    BY <1>3 DEF LastInv, Newest
  <2> QED
    BY <2>1, <2>2, <2>3, <2>4 DEF Good
<1>4. Len(kept) <= Len(kept)
  BY HistoryFields DEF Base
<1>5. version = 2 => "pid" \in Parts /\ "ns" \in Parts
  BY DEF Parts
<1> QED
  BY <1>1, <1>2, <1>3, <1>4, <1>5 DEF KnownTo

LEMMA LoadKnown ==
  ASSUME Base, LastInv, Known, NEW c \in CPUs, NEW f \in {"pid", "ns"}, LoadLast(c, f)
  PROVE  KnownTo(c)'
<1>1. UNCHANGED <<version, clock, last_caller, last_caller_ns, kept, calls>> /\ prog[c].pc = "load"
  BY DEF LoadLast, mapVars, histVars
<1>2. /\ prog'[c].pc = IF prog[c].todo = {f} THEN "infer" ELSE "load"
      /\ prog'[c].now = prog[c].now /\ prog'[c].todo = prog[c].todo \ {f}
      /\ prog'[c].who = IF f = "pid" THEN last_caller ELSE prog[c].who
      /\ prog'[c].ns = IF f = "ns" THEN last_caller_ns ELSE prog[c].ns
      /\ prog'[c].seen = prog[c].seen /\ prog'[c].quiet = prog[c].quiet
  BY LoadFields DEF Base
<1>3. KnownTo(c)
  BY <1>1 DEF Known, Watching
<1>4. prog'[c].who # NoPid => \E i \in 1..Len(calls) : calls[i].pid = prog'[c].who
  <2>1. last_caller # NoPid => \E i \in 1..Len(calls) : calls[i].pid = last_caller
    BY DEF LastInv, Paired, CalledAt
  <2> QED
    BY <1>2, <1>3, <2>1 DEF KnownTo
<1>5. ASSUME version = 2, prog[c].quiet
      PROVE  /\ Good(calls, kept, last_caller, last_caller_ns, prog[c].now, prog[c].seen)
             /\ "pid" \notin prog'[c].todo => prog'[c].who = last_caller
             /\ "ns" \notin prog'[c].todo => prog'[c].ns = last_caller_ns
  BY <1>1, <1>2, <1>3, <1>5 DEF KnownTo
<1>6. prog'[c].pc = "infer" => "pid" \notin prog'[c].todo /\ "ns" \notin prog'[c].todo
  BY <1>2
<1> QED
  BY <1>1, <1>2, <1>3, <1>4, <1>5, <1>6 DEF KnownTo

(* What a store does to a session program. *)
LEMMA StoreWatcher ==
  ASSUME Types, NEW c \in CPUs, NEW f \in {"pid", "ns"}, RememberLast(c, f),
         NEW d \in CPUs, d # c, Watching(d)
  PROVE  /\ prog'[d].pc = prog[d].pc /\ prog'[d].now = prog[d].now
         /\ prog'[d].todo = prog[d].todo /\ prog'[d].who = prog[d].who
         /\ prog'[d].ns = prog[d].ns /\ prog'[d].seen = prog[d].seen
         /\ prog[d].pc = "load" => prog'[d].quiet = FALSE
         /\ prog[d].pc = "load" => prog'[d].later = prog[d].later
         /\ prog[d].pc # "load" => prog'[d].quiet = prog[d].quiet
         /\ prog[d].pc # "load" =>
              prog'[d].later \in {prog[d].later, prog[d].later \cup {prog[c].pid}}
<1>1. /\ prog'[d] \in Watchers /\ prog'[d].pc = prog[d].pc
      /\ prog'[d].pid = prog[d].pid /\ prog'[d].now = prog[d].now
      /\ prog'[d].todo = prog[d].todo /\ prog'[d].who = prog[d].who
      /\ prog'[d].ns = prog[d].ns /\ prog'[d].seen = prog[d].seen
      /\ IF prog[d].pc = "load"
           THEN prog'[d].quiet = FALSE /\ prog'[d].later = prog[d].later
           ELSE /\ prog'[d].quiet = prog[d].quiet
                /\ prog'[d].later \in {prog[d].later, prog[d].later \cup {prog[c].pid}}
  BY StoreFields, Zenon
<1> QED
  BY <1>1, Zenon

(* A store disturbs a program that loads, and cannot reach one that has    *)
(* loaded.                                                                 *)
LEMMA StoreKnown ==
  ASSUME Base, CallsGrow, KeptGrow, Known, NEW c \in CPUs, NEW f \in {"pid", "ns"}, RememberLast(c, f)
  PROVE  Known'
<1> SUFFICES ASSUME NEW d \in CPUs, Watching(d)' PROVE KnownTo(d)'
  BY DEF Known
<1>0. Types
  BY DEF Base
<1>1. d # c /\ Watching(d)
  <2>1. prog'[c] = Idle \/ prog'[c].pc = "last"
    BY <1>0, StoreFields
  <2>2. d # c
    BY <2>1 DEF Watching, Idle
  <2>3. ~Watching(d) => prog'[d] = prog[d]
    BY <1>0, <2>2, StoreFields
  <2> QED
    BY <2>2, <2>3 DEF Watching
<1>2. KnownTo(d) /\ prog[d] \in Watchers
  BY <1>0, <1>1, ProgramFields DEF Known
<1>3. /\ prog'[d].pc = prog[d].pc /\ prog'[d].now = prog[d].now
      /\ prog'[d].todo = prog[d].todo /\ prog'[d].who = prog[d].who
      /\ prog'[d].ns = prog[d].ns /\ prog'[d].seen = prog[d].seen
      /\ prog[d].pc = "load" => prog'[d].quiet = FALSE
      /\ prog[d].pc # "load" => prog'[d].quiet = prog[d].quiet
  BY <1>0, <1>1, StoreWatcher
<1>4. version' = version /\ calls' = calls
  BY StoreMaps
<1>5. prog[d].seen \in Nat /\ Len(kept) \in Nat /\ prog[d].seen <= Len(kept) /\ prog[d].seen <= Len(kept')
  <2>1. prog[d].seen \in Nat /\ Len(kept) \in Nat
    BY <1>0, <1>2, HistoryFields DEF Watchers
  <2>2. prog[d].seen <= Len(kept)
    BY <1>2 DEF KnownTo
  <2>3. Len(kept') \in Nat /\ Len(kept) <= Len(kept')
    BY <2>1, StoreMaps DEF KeptGrow
  <2> QED
    BY <2>1, <2>2, <2>3
<1>6. ASSUME version = 2, prog[d].quiet, prog[d].pc = "infer"
      PROVE  Good(calls', kept', prog[d].who, prog[d].ns, prog[d].now, prog[d].seen)
  BY <1>2, <1>5, <1>6, GoodStays DEF KnownTo
<1> QED
  BY <1>2, <1>3, <1>4, <1>5, <1>6 DEF KnownTo

LEMMA InitKnown == Init => Known
BY DEF Init, Known, Watching, Idle

LEMMA NextKnown == Base /\ LastInv /\ Known /\ [Next]_vars => Known'
<1> SUFFICES ASSUME Base, LastInv, Known, [Next]_vars PROVE Known'
  OBVIOUS
<1>0. Types
  BY DEF Base
<1>1. CASE UNCHANGED vars
  BY <1>1 DEF vars, mapVars, histVars, Known, KnownTo, Watching
<1>2. CASE Next
  <2>0. CallsGrow /\ KeptGrow
    BY <1>2, HistoryGrows
  <2>1. CASE Tick
    <3>1. UNCHANGED <<version, prog, last_caller, last_caller_ns>>
      BY <2>1 DEF Tick, mapVars
    <3> QED
      BY <2>0, <3>1, KnownStays DEF Known, Watching
  <2>2. ASSUME NEW c \in CPUs, OnlyOn(c), UNCHANGED <<version, last_caller, last_caller_ns>>,
               Watching(c)' => KnownTo(c)'
        PROVE  Known'
    <3> SUFFICES ASSUME NEW d \in CPUs, Watching(d)' PROVE KnownTo(d)'
      BY DEF Known
    <3>1. CASE d = c
      BY <2>2, <3>1
    <3>2. CASE d # c
      <4>1. prog'[d] = prog[d] /\ Watching(d)
        BY <2>2, <3>2 DEF OnlyOn, Watching
      <4> QED
        BY <2>0, <2>2, <4>1, KnownStays DEF Known
    <3> QED
      BY <3>1, <3>2
  <2>3. ASSUME NEW c \in CPUs, NEW p \in Apps, Transaction(c, p) PROVE Known'
    <3>1. OnlyOn(c) /\ ~Watching(c)'
      BY <1>0, <2>3, TransactionFields DEF Watching
    <3> QED
      BY <2>2, <2>3, <3>1 DEF Transaction, mapVars
  <2>4. ASSUME NEW c \in CPUs, NEW p \in Others, Session(c, p) PROVE Known'
    <3>1. OnlyOn(c)
      BY <1>0, <2>4, SessionFields
    <3> QED
      BY <2>2, <2>4, <3>1, SessionKnown DEF Session, mapVars
  <2>5. ASSUME NEW c \in CPUs, Dedup(c) PROVE Known'
    <3>1. OnlyOn(c) /\ ~Watching(c)'
      BY <1>0, <2>5, DedupFields DEF Watching, Idle
    <3> QED
      BY <2>2, <2>5, <3>1 DEF Dedup, mapVars
  <2>6. ASSUME NEW c \in CPUs, RememberRecent(c) PROVE Known'
    <3>1. OnlyOn(c) /\ ~Watching(c)'
      BY <1>0, <2>6, RecentFields DEF Watching
    <3> QED
      BY <2>2, <2>6, <3>1 DEF RememberRecent
  <2>7. ASSUME NEW c \in CPUs, Report(c) \/ ReportFails(c) PROVE Known'
    <3>1. OnlyOn(c) /\ ~Watching(c)'
      BY <2>7 DEF Report, ReportFails, Base, Types, OnlyOn, Watching, Idle
    <3> QED
      BY <2>2, <2>7, <3>1 DEF Report, ReportFails, mapVars
  <2>8. ASSUME NEW c \in CPUs, NEW f \in {"pid", "ns"}, LoadLast(c, f) PROVE Known'
    <3>1. OnlyOn(c)
      BY <1>0, <2>8, LoadFields
    <3> QED
      BY <2>2, <2>8, <3>1, LoadKnown DEF LoadLast, mapVars
  <2>9. ASSUME NEW c \in CPUs, NEW f \in {"pid", "ns"}, RememberLast(c, f) PROVE Known'
    BY <2>0, <2>9, StoreKnown
  <2> QED
    BY <1>2, <2>1, <2>3, <2>4, <2>5, <2>6, <2>7, <2>8, <2>9 DEF Next, BpfStep, Hook
<1> QED
  BY <1>1, <1>2
-----------------------------------------------------------------------------
(* Version 1: the element that a session program points to.                *)

LEMMA WasLastStays ==
  ASSUME KeptGrow, Len(kept) \in Nat, NEW p, NEW s, WasLast(kept, p, s, Len(kept))
  PROVE  WasLast(kept', p, s, Len(kept'))
BY DEF WasLast, KeptGrow

LEMMA NamedStays ==
  ASSUME Base, KeptGrow, NEW c \in CPUs, NamedBy(c), prog'[c] = prog[c]
  PROVE  NamedBy(c)'
<1>0. Len(kept) \in Nat /\ Len(kept') \in Nat
  BY HistoryFields DEF Base, KeptGrow
<1>1. ASSUME Watching(c), prog[c].seen <= Len(kept) PROVE prog[c].seen <= Len(kept')
  <2>1. prog[c].seen \in Nat
    BY <1>1, ProgramFields DEF Base, Watchers
  <2> QED
    BY <1>0, <1>1, <2>1 DEF KeptGrow
<1>2. CASE prog[c].pc = "load"
  BY <1>1, <1>2 DEF NamedBy, Watching
<1>3. CASE prog[c].pc = "infer"
  <2>1. prog[c].seen <= Len(kept')
    BY <1>1, <1>3 DEF NamedBy, Watching
  <2>2. \A p : WasLast(kept, p, prog[c].seen, Len(kept)) => WasLast(kept', p, prog[c].seen, Len(kept'))
    BY <1>0, WasLastStays
  <2> QED
    BY <1>3, <2>1, <2>2 DEF NamedBy
<1>4. CASE prog[c].pc \notin {"load", "infer"}
  BY <1>4 DEF NamedBy
<1> QED
  BY <1>2, <1>3, <1>4

(* A store adds its pid to what the pointers may find. *)
LEMMA StoreNamed ==
  ASSUME Base, KeptGrow, Named, version = 1, NEW c \in CPUs, NEW f \in {"pid", "ns"}, RememberLast(c, f)
  PROVE  Named'
<1>0. Types /\ Len(kept) \in Nat
  BY HistoryFields DEF Base
<1>1. version' = version /\ prog[c] \in Callers /\ f \in prog[c].todo /\ prog[c].pc = "last"
  BY StoreMaps
<1>2. prog[c].todo = {f} /\ f = "pid"
  <2>1. prog[c].todo \subseteq Parts
    BY <1>1 DEF Base, Clocked
  <2> QED
    BY <1>1, <2>1 DEF Parts
<1>3. /\ last_caller' = prog[c].pid /\ Len(kept') = Len(kept) + 1
      /\ kept'[Len(kept) + 1].pid = prog[c].pid
  BY <1>2, StoreMaps
<1>4. ASSUME NEW d \in CPUs PROVE NamedBy(d)'
  <2>1. CASE d = c
    <3>1. prog'[c] = Idle \/ prog'[c].pc = "last"
      BY <1>0, StoreFields
    <3> QED
      BY <2>1, <3>1 DEF NamedBy, Idle
  <2>2. CASE d # c /\ ~Watching(d)
    <3>1. prog'[d] = prog[d]
      BY <1>0, <2>2, StoreFields
    <3> QED
      BY <2>2, <3>1 DEF NamedBy, Watching
  <2>3. CASE d # c /\ Watching(d)
    <3>1. /\ prog'[d].pc = prog[d].pc /\ prog'[d].who = prog[d].who /\ prog'[d].seen = prog[d].seen
          /\ prog[d].pc = "load" => prog'[d].later = prog[d].later
          /\ prog[d].pc # "load" =>
               prog'[d].later \in {prog[d].later, prog[d].later \cup {prog[c].pid}}
      BY <1>0, <2>3, StoreWatcher
    <3>2. prog[d].seen \in Nat /\ prog[d].seen <= Len(kept)
      <4>1. prog[d].seen \in Nat
        BY <1>0, <2>3, ProgramFields DEF Watchers
      <4> QED
        BY <2>3, <4>1 DEF Named, NamedBy, Watching
    <3>3. prog[d].seen <= Len(kept')
      BY <1>0, <1>3, <3>2
    <3>4. CASE prog[d].pc = "load"
      BY <3>1, <3>3, <3>4 DEF Named, NamedBy
    <3>5. CASE prog[d].pc = "infer"
      <4>1. \A p : WasLast(kept, p, prog[d].seen, Len(kept)) => WasLast(kept', p, prog[d].seen, Len(kept'))
        BY <1>0, WasLastStays
      <4>2. WasLast(kept', prog[c].pid, prog[d].seen, Len(kept'))
        BY <1>0, <1>3, <3>2 DEF WasLast
      <4>3. NamedBy(d)
        BY DEF Named
      <4>4. \A p \in prog'[d].later : WasLast(kept', p, prog[d].seen, Len(kept'))
        BY <3>1, <3>5, <4>1, <4>2, <4>3 DEF NamedBy
      <4> QED
        BY <3>1, <3>3, <3>5, <4>1, <4>3, <4>4 DEF NamedBy
    <3> QED
      BY <2>3, <3>4, <3>5 DEF Watching
  <2> QED
    BY <2>1, <2>2, <2>3
<1> QED
  BY <1>0, <1>3, <1>4 DEF Named

LEMMA LoadNamed ==
  ASSUME Base, Named, version = 1, NEW c \in CPUs, NEW f \in {"pid", "ns"}, LoadLast(c, f)
  PROVE  NamedBy(c)'
<1>1. UNCHANGED <<version, clock, last_caller, last_caller_ns, kept, calls>>
      /\ prog[c].pc = "load" /\ f \in prog[c].todo
  BY DEF LoadLast, mapVars, histVars
<1>2. prog[c].todo = {f} /\ f = "pid"
  <2>1. prog[c].todo \subseteq Parts
    BY <1>1 DEF Base, Clocked
  <2> QED
    BY <1>1, <2>1 DEF Parts
<1>3. /\ prog'[c].pc = "infer" /\ prog'[c].who = last_caller
      /\ prog'[c].seen = prog[c].seen /\ prog'[c].later = prog[c].later
  <2>1. /\ prog'[c].pc = IF prog[c].todo = {f} THEN "infer" ELSE "load"
        /\ prog'[c].who = IF f = "pid" THEN last_caller ELSE prog[c].who
        /\ prog'[c].seen = prog[c].seen /\ prog'[c].later = prog[c].later
    BY LoadFields DEF Base
  <2> QED
    BY <1>2, <2>1
<1>4. prog[c].seen \in Nat /\ prog[c].seen <= Len(kept) /\ prog[c].later = {}
  <2>1. prog[c].seen \in Nat
    BY <1>1, ProgramFields DEF Base, Watching, Watchers
  <2> QED
    BY <1>1, <2>1 DEF Named, NamedBy
<1>5. Len(kept) \in Nat /\ \A j \in 1..Len(kept) : kept[j].pid \in Apps
  BY HistoryFields DEF Base
<1>6. CASE Len(kept) = 0
  <2>1. last_caller = NoPid /\ prog[c].seen = 0
    BY <1>4, <1>6 DEF Named
  <2> QED
    BY <1>1, <1>3, <1>4, <2>1 DEF NamedBy
<1>7. CASE Len(kept) # 0
  <2>1. Len(kept) \in 1..Len(kept) /\ last_caller = kept[Len(kept)].pid
    BY <1>5, <1>7 DEF Named
  <2>2. last_caller # NoPid
    BY <1>5, <2>1 DEF NoPid
  <2>3. WasLast(kept, last_caller, prog[c].seen, Len(kept))
    BY <1>4, <2>1 DEF WasLast
  <2> QED
    BY <1>1, <1>3, <1>4, <2>2, <2>3 DEF NamedBy
<1> QED
  BY <1>6, <1>7

LEMMA InitNamed == Init => Named
<1> SUFFICES ASSUME Init PROVE Named
  OBVIOUS
<1>1. (\A c \in CPUs : prog[c].pc = "idle") /\ kept = <<>> /\ Len(kept) = 0 /\ last_caller = NoPid
  BY DEF Init, Idle
<1> QED
  BY <1>1 DEF Named, NamedBy

LEMMA NextNamed == Base /\ Named /\ [Next]_vars => Named'
<1> SUFFICES ASSUME Base, Named, [Next]_vars PROVE Named'
  OBVIOUS
<1>0. Types
  BY DEF Base
<1>1. CASE UNCHANGED vars
  BY <1>1 DEF vars, mapVars, histVars, Named, NamedBy
<1>2. CASE Next
  <2>v. version' = version
    BY <1>2, ZenonT(60) DEF Next, Tick, BpfStep, Hook, Dedup, RememberRecent, RememberLast, LoadLast, Report,
                ReportFails, Transaction, Session
  <2> SUFFICES ASSUME version = 1 PROVE Named'
    BY <2>v DEF Named
  <2>0. KeptGrow
    BY <1>2, HistoryGrows
  <2>1. CASE Tick
    <3>1. UNCHANGED <<prog, last_caller, kept>>
      BY <2>1 DEF Tick, mapVars, histVars
    <3> QED
      BY <3>1 DEF Named, NamedBy
  <2>2. ASSUME NEW c \in CPUs, OnlyOn(c), UNCHANGED <<last_caller, kept>>,
               NamedBy(c)'
        PROVE  Named'
    <3>1. ASSUME NEW d \in CPUs PROVE NamedBy(d)'
      <4>1. CASE d = c
        BY <2>2, <4>1
      <4>2. CASE d # c
        BY <2>0, <2>2, <4>2, NamedStays DEF OnlyOn, Named
      <4> QED
        BY <4>1, <4>2
    <3> QED
      BY <2>2, <3>1 DEF Named
  <2>3. ASSUME NEW c \in CPUs, NEW p \in Apps, Transaction(c, p) PROVE Named'
    <3>1. OnlyOn(c) /\ NamedBy(c)'
      BY <1>0, <2>3, TransactionFields DEF NamedBy
    <3> QED
      BY <2>2, <2>3, <3>1 DEF Transaction, mapVars
  <2>4. ASSUME NEW c \in CPUs, NEW p \in Others, Session(c, p) PROVE Named'
    <3>1. OnlyOn(c) /\ prog'[c].pc = "load" /\ prog'[c].seen = Len(kept) /\ prog'[c].later = {}
      BY <1>0, <2>4, SessionFields
    <3>2. UNCHANGED <<last_caller, kept>> /\ Len(kept) \in Nat
      BY <1>0, <2>4, HistoryFields DEF Session, mapVars, histVars
    <3>3. NamedBy(c)'
      BY <3>1, <3>2 DEF NamedBy
    <3> QED
      BY <2>2, <3>1, <3>2, <3>3
  <2>5. ASSUME NEW c \in CPUs, Dedup(c) PROVE Named'
    <3>1. OnlyOn(c) /\ NamedBy(c)'
      BY <1>0, <2>5, DedupFields DEF NamedBy, Idle
    <3> QED
      BY <2>2, <2>5, <3>1 DEF Dedup, mapVars, histVars
  <2>6. ASSUME NEW c \in CPUs, RememberRecent(c) PROVE Named'
    <3>1. OnlyOn(c) /\ NamedBy(c)'
      BY <1>0, <2>6, RecentFields DEF NamedBy
    <3> QED
      BY <2>2, <2>6, <3>1 DEF RememberRecent, histVars
  <2>7. ASSUME NEW c \in CPUs, Report(c) \/ ReportFails(c) PROVE Named'
    <3>1. OnlyOn(c) /\ NamedBy(c)'
      BY <2>7, SMTT(40) DEF Report, ReportFails, Base, Types, OnlyOn, NamedBy, Idle
    <3> QED
      BY <2>2, <2>7, <3>1 DEF Report, ReportFails, mapVars, histVars
  <2>8. ASSUME NEW c \in CPUs, NEW f \in {"pid", "ns"}, LoadLast(c, f) PROVE Named'
    <3>1. OnlyOn(c)
      BY <1>0, <2>8, LoadFields
    <3> QED
      BY <2>2, <2>8, <3>1, LoadNamed DEF LoadLast, mapVars, histVars
  <2>9. ASSUME NEW c \in CPUs, NEW f \in {"pid", "ns"}, RememberLast(c, f) PROVE Named'
    BY <2>0, <2>9, StoreNamed
  <2> QED
    BY <1>2, <2>1, <2>3, <2>4, <2>5, <2>6, <2>7, <2>8, <2>9, SMTT(40) DEF Next, BpfStep, Hook
<1> QED
  BY <1>1, <1>2
-----------------------------------------------------------------------------
(* What is reported.                                                       *)

LEMMA ToldStays ==
  ASSUME CallsGrow, KeptGrow, version' = version, Len(kept) \in Nat, Len(kept') \in Nat, NEW r, Told(r)
  PROVE  Told(r)'
<1>1. /\ r.seen \in Nat /\ r.seen <= Len(kept') /\ r.upto \in Nat /\ r.upto <= Len(kept')
      /\ r.seen <= Len(kept) /\ r.upto <= Len(kept)
  BY DEF Told, KeptGrow
<1>2. \/ version = 1
      \/ r.pid = r.own
      \/ \E i \in 1..Len(calls') :
           /\ calls'[i].pid = r.pid
           /\ r.quiet => calls'[i].now \in (r.now - MATCH_WINDOW - MaxRun)..r.now
  BY DEF Told, CallsGrow
<1>3. \A j \in 1..Len(kept) : kept'[j] = kept[j]
  BY DEF KeptGrow
<1>4. r.quiet /\ r.pid = r.own => \A j \in 1..r.seen : kept'[j].now < r.now - MATCH_WINDOW + MaxRun
  BY <1>1, <1>3 DEF Told
<1>5. version = 1 => IF r.pid = NoPid THEN r.seen = 0
                     ELSE \E j \in r.seen..r.upto : j > 0 /\ kept'[j].pid = r.pid
  <2>1. CASE version = 1 /\ r.pid # NoPid
    <3>1. PICK j \in r.seen..r.upto : j > 0 /\ kept[j].pid = r.pid
      BY <2>1 DEF Told
    <3>2. kept'[j] = kept[j]
      BY <1>1, <1>3, <3>1
    <3> QED
      BY <2>1, <3>1, <3>2
  <2>2. CASE ~(version = 1 /\ r.pid # NoPid)
    BY <2>2 DEF Told
  <2> QED
    BY <2>1, <2>2
<1> QED
  BY <1>1, <1>2, <1>4, <1>5 DEF Told

(* The difference of two times is their distance, as neither is beyond     *)
(* TimeMod.                                                                *)
LEMMA AgeValue ==
  ASSUME NEW now \in Nat, NEW ts \in Nat, ts <= now, now <= MaxTime
  PROVE  Age(now, ts) = now - ts
<1>1. now - ts \in 0..(TimeMod - 1)
  OBVIOUS
<1> QED
  BY <1>1 DEF Age

(* Version 2: whom a session event names. *)
LEMMA InferredTold ==
  ASSUME Base, Known, version = 2, NEW c \in CPUs, prog[c].pc = "infer", NEW r,
         r = [pid |-> Inferred(prog[c]), own |-> prog[c].pid, now |-> prog[c].now,
              quiet |-> prog[c].quiet, seen |-> prog[c].seen, upto |-> Len(kept)]
  PROVE  Told(r)
<1>1. KnownTo(c) /\ prog[c] \in Watchers
  BY ProgramFields DEF Known, Watching, Base
<1>2. PICK w \in Apps \cup {NoPid}, t \in Nat, n \in Nat, s \in Nat, o \in Others, q \in BOOLEAN :
        w = prog[c].who /\ t = prog[c].ns /\ n = prog[c].now /\ s = prog[c].seen
        /\ o = prog[c].pid /\ q = prog[c].quiet
  BY <1>1 DEF Watchers
<1>3. n <= MaxTime
  <2>1. n <= clock /\ clock <= MaxTime /\ clock \in Nat
    BY <1>2 DEF Base, Types, Clocked
  <2> QED
    BY <1>2, <2>1
<1>4. /\ s <= Len(kept) /\ Len(kept) \in Nat /\ Len(kept) <= Len(kept)
      /\ w # NoPid => \E i \in 1..Len(calls) : calls[i].pid = w
  BY <1>1, <1>2, HistoryFields DEF KnownTo, Base
<1>5. q => Good(calls, kept, w, t, n, s)
  BY <1>1, <1>2 DEF KnownTo
<1>6. /\ r.own = o /\ r.now = n /\ r.quiet = q /\ r.seen = s /\ r.upto = Len(kept)
      /\ r.pid = IF Age(n, t) > MATCH_WINDOW \/ w = NoPid THEN o ELSE w
  BY <1>2 DEF Inferred
<1>7. q => Age(n, t) = n - t /\ t <= n
  BY <1>2, <1>3, <1>5, AgeValue DEF Good
<1>8. ASSUME r.pid # r.own
      PROVE  \E i \in 1..Len(calls) :
               /\ calls[i].pid = r.pid
               /\ r.quiet => calls[i].now \in (r.now - MATCH_WINDOW - MaxRun)..r.now
  <2>1. ~(Age(n, t) > MATCH_WINDOW) /\ w # NoPid /\ r.pid = w
    BY <1>6, <1>8
  <2>2. CASE q
    <3>1. PICK i \in 1..Len(calls) : calls[i].pid = w /\ calls[i].now <= n /\ t <= calls[i].now + MaxRun
      BY <1>5, <2>1, <2>2 DEF Good
    <3>2. calls[i].now \in Nat
      BY HistoryFields DEF Base
    <3>3. n - t <= MATCH_WINDOW
      BY <1>2, <1>7, <2>1, <2>2
    <3>4. calls[i].now \in (n - MATCH_WINDOW - MaxRun)..n
      BY <3>1, <3>2, <3>3, InMatchWindow
    <3> QED
      BY <1>6, <2>1, <3>1, <3>4
  <2>3. CASE ~q
    BY <1>4, <1>6, <2>1, <2>3
  <2> QED
    BY <2>2, <2>3
<1>9. ASSUME r.quiet, r.pid = r.own, NEW j \in 1..r.seen
      PROVE  kept[j].now < r.now - MATCH_WINDOW + MaxRun
  <2>1. w # NoPid
    BY <1>2, <1>5, <1>6, <1>9 DEF Good
  <2>2. w # o
    BY <1>2, <2>1
  <2>3. Age(n, t) > MATCH_WINDOW
    BY <1>6, <1>9, <2>1, <2>2
  <2>4. n - t > MATCH_WINDOW
    BY <1>6, <1>7, <1>9, <2>3
  <2>5. j \in 1..s /\ j \in 1..Len(kept)
    BY <1>2, <1>4, <1>6, <1>9
  <2>6. kept[j].now <= t + MaxRun /\ kept[j].now \in Nat
    BY <1>5, <1>6, <1>9, <2>5, HistoryFields DEF Good, Base
  <2>7. kept[j].now < n - MATCH_WINDOW + MaxRun
    BY <2>4, <2>6, BeforeMatchWindow
  <2> QED
    BY <1>6, <2>7
<1> QED
  BY <1>4, <1>6, <1>8, <1>9 DEF Told

(* Version 1: whom a session event may name. *)
LEMMA PointedTold ==
  ASSUME Base, Named, version = 1, NEW c \in CPUs, prog[c].pc = "infer", NEW p \in Names(prog[c]), NEW r,
         r = [pid |-> p, own |-> prog[c].pid, now |-> prog[c].now,
              quiet |-> prog[c].quiet, seen |-> prog[c].seen, upto |-> Len(kept)]
  PROVE  Told(r)
<1>1. NamedBy(c) /\ prog[c] \in Watchers
  BY ProgramFields DEF Named, Watching, Base
<1>2. PICK w \in Apps \cup {NoPid}, l \in SUBSET Apps, s \in Nat, o \in Others :
        w = prog[c].who /\ l = prog[c].later /\ s = prog[c].seen /\ o = prog[c].pid
  BY <1>1 DEF Watchers
<1>3. /\ s <= Len(kept) /\ Len(kept) \in Nat /\ Len(kept) <= Len(kept)
      /\ w = NoPid => s = 0
      /\ w # NoPid => WasLast(kept, w, s, Len(kept))
      /\ \A q \in l : WasLast(kept, q, s, Len(kept))
  BY <1>1, <1>2, HistoryFields DEF NamedBy, Base
<1>4. /\ r.pid = p /\ r.own = o /\ r.seen = s /\ r.upto = Len(kept)
  BY <1>2
<1>5. p \in IF w = NoPid THEN {NoPid} ELSE {w} \cup l
  BY <1>2 DEF Names
<1>6. p # o
  BY <1>2, <1>5 DEF NoPid
<1>7. CASE p = NoPid
  <2>1. w = NoPid
    BY <1>2, <1>5, <1>7 DEF NoPid
  <2> QED
    BY <1>3, <1>4, <1>6, <1>7, <2>1 DEF Told
<1>8. CASE p # NoPid
  <2>1. WasLast(kept, p, s, Len(kept))
    BY <1>3, <1>5, <1>8
  <2>2. \E j \in s..Len(kept) : j > 0 /\ kept[j].pid = p
    BY <1>2, <1>3, <2>1 DEF WasLast
  <2> QED
    BY <1>3, <1>4, <1>6, <1>8, <2>2 DEF Told
<1> QED
  BY <1>7, <1>8

Everything == Base /\ LastInv /\ Known /\ Named /\ Records

LEMMA InitEverything == Init => Everything
BY InitBase, InitLast, InitKnown, InitNamed DEF Init, Everything, Records

LEMMA NextEverything == Everything /\ [Next]_vars => Everything'
<1> SUFFICES ASSUME Everything, [Next]_vars PROVE Everything'
  OBVIOUS
<1>1. Base' /\ LastInv' /\ Known' /\ Named'
  BY NextBase, NextLast, NextKnown, NextNamed DEF Everything
<1>2. CASE UNCHANGED vars
  <2>1. Records'
    BY <1>2 DEF vars, mapVars, histVars, Everything, Records, Told
  <2> QED
    BY <1>1, <2>1 DEF Everything
<1>3. CASE Next
  <2>0. CallsGrow /\ KeptGrow
    BY <1>3, HistoryGrows DEF Everything
  <2>1. Len(kept) \in Nat /\ Len(kept') \in Nat
    <3>1. Types /\ Types'
      BY <1>1 DEF Everything, Base
    <3>2. kept \in Seq([pid : Apps, now : Nat]) /\ kept' \in Seq([pid : Apps, now : Nat])
      BY <3>1, SMTT(40) DEF Types
    <3> QED
      BY <3>2
  <2>2. version' = version
    BY <1>3, ZenonT(60) DEF Next, Tick, BpfStep, Hook, Dedup, RememberRecent, RememberLast, LoadLast, Report,
                ReportFails, Transaction, Session
  <2>3. \A r \in sessions : Told(r)'
    BY <2>0, <2>1, <2>2, ToldStays DEF Everything, Records
  <2>4. ASSUME NEW c \in CPUs, Report(c) PROVE Records'
    <3>1. PICK p \in Names(prog[c]) :
            sessions' = sessions \cup
              {[pid |-> p, own |-> prog[c].pid, now |-> prog[c].now,
                quiet |-> prog[c].quiet, seen |-> prog[c].seen, upto |-> Len(kept)]}
      BY <2>4 DEF Report
    <3>2. PICK r : r = [pid |-> p, own |-> prog[c].pid, now |-> prog[c].now,
                        quiet |-> prog[c].quiet, seen |-> prog[c].seen, upto |-> Len(kept)]
      OBVIOUS
    <3>3. prog[c].pc = "infer"
      BY <2>4 DEF Report
    <3>4. CASE version = 1
      <4>1. Told(r)
        BY <3>2, <3>3, <3>4, PointedTold DEF Everything
      <4>2. Told(r)'
        BY <2>0, <2>1, <2>2, <4>1, ToldStays
      <4> QED
        BY <2>3, <3>1, <3>2, <4>2 DEF Records
    <3>5. CASE version = 2
      <4>0. p = Inferred(prog[c])
        BY <3>1, <3>5 DEF Names
      <4>1. Told(r)
        BY <3>2, <3>3, <3>5, <4>0, InferredTold DEF Everything
      <4>2. Told(r)'
        BY <2>0, <2>1, <2>2, <4>1, ToldStays
      <4> QED
        BY <2>3, <3>1, <3>2, <4>2 DEF Records
    <3> QED
      BY <3>4, <3>5 DEF Everything, Base, Types
  <2>5. ASSUME sessions' = sessions PROVE Records'
    <3>1. SUFFICES ASSUME NEW r \in sessions' PROVE Told(r)'
      BY DEF Records
    <3>2. r \in sessions
      BY <2>5, <3>1
    <3> QED
      BY <2>3, <3>2
  <2>6. sessions' = sessions \/ \E c \in CPUs : Report(c)
    BY <1>3, ZenonT(60) DEF Next, Tick, BpfStep, Hook, Dedup, RememberRecent, RememberLast, LoadLast,
                ReportFails, Transaction, Session
  <2>7. Records'
    BY <2>4, <2>5, <2>6
  <2> QED
    BY <1>1, <2>7 DEF Everything
<1> QED
  BY <1>2, <1>3

LEMMA AlwaysEverything == Spec => []Everything
BY InitEverything, NextEverything, PTL DEF Spec

(* get_last_caller of version 2 names no wrong app: a session event names  *)
(* its own process or an app that called cameraserver, within the match    *)
(* window unless a call was being stored at that moment; for any number of *)
(* CPUs and apps.                                                          *)
THEOREM AttributionSound == Spec => []SessionAttribution
<1>1. Everything => SessionAttribution
  <2> SUFFICES ASSUME Everything PROVE SessionAttribution
    OBVIOUS
  <2>1. DOMAIN calls = 1..Len(calls)
    BY DEF Everything, Base, Types
  <2>2. \A r \in sessions :
          \/ version = 1
          \/ r.pid = r.own
          \/ \E i \in 1..Len(calls) :
               /\ calls[i].pid = r.pid
               /\ r.quiet => calls[i].now \in (r.now - MATCH_WINDOW - MaxRun)..r.now
    BY DEF Everything, Records, Told
  <2> QED
    BY <2>1, <2>2 DEF SessionAttribution
<1> QED
  BY <1>1, AlwaysEverything, PTL

(* get_last_caller misses no app: an undisturbed session event that names  *)
(* no app found no stored call that was fresh.                             *)
THEOREM NoFreshCallerMissed == Spec => []FreshCallerFound
<1>1. Everything => FreshCallerFound
  BY DEF Everything, Records, Told, FreshCallerFound
<1> QED
  BY <1>1, AlwaysEverything, PTL

(* Version 1, which reads the map element through a pointer after later    *)
(* calls may have overwritten it: whom an event names was the last caller  *)
(* at some moment between the event and its record.                        *)
THEOREM PointerNamesALastCaller == Spec => []NamedWasLast
<1>1. Everything => NamedWasLast
  BY DEF Everything, Records, Told, NamedWasLast
<1> QED
  BY <1>1, AlwaysEverything, PTL
-----------------------------------------------------------------------------
(* The dedup window.                                                       *)

(* Nothing of p changes: neither its programs nor its entry nor its calls. *)
LEMMA SpacedStays ==
  ASSUME Base, NEW p \in Apps, Spaced(p), clock' \in Nat, clock <= clock',
         \A d \in CPUs : Calling(d)' /\ prog'[d].pid = p =>
           /\ Calling(d) /\ prog'[d].pc = prog[d].pc
           /\ prog'[d].pid = prog[d].pid /\ prog'[d].now = prog[d].now,
         p \in DOMAIN recent_caller' =>
           p \in DOMAIN recent_caller /\ recent_caller'[p] = recent_caller[p],
         \A j \in 1..Len(kept') : kept'[j].pid = p => j \in 1..Len(kept) /\ kept'[j] = kept[j]
  PROVE  Spaced(p)'
<1>1. \A c, d \in CPUs : Calling(c)' /\ Calling(d)' /\ prog'[c].pid = p /\ prog'[d].pid = p => c = d
  BY DEF Spaced
<1>2. ASSUME p \in DOMAIN recent_caller'
      PROVE  /\ recent_caller'[p] <= clock'
             /\ \A j \in 1..Len(kept') : kept'[j].pid = p => kept'[j].now <= recent_caller'[p]
             /\ \A i, j \in 1..Len(kept') : i < j /\ kept'[i].pid = p /\ kept'[j].pid = p =>
                  kept'[j].now - kept'[i].now >= DEDUP_WINDOW
  <2>1. p \in DOMAIN recent_caller /\ recent_caller'[p] = recent_caller[p] /\ recent_caller[p] <= clock
    BY <1>2 DEF Spaced
  <2>2. recent_caller[p] \in Nat /\ clock \in Nat
    BY <2>1 DEF Base, Types
  <2>3. recent_caller'[p] <= clock'
    BY <2>1, <2>2
  <2> QED
    BY <2>1, <2>3, SMTT(40) DEF Spaced
<1>3. ASSUME p \in DOMAIN recent_caller', NEW c \in CPUs, Calling(c)', prog'[c].pid = p
      PROVE  /\ prog'[c].pc = "dedup" => recent_caller'[p] <= prog'[c].now
             /\ prog'[c].pc = "recent" => prog'[c].now - recent_caller'[p] >= DEDUP_WINDOW
             /\ prog'[c].pc = "last" =>
                  /\ recent_caller'[p] = prog'[c].now
                  /\ \A j \in 1..Len(kept') : kept'[j].pid = p => prog'[c].now - kept'[j].now >= DEDUP_WINDOW
  <2>1. p \in DOMAIN recent_caller /\ recent_caller'[p] = recent_caller[p]
    BY <1>3
  <2>2. Calling(c) /\ prog'[c].pc = prog[c].pc /\ prog[c].pid = p /\ prog'[c].now = prog[c].now
    BY <1>3
  <2> QED
    BY <2>1, <2>2 DEF Spaced
<1> QED
  BY <1>1, <1>2, <1>3 DEF Spaced

LEMMA TransactionSpaced ==
  ASSUME Base, NEW c \in CPUs, NEW q \in Apps, Transaction(c, q), NEW p \in Apps \ raced', Spaced(p)
  PROVE  Spaced(p)'
<1>0. Types /\ clock \in Nat
  BY DEF Base, Types
<1>1. UNCHANGED <<clock, recent_caller, kept>> /\ prog[c].pc = "idle"
  BY DEF Transaction, mapVars
<1>2. OnlyOn(c) /\ prog'[c].pc = "dedup" /\ prog'[c].pid = q /\ prog'[c].now = clock
  BY <1>0, TransactionFields
<1>3. CASE q # p
  <2>1. \A d \in CPUs : Calling(d)' /\ prog'[d].pid = p => prog'[d] = prog[d] /\ Calling(d)
    BY <1>2, <1>3 DEF OnlyOn, Calling
  <2>2. clock' \in Nat /\ clock <= clock'
    BY <1>0, <1>1
  <2> QED
    BY <1>1, <2>1, <2>2, SpacedStays
<1>4. CASE q = p
  <2>1. InFlight(p) = {}
    BY <1>4 DEF Transaction
  <2>2. \A d \in CPUs : ~(Calling(d) /\ prog[d].pid = p)
    BY <2>1 DEF InFlight, Calling
  <2>3. \A d \in CPUs : Calling(d)' /\ prog'[d].pid = p => d = c
    BY <1>2, <2>2 DEF OnlyOn, Calling
  <2>4. p \in DOMAIN recent_caller => recent_caller[p] <= prog'[c].now
    BY <1>2 DEF Spaced
  <2>5. \A d \in CPUs : Calling(d)' /\ prog'[d].pid = p =>
          prog'[d].pc = "dedup" /\ prog'[d].now = prog'[c].now
    BY <1>2, <2>3
  <2> QED
    BY <1>1, <2>3, <2>4, <2>5 DEF Spaced
<1> QED
  BY <1>3, <1>4

LEMMA DedupSpaced ==
  ASSUME Base, NEW c \in CPUs, Dedup(c), NEW p \in Apps, Spaced(p)
  PROVE  Spaced(p)'
<1>0. Types /\ clock \in Nat
  BY DEF Base, Types
<1>1. UNCHANGED <<clock, recent_caller, kept>> /\ prog[c].pc = "dedup" /\ Calling(c) /\ prog[c] \in Callers
  BY <1>0, ProgramFields DEF Dedup, mapVars, histVars, Calling
<1>2. /\ OnlyOn(c)
      /\ \/ prog'[c] = Idle
         \/ /\ prog'[c].pc = "recent"
            /\ prog'[c].pid = prog[c].pid /\ prog'[c].now = prog[c].now
            /\ ~SeenRecently(prog[c].pid, prog[c].now)
  BY <1>0, DedupFields
<1>3. clock' \in Nat /\ clock <= clock'
  BY <1>0, <1>1
<1>4. CASE prog'[c] = Idle \/ prog[c].pid # p
  <2>1. \A d \in CPUs : Calling(d)' /\ prog'[d].pid = p => prog'[d] = prog[d] /\ Calling(d)
    BY <1>2, <1>4 DEF OnlyOn, Calling, Idle
  <2> QED
    BY <1>1, <1>3, <2>1, SpacedStays
<1>5. CASE prog'[c] # Idle /\ prog[c].pid = p
  <2>1. \A d \in CPUs : Calling(d)' /\ prog'[d].pid = p => d = c
    BY <1>1, <1>2, <1>5 DEF OnlyOn, Calling, Spaced
  <2>2. ASSUME p \in DOMAIN recent_caller
        PROVE  prog[c].now - recent_caller[p] >= DEDUP_WINDOW
    <3>1. recent_caller[p] <= prog[c].now
      BY <1>1, <1>5, <2>2 DEF Spaced
    <3>2. ~(Age(prog[c].now, recent_caller[p]) < DEDUP_WINDOW)
      BY <1>2, <1>5, <2>2 DEF SeenRecently
    <3>3. recent_caller[p] \in Nat /\ prog[c].now \in Nat
      BY <1>0, <1>1, <2>2 DEF Types, Callers
    <3>4. prog[c].now <= MaxTime
      <4>1. prog[c].now <= clock /\ clock <= MaxTime
        BY <1>1 DEF Base, Clocked, Types
      <4> QED
        BY <1>0, <3>3, <4>1
    <3>5. Age(prog[c].now, recent_caller[p]) = prog[c].now - recent_caller[p]
      BY <3>1, <3>3, <3>4, AgeValue
    <3> QED
      BY <3>2, <3>3, <3>5
  <2>3. \A d \in CPUs : Calling(d)' /\ prog'[d].pid = p =>
          prog'[d].pc = "recent" /\ prog'[d].now = prog[c].now
    BY <1>2, <1>5, <2>1
  <2> QED
    BY <1>1, <2>1, <2>2, <2>3 DEF Spaced
<1> QED
  BY <1>4, <1>5

(* What remember_caller does to the hash map. *)
LEMMA RecentMap ==
  ASSUME Types, NEW c \in CPUs, RememberRecent(c), NEW q \in Apps, NEW n \in Nat,
         q = prog[c].pid, n = prog[c].now
  PROVE  UpdateOf(recent_caller', q, n)
<1>1. recent_caller' = Updated(q, n)
  BY DEF RememberRecent
<1> QED
  BY <1>1, UpdatedFields

(* remember_caller: an entry that is new had no call remembered, as only a *)
(* full map refuses one.                                                   *)
LEMMA RecentSpaced ==
  ASSUME Base, Remembered, NEW c \in CPUs, RememberRecent(c), NEW p \in Apps, Spaced(p)
  PROVE  Spaced(p)'
<1>0. Types /\ clock \in Nat
  BY DEF Base, Types
<1>1. UNCHANGED <<clock, kept>> /\ prog[c].pc = "recent" /\ Calling(c) /\ prog[c] \in Callers
  BY <1>0, ProgramFields DEF RememberRecent, histVars, Calling
<1>2. /\ OnlyOn(c) /\ prog'[c].pc = "last"
      /\ prog'[c].pid = prog[c].pid /\ prog'[c].now = prog[c].now
  BY <1>0, RecentFields
<1>3. clock' \in Nat /\ clock <= clock'
  BY <1>0, <1>1
<1>4. PICK q \in Apps, n \in Nat : q = prog[c].pid /\ n = prog[c].now /\ n <= clock
  BY <1>1 DEF Callers, Base, Clocked
<1>5. UpdateOf(recent_caller', q, n)
  BY <1>0, <1>4, RecentMap
<1>6. CASE q # p
  <2>1. \A d \in CPUs : Calling(d)' /\ prog'[d].pid = p => prog'[d] = prog[d] /\ Calling(d)
    BY <1>2, <1>4, <1>6 DEF OnlyOn, Calling
  <2>2. p \in DOMAIN recent_caller' =>
          p \in DOMAIN recent_caller /\ recent_caller'[p] = recent_caller[p]
    BY <1>5, <1>6 DEF UpdateOf
  <2> QED
    BY <1>1, <1>3, <2>1, <2>2, SpacedStays
<1>7. CASE q = p
  <2>1. \A d \in CPUs : Calling(d)' /\ prog'[d].pid = p => d = c
    BY <1>1, <1>2, <1>4, <1>7 DEF OnlyOn, Calling, Spaced
  <2>2. CASE p \notin DOMAIN recent_caller /\ Full
    <3>1. p \notin DOMAIN recent_caller'
      BY <1>5, <1>7, <2>2 DEF UpdateOf
    <3> QED
      BY <2>1, <3>1 DEF Spaced
  <2>3. CASE p \in DOMAIN recent_caller \/ ~Full
    <3>1. recent_caller'[p] = n
      BY <1>5, <1>7, <2>3 DEF UpdateOf
    <3>2. ASSUME NEW j \in 1..Len(kept), kept[j].pid = p
          PROVE  kept[j].now <= n /\ n - kept[j].now >= DEDUP_WINDOW
      <4>1. p \in DOMAIN recent_caller
        BY <2>3, <3>2 DEF Remembered
      <4>2. kept[j].now <= recent_caller[p] /\ n - recent_caller[p] >= DEDUP_WINDOW
        BY <1>1, <1>4, <1>7, <3>2, <4>1 DEF Spaced
      <4>3. kept[j].now \in Nat /\ recent_caller[p] \in Nat
        BY <1>0, <4>1, HistoryFields DEF Types
      <4> QED
        BY <1>4, <4>2, <4>3, SMTT(40)
    <3>3. ASSUME NEW i \in 1..Len(kept), NEW j \in 1..Len(kept), i < j, kept[i].pid = p, kept[j].pid = p
          PROVE  kept[j].now - kept[i].now >= DEDUP_WINDOW
      <4>1. p \in DOMAIN recent_caller
        BY <2>3, <3>3 DEF Remembered
      <4> QED
        BY <3>3, <4>1 DEF Spaced
    <3>4. \A d \in CPUs : Calling(d)' /\ prog'[d].pid = p => prog'[d].pc = "last" /\ prog'[d].now = n
      BY <1>2, <1>4, <2>1
    <3> QED
      BY <1>1, <1>4, <2>1, <3>1, <3>2, <3>3, <3>4 DEF Spaced
  <2> QED
    BY <2>2, <2>3
<1> QED
  BY <1>6, <1>7

LEMMA StoreSpaced ==
  ASSUME Base, NEW c \in CPUs, NEW f \in {"pid", "ns"}, RememberLast(c, f), NEW p \in Apps, Spaced(p)
  PROVE  Spaced(p)'
<1>0. Types /\ clock \in Nat /\ Len(kept) \in Nat
  BY HistoryFields DEF Base, Types
<1>1. UNCHANGED <<clock, recent_caller>> /\ prog[c].pc = "last" /\ Calling(c) /\ prog[c] \in Callers
  BY StoreMaps DEF Calling
<1>2. clock' \in Nat /\ clock <= clock'
  BY <1>0, <1>1
<1>3. ASSUME NEW d \in CPUs, Calling(d)'
      PROVE  /\ Calling(d) /\ prog'[d].pc = prog[d].pc
             /\ prog'[d].pid = prog[d].pid /\ prog'[d].now = prog[d].now
             /\ d = c => prog[c].todo # {f}
  <2>1. CASE d = c
    <3>1. \/ prog[c].todo = {f} /\ prog'[c] = Idle
          \/ /\ prog[c].todo # {f} /\ prog'[c].pc = "last"
             /\ prog'[c].pid = prog[c].pid /\ prog'[c].now = prog[c].now
      BY <1>0, StoreFields
    <3> QED
      BY <1>1, <1>3, <2>1, <3>1 DEF Calling, Idle
  <2>2. CASE d # c
    <3>1. Watching(d) => prog'[d].pc = prog[d].pc
      BY <1>0, <2>2, StoreWatcher
    <3>2. ~Watching(d)
      BY <1>3, <3>1 DEF Watching, Calling
    <3>3. prog'[d] = prog[d]
      BY <1>0, <2>2, <3>2, StoreFields
    <3> QED
      BY <1>3, <2>2, <3>3 DEF Calling
  <2> QED
    BY <2>1, <2>2
<1>4. CASE prog[c].todo # {f}
  <2>1. kept' = kept
    BY <1>4, StoreMaps
  <2> QED
    BY <1>1, <1>2, <1>3, <2>1, SpacedStays
<1>5. CASE prog[c].todo = {f}
  <2>1. PICK m : m = Len(kept) + 1
    OBVIOUS
  <2>2. /\ Len(kept') = m /\ \A j \in 1..Len(kept) : kept'[j] = kept[j]
        /\ kept'[m].pid = prog[c].pid /\ kept'[m].now = prog[c].now
    BY <1>5, <2>1, StoreMaps
  <2>3. \A j \in 1..Len(kept') : j = m \/ j \in 1..Len(kept)
    BY <1>0, <2>1, <2>2
  <2>4. CASE prog[c].pid # p
    <3>1. \A j \in 1..Len(kept') : kept'[j].pid = p => j \in 1..Len(kept) /\ kept'[j] = kept[j]
      BY <2>2, <2>3, <2>4
    <3> QED
      BY <1>1, <1>2, <1>3, <3>1, SpacedStays
  <2>5. CASE prog[c].pid = p
    <3>1. \A d \in CPUs : ~(Calling(d)' /\ prog'[d].pid = p)
      BY <1>1, <1>3, <1>5, <2>5 DEF Spaced
    <3>2. ASSUME p \in DOMAIN recent_caller
          PROVE  /\ recent_caller[p] <= clock
                 /\ \A j \in 1..Len(kept') : kept'[j].pid = p => kept'[j].now <= recent_caller[p]
                 /\ \A i, j \in 1..Len(kept') : i < j /\ kept'[i].pid = p /\ kept'[j].pid = p =>
                      kept'[j].now - kept'[i].now >= DEDUP_WINDOW
      <4>1. /\ recent_caller[p] = prog[c].now
            /\ \A j \in 1..Len(kept) : kept[j].pid = p => prog[c].now - kept[j].now >= DEDUP_WINDOW
        BY <1>1, <2>5, <3>2 DEF Spaced
      <4>2. /\ recent_caller[p] <= clock
            /\ \A j \in 1..Len(kept) : kept[j].pid = p => kept[j].now <= recent_caller[p]
            /\ \A i, j \in 1..Len(kept) : i < j /\ kept[i].pid = p /\ kept[j].pid = p =>
                 kept[j].now - kept[i].now >= DEDUP_WINDOW
        BY <3>2 DEF Spaced
      <4>3. ASSUME NEW j \in 1..Len(kept'), kept'[j].pid = p PROVE kept'[j].now <= recent_caller[p]
        <5>1. prog[c].now \in Nat
          BY <1>1 DEF Callers
        <5> QED
          BY <2>2, <2>3, <4>1, <4>2, <4>3, <5>1
      <4>4. ASSUME NEW i \in 1..Len(kept'), NEW j \in 1..Len(kept'), i < j, kept'[i].pid = p, kept'[j].pid = p
            PROVE  kept'[j].now - kept'[i].now >= DEDUP_WINDOW
        <5>1. i \in 1..Len(kept)
          BY <1>0, <2>1, <2>2, <4>4
        <5> QED
          BY <2>2, <2>3, <4>1, <4>2, <4>4, <5>1
      <4> QED
        BY <4>2, <4>3, <4>4
    <3> QED
      BY <1>1, <3>1, <3>2 DEF Spaced
  <2> QED
    BY <2>4, <2>5
<1> QED
  BY <1>4, <1>5

(* Steps that leave the calls, the map and the history alone. *)
LEMMA OtherSpaced ==
  ASSUME Base, NEW p \in Apps, Spaced(p),
         \/ Tick
         \/ \E c \in CPUs : \/ Report(c) \/ ReportFails(c)
                            \/ \E f \in {"pid", "ns"} : LoadLast(c, f)
                            \/ \E q \in Others : Session(c, q)
  PROVE  Spaced(p)'
<1>0. Types /\ clock \in Nat
  BY SMTT(40) DEF Base, Types
<1>1. UNCHANGED <<recent_caller, kept>> /\ clock' \in Nat /\ clock <= clock'
  <2>1. UNCHANGED <<recent_caller, kept>> /\ (clock' = clock \/ clock' = clock + 1)
    BY DEF Tick, Report, ReportFails, LoadLast, Session, mapVars, histVars
  <2> QED
    BY <1>0, <2>1
<1>2. \A d \in CPUs : Calling(d)' => Calling(d) /\ prog'[d] = prog[d]
  <2>1. CASE Tick
    BY <2>1 DEF Tick, Calling
  <2>2. ASSUME NEW c \in CPUs, OnlyOn(c), ~Calling(c)'
        PROVE  \A d \in CPUs : Calling(d)' => Calling(d) /\ prog'[d] = prog[d]
    BY <2>2 DEF OnlyOn, Calling
  <2>3. ASSUME NEW c \in CPUs, Report(c) \/ ReportFails(c) PROVE OnlyOn(c) /\ ~Calling(c)'
    BY <2>3 DEF Report, ReportFails, Base, Types, OnlyOn, Calling, Idle
  <2>4. ASSUME NEW c \in CPUs, NEW f \in {"pid", "ns"}, LoadLast(c, f) PROVE OnlyOn(c) /\ ~Calling(c)'
    BY <1>0, <2>4, LoadFields DEF Calling
  <2>5. ASSUME NEW c \in CPUs, NEW q \in Others, Session(c, q) PROVE OnlyOn(c) /\ ~Calling(c)'
    BY <1>0, <2>5, SessionFields DEF Calling
  <2> QED
    BY <2>1, <2>2, <2>3, <2>4, <2>5
<1> QED
  BY <1>1, <1>2, SpacedStays

(* A pid of the map stays in it, and a full map stays as it is. *)
LEMMA NextRemembered ==
  ASSUME Base, Remembered, Next
  PROVE  Remembered'
<1>0. Types /\ Len(kept) \in Nat
  BY HistoryFields DEF Base
<1>1. ASSUME UNCHANGED <<recent_caller, kept>>,
             \A d \in CPUs : prog'[d].pc = "last" => prog[d].pc = "last" /\ prog'[d].pid = prog[d].pid
      PROVE  Remembered'
  BY <1>1 DEF Remembered, Full
<1>2. CASE Tick
  BY <1>1, <1>2 DEF Tick, mapVars, histVars
<1>3. ASSUME NEW c \in CPUs, UNCHANGED <<recent_caller, kept>>, OnlyOn(c), prog'[c].pc # "last"
      PROVE  Remembered'
  BY <1>1, <1>3 DEF OnlyOn
<1>4. ASSUME NEW c \in CPUs, NEW p \in Apps, Transaction(c, p) PROVE Remembered'
  <2>1. OnlyOn(c) /\ prog'[c].pc # "last"
    BY <1>0, <1>4, TransactionFields
  <2> QED
    BY <1>3, <1>4, <2>1 DEF Transaction, mapVars
<1>5. ASSUME NEW c \in CPUs, NEW p \in Others, Session(c, p) PROVE Remembered'
  <2>1. OnlyOn(c) /\ prog'[c].pc # "last"
    BY <1>0, <1>5, SessionFields
  <2> QED
    BY <1>3, <1>5, <2>1 DEF Session, mapVars, histVars
<1>6. ASSUME NEW c \in CPUs, Dedup(c) PROVE Remembered'
  <2>1. OnlyOn(c) /\ prog'[c].pc # "last"
    BY <1>0, <1>6, DedupFields DEF Idle
  <2> QED
    BY <1>3, <1>6, <2>1 DEF Dedup, mapVars, histVars
<1>7. ASSUME NEW c \in CPUs, Report(c) \/ ReportFails(c) PROVE Remembered'
  <2>1. OnlyOn(c) /\ prog'[c].pc # "last"
    BY <1>7 DEF Report, ReportFails, Base, Types, OnlyOn, Idle
  <2> QED
    BY <1>3, <1>7, <2>1 DEF Report, ReportFails, mapVars, histVars
<1>8. ASSUME NEW c \in CPUs, NEW f \in {"pid", "ns"}, LoadLast(c, f) PROVE Remembered'
  <2>1. OnlyOn(c) /\ prog'[c].pc # "last"
    BY <1>0, <1>8, LoadFields
  <2> QED
    BY <1>3, <1>8, <2>1 DEF LoadLast, mapVars, histVars
<1>9. ASSUME NEW c \in CPUs, NEW f \in {"pid", "ns"}, RememberLast(c, f) PROVE Remembered'
  <2>1. UNCHANGED recent_caller /\ prog[c].pc = "last"
    BY <1>9, StoreMaps
  <2>2. \A d \in CPUs : prog'[d].pc = "last" => prog[d].pc = "last" /\ prog'[d].pid = prog[d].pid
    <3> SUFFICES ASSUME NEW d \in CPUs, prog'[d].pc = "last"
                 PROVE  prog[d].pc = "last" /\ prog'[d].pid = prog[d].pid
      OBVIOUS
    <3>1. CASE d = c
      <4>1. prog'[c] = Idle \/ prog'[c].pid = prog[c].pid
        BY <1>0, <1>9, StoreFields
      <4> QED
        BY <2>1, <3>1, <4>1 DEF Idle
    <3>2. CASE d # c
      <4>1. Watching(d) => prog'[d].pc = prog[d].pc
        BY <1>0, <1>9, <3>2, StoreWatcher
      <4>2. ~Watching(d) => prog'[d] = prog[d]
        BY <1>0, <1>9, <3>2, StoreFields
      <4> QED
        BY <4>1, <4>2 DEF Watching
    <3> QED
      BY <3>1, <3>2
  <2>3. CASE prog[c].todo # {f}
    BY <1>1, <1>9, <2>1, <2>2, <2>3, StoreMaps
  <2>4. CASE prog[c].todo = {f}
    <3>1. /\ Len(kept') = Len(kept) + 1 /\ \A j \in 1..Len(kept) : kept'[j] = kept[j]
          /\ kept'[Len(kept) + 1].pid = prog[c].pid
      BY <1>9, <2>4, StoreMaps
    <3>2. prog[c].pid \in DOMAIN recent_caller \/ Full
      BY <2>1 DEF Remembered
    <3>3. \A j \in 1..Len(kept') : kept'[j].pid \in DOMAIN recent_caller \/ Full
      BY <1>0, <3>1, <3>2 DEF Remembered
    <3> QED
      BY <2>1, <2>2, <3>3 DEF Remembered, Full
  <2> QED
    BY <2>3, <2>4
<1>10. ASSUME NEW c \in CPUs, RememberRecent(c) PROVE Remembered'
  <2>1. kept' = kept /\ prog[c].pc = "recent" /\ prog[c] \in Callers
    BY <1>0, <1>10, ProgramFields DEF RememberRecent, histVars, Calling
  <2>2. OnlyOn(c) /\ prog'[c].pid = prog[c].pid
    BY <1>0, <1>10, RecentFields
  <2>3. PICK q \in Apps, n \in Nat : q = prog[c].pid /\ n = prog[c].now
    BY <2>1 DEF Callers
  <2>4. /\ q \in DOMAIN recent_caller \/ ~Full => DOMAIN recent_caller' = DOMAIN recent_caller \cup {q}
        /\ q \notin DOMAIN recent_caller /\ Full => recent_caller' = recent_caller
    <3>1. UpdateOf(recent_caller', q, n)
      BY <1>0, <1>10, <2>3, RecentMap
    <3> QED
      BY <3>1 DEF UpdateOf
  <2>5. DOMAIN recent_caller \subseteq DOMAIN recent_caller' /\ (Full => Full')
    <3>1. CASE q \in DOMAIN recent_caller
      <4>1. DOMAIN recent_caller' = DOMAIN recent_caller
        BY <2>4, <3>1
      <4> QED
        BY <4>1 DEF Full
    <3>2. CASE q \notin DOMAIN recent_caller
      BY <2>4, <3>2 DEF Full
    <3> QED
      BY <3>1, <3>2
  <2>6. q \in DOMAIN recent_caller' \/ Full'
    BY <2>4, <2>5
  <2> QED
    BY <2>1, <2>2, <2>3, <2>5, <2>6 DEF Remembered, OnlyOn
<1> QED
  BY <1>2, <1>4, <1>5, <1>6, <1>7, <1>8, <1>9, <1>10 DEF Next, BpfStep, Hook

LEMMA InitDedup == Init => DedupInv
<1> SUFFICES ASSUME Init PROVE DedupInv
  OBVIOUS
<1>1. (\A c \in CPUs : prog[c].pc = "idle") /\ kept = <<>> /\ Len(kept) = 0 /\ DOMAIN recent_caller = {}
  BY DEF Init, Idle
<1> QED
  BY <1>1 DEF DedupInv, Remembered, Spaced, Calling

LEMMA NextDedup == Base /\ DedupInv /\ [Next]_vars => DedupInv'
<1> SUFFICES ASSUME Base, DedupInv, [Next]_vars PROVE DedupInv'
  OBVIOUS
<1>1. CASE UNCHANGED vars
  BY <1>1 DEF vars, mapVars, histVars, DedupInv, Remembered, Spaced, Full, Calling
<1>2. CASE Next
  <2>1. Remembered'
    BY <1>2, NextRemembered, SMTT(40) DEF DedupInv
  <2>2. raced \subseteq raced'
    BY <1>2, ZenonT(60) DEF Next, BpfStep, Hook, Tick, Dedup, RememberRecent, RememberLast, LoadLast, Report,
                ReportFails, Transaction, Session, histVars
  <2>3. ASSUME NEW p \in Apps \ raced' PROVE Spaced(p)'
    <3>1. p \in Apps /\ Spaced(p) /\ Remembered
      BY <2>2 DEF DedupInv
    <3> QED
      BY <1>2, <3>1, OtherSpaced, TransactionSpaced, DedupSpaced, RecentSpaced, StoreSpaced
         DEF Next, BpfStep, Hook
  <2> QED
    BY <2>1, <2>3 DEF DedupInv
<1> QED
  BY <1>1, <1>2

(* trace_binder_transaction: the calls of an app that are reported are at  *)
(* least the dedup window apart, if the map has room for the app and no    *)
(* two of its threads called at once; for any number of CPUs and apps and  *)
(* a map of any size.                                                      *)
THEOREM ReportsAreSpaced == Spec => []DedupSpacing
<1>1. Base /\ DedupInv => DedupSpacing
  <2> SUFFICES ASSUME Base, DedupInv,
                      NEW i \in DOMAIN kept, NEW j \in DOMAIN kept, i < j, kept[i].pid = kept[j].pid,
                      kept[i].pid \in DOMAIN recent_caller \ raced
               PROVE  kept[j].now - kept[i].now >= DEDUP_WINDOW
    BY DEF DedupSpacing
  <2>1. i \in 1..Len(kept) /\ j \in 1..Len(kept)
    <3>1. DOMAIN kept = 1..Len(kept)
      BY DEF Base, Types
    <3> QED
      BY <3>1
  <2>2. PICK p : p = kept[i].pid
    OBVIOUS
  <2>3. p \in Apps
    BY <2>1, <2>2, HistoryFields DEF Base
  <2>4. Spaced(p)
    BY <2>2, <2>3 DEF DedupInv
  <2> QED
    BY <2>1, <2>2, <2>4 DEF Spaced
<1> QED
  BY <1>1, InitBase, NextBase, InitDedup, NextDedup, PTL DEF Spec
=============================================================================
