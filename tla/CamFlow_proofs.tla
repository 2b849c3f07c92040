--------------------------- MODULE CamFlow_proofs ---------------------------
(***************************************************************************)
(* Proofs about CamFlow, for any number of CPUs, requests and contexts,    *)
(* and any sizes of the two maps.  TableExact is inductive beside TypeOK:  *)
(* an update fills only an element that no request has, so that what the   *)
(* programs of one request do never reaches the element of another.  The   *)
(* latency needs the order of the times as well (Timely).                  *)
(***************************************************************************)
EXTENDS CamFlow, FiniteSetTheorems, TLAPS

USE CamFlowAssumption

-----------------------------------------------------------------------------
(* The fields that a program has at each of its steps. *)
LEMMA ProgramFields ==
  ASSUME TypeOK, NEW c \in CPUs
  PROVE  /\ At(c, "idle") => prog[c] = Idle
         /\ ~At(c, "idle") => prog[c].req \in Reqs /\ prog[c].now \in Times
         /\ At(c, "update") \/ At(c, "lookup") =>
              prog[c] = [pc |-> prog[c].pc, req |-> prog[c].req, now |-> prog[c].now]
         /\ At(c, "read") =>
              /\ prog[c] = [pc |-> "read", req |-> prog[c].req, now |-> prog[c].now,
                            ptr |-> prog[c].ptr]
              /\ prog[c].ptr \in Elems
         /\ At(c, "delete") \/ At(c, "report") =>
              /\ prog[c] = [pc |-> prog[c].pc, req |-> prog[c].req, now |-> prog[c].now,
                            latency |-> prog[c].latency]
              /\ prog[c].latency \in 0..(W - 1)
<1>1. prog[c] \in Programs
  BY DEF TypeOK
<1>2. CASE prog[c] = Idle
  BY <1>2 DEF Idle, At
<1>3. CASE prog[c] \in [pc : {"update", "lookup"}, req : Reqs, now : Times]
  BY <1>3 DEF At
<1>4. CASE prog[c] \in [pc : {"read"}, req : Reqs, now : Times, ptr : Elems]
  BY <1>4 DEF At
<1>5. CASE prog[c] \in [pc : {"delete", "report"}, req : Reqs, now : Times, latency : 0..(W - 1)]
  BY <1>5 DEF At
<1> QED
  BY <1>1, <1>2, <1>3, <1>4, <1>5 DEF Programs

(* A step to a program keeps prog well typed. *)
LEMMA GotoType ==
  ASSUME TypeOK, NEW c \in CPUs, NEW p \in Programs, Goto(c, p)
  PROVE  prog' \in [CPUs -> Programs]
BY DEF TypeOK, Goto

(* A remainder is below its divisor. *)
LEMMA RemainderRange ==
  ASSUME NEW n \in Nat, NEW x \in Nat
  PROVE  x % (n + 1) \in 0..n
OBVIOUS

(* The keys of session_map are finitely many. *)
LEMMA SessionsFinite ==
  ASSUME NEW S \in SUBSET {SessionKey(ctx) : ctx \in Contexts}
  PROVE  IsFiniteSet(S) /\ Cardinality(S) \in Nat
<1>0. PICK n \in Nat : n + 1 = 65536
  OBVIOUS
<1>1. \A ctx \in Contexts : SessionKey(ctx) \in 0..n
  <2>1. \A ctx \in Contexts : SessionKey(ctx) = ctx % (n + 1) /\ ctx \in Nat
    BY <1>0 DEF SessionKey
  <2> QED
    BY <2>1, RemainderRange
<1>2. S \in SUBSET (0..n)
  BY <1>1
<1>3. IsFiniteSet(0..n)
  BY FS_Interval
<1>4. IsFiniteSet(S)
  BY <1>2, <1>3, FS_Subset
<1> QED
  BY <1>4, FS_CardinalityType

(* flow_cam_context_state: an insertion beyond the size is refused. *)
LEMMA SessionsBound ==
  ASSUME TypeOK, NEW ctx \in Contexts, NEW state
  PROVE  /\ Sessions(SessionKey(ctx), state) \subseteq {SessionKey(x) : x \in Contexts}
         /\ Cardinality(Sessions(SessionKey(ctx), state)) <= MAX_SESSIONS
<1> DEFINE k == SessionKey(ctx)
<1> DEFINE Keys == {SessionKey(x) : x \in Contexts}
<1>1. session_map \in SUBSET Keys /\ k \in Keys /\ Cardinality(session_map) <= MAX_SESSIONS
  BY DEF TypeOK
<1>2. IsFiniteSet(session_map) /\ Cardinality(session_map) \in Nat
  BY <1>1, SessionsFinite
<1>3. Cardinality(session_map \ {k}) =
        IF k \in session_map THEN Cardinality(session_map) - 1 ELSE Cardinality(session_map)
  BY <1>2, FS_RemoveElement
<1>4. Cardinality(session_map \cup {k}) =
        IF k \in session_map THEN Cardinality(session_map) ELSE Cardinality(session_map) + 1
  BY <1>2, FS_AddElement
<1>5. Cardinality(session_map \ {k}) \in Nat /\ Cardinality(session_map \cup {k}) \in Nat
  <2>1. session_map \ {k} \in SUBSET Keys /\ session_map \cup {k} \in SUBSET Keys
    BY <1>1
  <2> QED
    BY <2>1, SessionsFinite
<1> HIDE DEF k, Keys
<1>6. Sessions(k, state) \subseteq Keys /\ Cardinality(Sessions(k, state)) <= MAX_SESSIONS
  BY <1>1, <1>2, <1>3, <1>4, <1>5 DEF Sessions
<1> QED
  BY <1>6 DEF k, Keys

(* The requests that have an element are finitely many. *)
LEMMA StoredFinite == IsFiniteSet(Stored) /\ Cardinality(Stored) \in Nat
<1>1. Stored \in SUBSET Reqs
  BY DEF Stored
<1> QED
  BY <1>1, FS_Subset, FS_CardinalityType

(* bpf_map_update_elem: an element is added only while there is room. *)
LEMMA UpdateBound ==
  ASSUME TypeOK, NEW r \in Reqs, NEW e \in Elems, HasRoom(r),
         table' = [table EXCEPT ![r] = e]
  PROVE  Cardinality(Stored') <= MAX_REQS
<1>1. Stored' = Stored \cup {r}
  BY DEF TypeOK, Stored
<1>2. IsFiniteSet(Stored) /\ Cardinality(Stored) \in Nat
  BY StoredFinite
<1>3. Cardinality(Stored \cup {r}) = IF r \in Stored THEN Cardinality(Stored) ELSE Cardinality(Stored) + 1
  BY <1>2, FS_AddElement
<1>4. r \in Stored <=> table[r] # NULL
  BY DEF Stored
<1> QED
  BY <1>1, <1>2, <1>3, <1>4 DEF HasRoom, TypeOK

(* bpf_map_delete_elem only makes room. *)
LEMMA DeleteBound ==
  ASSUME TypeOK, NEW r \in Reqs, table' = [table EXCEPT ![r] = NULL]
  PROVE  Cardinality(Stored') <= MAX_REQS
<1>1. Stored' = Stored \ {r}
  BY DEF TypeOK, Stored
<1>2. IsFiniteSet(Stored) /\ Cardinality(Stored) \in Nat
  BY StoredFinite
<1>3. Cardinality(Stored \ {r}) =
        IF r \in Stored THEN Cardinality(Stored) - 1 ELSE Cardinality(Stored)
  BY <1>2, FS_RemoveElement
<1> QED
  BY <1>1, <1>2, <1>3 DEF TypeOK

-----------------------------------------------------------------------------
(* Type correctness, one lemma per group of actions.                       *)

LEMMA InitType == Init => TypeOK
<1> SUFFICES ASSUME Init PROVE TypeOK
  OBVIOUS
<1>1. Stored = {} /\ session_map = {}
  BY DEF Init, Stored
<1>2. Cardinality({}) = 0
  BY FS_EmptySet
<1>3. Idle \in Programs
  BY DEF Programs
<1> QED
  BY <1>1, <1>2, <1>3 DEF Init, TypeOK, Times

LEMMA StartType ==
  ASSUME TypeOK, NEW c \in CPUs, NEW r \in Reqs, Apply(c, r) \/ BufDone(c, r)
  PROVE  TypeOK'
<1>1. \E p \in Programs : Goto(c, p)
  BY DEF TypeOK, Apply, BufDone, Programs
<1>2. prog' \in [CPUs -> Programs]
  BY <1>1, GotoType
<1>3. clean' \subseteq Reqs
  BY DEF TypeOK, Apply, BufDone
<1>4. UNCHANGED <<clock, table, mem, session_map, hist, Stored>>
  BY DEF Apply, BufDone, Stored
<1> QED
  BY <1>2, <1>3, <1>4 DEF TypeOK

LEMMA UpdateType ==
  ASSUME TypeOK, NEW c \in CPUs, Update(c) \/ UpdateFails(c)
  PROVE  TypeOK'
<1>1. prog[c].req \in Reqs /\ prog[c].now \in Times
  BY ProgramFields DEF Update, UpdateFails, At
<1>2. prog' \in [CPUs -> Programs]
  BY GotoType DEF Update, UpdateFails, Programs
<1>3. hist' \in [Reqs -> [st : {"none", "sent", "refused", "done"}, t : Times]]
  BY <1>1 DEF TypeOK, Update, UpdateFails, Times
<1>4. UNCHANGED <<clock, session_map, clean>>
  BY DEF Update, UpdateFails
<1>5. /\ table' \in [Reqs -> Elems \cup {NULL}]
      /\ mem' \in [Elems -> Times]
      /\ Cardinality(Stored') <= MAX_REQS
  <2>1. CASE Update(c)
    <3>1. PICK e \in Unused : /\ table' = [table EXCEPT ![prog[c].req] = e]
                              /\ mem' = [mem EXCEPT ![e] = prog[c].now]
      BY <2>1 DEF Update
    <3>2. e \in Elems /\ HasRoom(prog[c].req)
      BY <2>1 DEF Unused, Update
    <3>3. Cardinality(Stored') <= MAX_REQS
      BY <1>1, <3>1, <3>2, UpdateBound
    <3> QED
      BY <1>1, <3>1, <3>2, <3>3 DEF TypeOK
  <2>2. CASE UpdateFails(c)
    BY <2>2 DEF UpdateFails, TypeOK, Stored
  <2> QED
    BY <2>1, <2>2
<1> QED
  BY <1>2, <1>3, <1>4, <1>5 DEF TypeOK

LEMMA DoneType ==
  ASSUME TypeOK, NEW c \in CPUs, Lookup(c) \/ Read(c) \/ Delete(c) \/ Report(c)
  PROVE  TypeOK'
<1>1. UNCHANGED <<clock, mem, session_map, clean>>
  BY DEF Lookup, Read, Delete, Report
<1>2. CASE Lookup(c)
  <2>1. prog[c].req \in Reqs /\ prog[c].now \in Times
    BY <1>2, ProgramFields DEF Lookup, At
  <2>2. \E p \in Programs : Goto(c, p)
    <3>1. CASE table[prog[c].req] = NULL
      <4>1. [pc |-> "report", req |-> prog[c].req, now |-> prog[c].now, latency |-> 0] \in Programs
        BY <2>1 DEF Programs
      <4> QED
        BY <1>2, <3>1, <4>1 DEF Lookup
    <3>2. CASE table[prog[c].req] # NULL
      <4>1. table[prog[c].req] \in Elems
        BY <2>1, <3>2 DEF TypeOK
      <4>2. [pc |-> "read", req |-> prog[c].req, now |-> prog[c].now,
             ptr |-> table[prog[c].req]] \in Programs
        BY <2>1, <4>1 DEF Programs
      <4> QED
        BY <1>2, <3>2, <4>2 DEF Lookup
    <3> QED
      BY <3>1, <3>2
  <2>3. prog' \in [CPUs -> Programs]
    BY <2>2, GotoType
  <2> QED
    BY <1>1, <1>2, <2>3 DEF TypeOK, Lookup, Stored
<1>3. CASE Read(c)
  <2>1. prog[c].req \in Reqs /\ prog[c].now \in Times /\ prog[c].ptr \in Elems
    BY <1>3, ProgramFields DEF Read, At
  <2>2. (prog[c].now - mem[prog[c].ptr]) % W \in 0..(W - 1)
    <3>1. prog[c].now - mem[prog[c].ptr] \in Int /\ W \in Nat \ {0}
      BY <2>1 DEF TypeOK, Times
    <3> QED
      BY <3>1
  <2>3. [pc |-> "delete", req |-> prog[c].req, now |-> prog[c].now,
         latency |-> (prog[c].now - mem[prog[c].ptr]) % W] \in Programs
    BY <2>1, <2>2 DEF Programs
  <2>4. prog' \in [CPUs -> Programs]
    BY <1>3, <2>3, GotoType DEF Read
  <2> QED
    BY <1>1, <1>3, <2>4 DEF TypeOK, Read, Stored
<1>4. CASE Delete(c)
  <2>1. /\ prog[c].req \in Reqs /\ prog[c].now \in Times
        /\ prog[c].latency \in 0..(W - 1)
        /\ prog[c] = [pc |-> prog[c].pc, req |-> prog[c].req, now |-> prog[c].now,
                      latency |-> prog[c].latency]
    BY <1>4, ProgramFields DEF Delete, At
  <2>2. [prog[c] EXCEPT !.pc = "report"] =
          [pc |-> "report", req |-> prog[c].req, now |-> prog[c].now, latency |-> prog[c].latency]
    BY <2>1
  <2>3. [prog[c] EXCEPT !.pc = "report"] \in Programs
    BY <2>1, <2>2 DEF Programs
  <2>4. prog' \in [CPUs -> Programs]
    BY <1>4, <2>3, GotoType DEF Delete
  <2>5. table' \in [Reqs -> Elems \cup {NULL}] /\ Cardinality(Stored') <= MAX_REQS
    BY <1>4, <2>1, DeleteBound DEF Delete, TypeOK
  <2> QED
    BY <1>1, <1>4, <2>4, <2>5 DEF TypeOK, Delete
<1>5. CASE Report(c)
  <2>1. prog[c].req \in Reqs
    BY <1>5, ProgramFields DEF Report, At
  <2>2. prog' \in [CPUs -> Programs]
    BY <1>5, GotoType DEF Report, Programs
  <2>3. hist' \in [Reqs -> [st : {"none", "sent", "refused", "done"}, t : Times]]
    BY <1>5, <2>1 DEF TypeOK, Report, Times
  <2> QED
    BY <1>1, <1>5, <2>2, <2>3 DEF TypeOK, Report, Stored
<1> QED
  BY <1>2, <1>3, <1>4, <1>5

LEMMA EnvironmentType ==
  ASSUME TypeOK,
         Tick \/ \E ctx \in Contexts, state \in {0, 1} : ContextState(ctx, state)
  PROVE  TypeOK'
<1>1. CASE Tick
  BY <1>1 DEF Tick, TypeOK, Times, Stored
<1>2. CASE \E ctx \in Contexts, state \in {0, 1} : ContextState(ctx, state)
  <2>1. PICK ctx \in Contexts, state \in {0, 1} : ContextState(ctx, state)
    BY <1>2
  <2>2. /\ session_map' \subseteq {SessionKey(x) : x \in Contexts}
        /\ Cardinality(session_map') <= MAX_SESSIONS
    BY <2>1, SessionsBound DEF ContextState
  <2> QED
    BY <2>1, <2>2 DEF ContextState, TypeOK, Stored
<1> QED
  BY <1>1, <1>2

LEMMA NextType == TypeOK /\ [Next]_vars => TypeOK'
<1> SUFFICES ASSUME TypeOK, [Next]_vars PROVE TypeOK'
  OBVIOUS
<1>1. CASE UNCHANGED vars
  BY <1>1 DEF vars, TypeOK, Stored
<1>2. CASE Next
  BY <1>2, StartType, UpdateType, DoneType, EnvironmentType DEF Next, BpfStep
<1> QED
  BY <1>1, <1>2

(* Every variable keeps its type; req_submit_ts never has more than        *)
(* MAX_REQS entries, session_map never more than MAX_SESSIONS.             *)
THEOREM TypeCorrect == Spec => []TypeOK
BY InitType, NextType, PTL DEF Spec
-----------------------------------------------------------------------------
(* The table.                                                              *)

Distinct == \A r, q \in Stored : r # q => table[r] # table[q]

(* What TableExact says of one request. *)
Own(r) ==
  /\ \A c, d \in Running(r) : c = d
  /\ Running(r) = {} => Consistent(r)
  /\ \A c \in Running(r) :
       /\ At(c, "lookup") => Consistent(r)
       /\ At(c, "read") => Consistent(r) /\ prog[c].ptr = table[r]
       /\ At(c, "delete") => Consistent(r) /\ table[r] # NULL
       /\ At(c, "report") => table[r] = NULL

LEMMA TableParts ==
  /\ TableExact <=> Distinct /\ \A r \in clean : Own(r)
  /\ TableExact' <=> Distinct' /\ \A r \in clean' : Own(r)'
BY DEF TableExact, Distinct, Own

(* A step that is of no concern to request r. *)
Foreign(r) ==
  /\ table'[r] = table[r] /\ hist'[r] = hist[r]
  /\ table[r] # NULL => mem'[table[r]] = mem[table[r]]
  /\ Running(r)' = Running(r)
  /\ \A d \in Running(r) : prog'[d] = prog[d]

(* What the programs of other requests do keeps what holds of r. *)
LEMMA ForeignKeeps ==
  ASSUME NEW r, Own(r), Foreign(r)
  PROVE  Own(r)'
<1>1. Consistent(r)' <=> Consistent(r)
  BY DEF Foreign, Consistent
<1> QED
  BY <1>1 DEF Foreign, Own, At

(* Only the program of CPU c moves. *)
OnlyOn(c) == \A d \in CPUs : d # c => prog'[d] = prog[d]

(* A step of CPU c, in a program of request r, leaves the programs of the  *)
(* other requests alone, and is the only one of r if r is clean.           *)
LEMMA OthersRun ==
  ASSUME NEW c \in CPUs, NEW r, r = prog[c].req, ~At(c, "idle"), OnlyOn(c),
         At(c, "idle")' \/ prog'[c].req = r
  PROVE  /\ \A q \in Reqs : q # r =>
              Running(q)' = Running(q) /\ \A d \in Running(q) : prog'[d] = prog[d]
         /\ c \in Running(r)
         /\ Running(r)' = IF At(c, "idle")' THEN Running(r) \ {c} ELSE Running(r)
<1>1. \A d \in CPUs : d # c => prog'[d] = prog[d]
  BY DEF OnlyOn
<1>2. c \in Running(r)
  BY DEF Running, At
<1>3. ASSUME NEW q \in Reqs, q # r
      PROVE  Running(q)' = Running(q) /\ \A d \in Running(q) : prog'[d] = prog[d]
  <2>1. c \notin Running(q) /\ c \notin Running(q)'
    BY <1>1, <1>3 DEF Running, At
  <2> QED
    BY <1>1, <2>1 DEF Running
<1>4. Running(r)' = IF At(c, "idle")' THEN Running(r) \ {c} ELSE Running(r)
  <2>1. c \in Running(r)' <=> ~At(c, "idle")'
    BY <1>1 DEF Running, At
  <2>2. \A d \in CPUs : d # c => (d \in Running(r)' <=> d \in Running(r))
    BY <1>1 DEF Running
  <2>3. Running(r)' \subseteq CPUs /\ Running(r) \subseteq CPUs
    BY DEF Running
  <2> QED
    BY <1>2, <2>1, <2>2, <2>3
<1> QED
  BY <1>1, <1>2, <1>3, <1>4

LEMMA UpdateTable ==
  ASSUME TypeOK, TableExact, NEW c \in CPUs, Update(c)
  PROVE  TableExact'
<1>0. prog[c].req \in Reqs /\ ~At(c, "idle")
  BY ProgramFields DEF Update, At
<1>1. PICK r \in Reqs : r = prog[c].req
  BY <1>0
<1>2. PICK e \in Unused : /\ table' = [table EXCEPT ![r] = e]
                          /\ mem' = [mem EXCEPT ![e] = prog[c].now]
  BY <1>1 DEF Update
<1>3. e \in Elems /\ e # NULL /\ \A q \in Reqs : table[q] # e
  BY <1>2 DEF Unused
<1>4. /\ hist' = [hist EXCEPT ![r] = [st |-> "sent", t |-> prog[c].now]]
      /\ clean' = clean
  BY <1>1 DEF Update, Goto
<1>5. /\ \A q \in Reqs : q # r =>
           Running(q)' = Running(q) /\ \A d \in Running(q) : prog'[d] = prog[d]
      /\ c \in Running(r) /\ Running(r)' = Running(r) \ {c}
  <2>1. OnlyOn(c) /\ At(c, "idle")'
    BY DEF Update, Goto, Idle, OnlyOn, At, TypeOK
  <2> QED
    BY <1>0, <1>1, <2>1, OthersRun
<1>6. Distinct'
  BY <1>0, <1>1, <1>2, <1>3, TableParts DEF Distinct, Stored, TypeOK
<1>7. ASSUME NEW q \in clean PROVE Own(q)'
  <2>1. q \in Reqs /\ Own(q)
    BY <1>7, TableParts DEF TypeOK
  <2>2. CASE q # r
    <3>1. Foreign(q)
      BY <1>0, <1>1, <1>2, <1>3, <1>4, <1>5, <2>1, <2>2 DEF Foreign, TypeOK
    <3> QED
      BY <2>1, <3>1, ForeignKeeps
  <2>3. CASE q = r
    <3>1. Running(r)' = {}
      BY <1>5, <2>1, <2>3 DEF Own
    <3>2. Consistent(r)'
      BY <1>0, <1>1, <1>2, <1>3, <1>4 DEF Consistent, TypeOK
    <3> QED
      BY <2>3, <3>1, <3>2 DEF Own
  <2> QED
    BY <2>2, <2>3
<1> QED
  BY <1>4, <1>6, <1>7, TableParts

(* The steps of a done program, and a refused update: mem and the table,   *)
(* but for the entry of the request itself, stay as they are.              *)
LEMMA OtherSteps ==
  ASSUME TypeOK, TableExact, NEW c \in CPUs, NEW r \in Reqs, r = prog[c].req, ~At(c, "idle"),
         OnlyOn(c), At(c, "idle")' \/ prog'[c].req = r,
         mem' = mem, clean' = clean,
         table' = table \/ table' = [table EXCEPT ![r] = NULL],
         \A q \in Reqs : q # r => hist'[q] = hist[q],
         r \in clean => Own(r)'
  PROVE  TableExact'
<1>2. \A q \in Reqs : q # r =>
        Running(q)' = Running(q) /\ \A d \in Running(q) : prog'[d] = prog[d]
  BY OthersRun
<1>3. Distinct'
  BY TableParts DEF Distinct, Stored, TypeOK
<1>4. ASSUME NEW q \in clean PROVE Own(q)'
  <2>1. q \in Reqs /\ Own(q)
    BY <1>4, TableParts DEF TypeOK
  <2>2. CASE q # r
    <3>1. Foreign(q)
      BY <1>2, <2>1, <2>2 DEF Foreign, TypeOK
    <3> QED
      BY <2>1, <3>1, ForeignKeeps
  <2>3. CASE q = r
    BY <1>4, <2>3
  <2> QED
    BY <2>2, <2>3
<1> QED
  BY <1>3, <1>4, TableParts

LEMMA UpdateFailsTable ==
  ASSUME TypeOK, TableExact, NEW c \in CPUs, UpdateFails(c)
  PROVE  TableExact'
<1>0. prog[c].req \in Reqs /\ ~At(c, "idle")
  BY ProgramFields DEF UpdateFails, At
<1>1. PICK r \in Reqs : r = prog[c].req
  BY <1>0
<1>2. /\ OnlyOn(c) /\ At(c, "idle")'
      /\ UNCHANGED <<table, mem, clean>> /\ table[r] = NULL
      /\ hist' = [hist EXCEPT ![r] = [st |-> "refused", t |-> 0]]
  BY <1>1 DEF UpdateFails, Goto, Idle, HasRoom, OnlyOn, At, TypeOK
<1>3. r \in clean => Own(r)'
  <2>1. c \in Running(r) /\ Running(r)' = Running(r) \ {c}
    BY <1>0, <1>1, <1>2, OthersRun
  <2>2. r \in clean => Running(r)' = {}
    BY <2>1, TableParts DEF Own
  <2>3. Consistent(r)'
    BY <1>0, <1>1, <1>2 DEF Consistent, TypeOK
  <2> QED
    BY <2>2, <2>3 DEF Own
<1>4. \A q \in Reqs : q # r => hist'[q] = hist[q]
  BY <1>0, <1>1, <1>2 DEF TypeOK
<1> QED
  BY <1>0, <1>1, <1>2, <1>3, <1>4, OtherSteps

LEMMA LookupTable ==
  ASSUME TypeOK, TableExact, NEW c \in CPUs, Lookup(c)
  PROVE  TableExact'
<1>0. prog[c].req \in Reqs /\ ~At(c, "idle") /\ At(c, "lookup")
  BY ProgramFields DEF Lookup, At
<1>1. PICK r \in Reqs : r = prog[c].req
  BY <1>0
<1>2. /\ OnlyOn(c) /\ prog'[c].req = r
      /\ \/ prog'[c].pc = "report" /\ table[r] = NULL
         \/ prog'[c].pc = "read" /\ prog'[c].ptr = table[r]
  BY <1>1 DEF Lookup, Goto, OnlyOn, TypeOK
<1>3. UNCHANGED <<table, mem, clean, hist>>
  BY DEF Lookup
<1>4. ASSUME r \in clean PROVE Own(r)'
  <2>1. Own(r) /\ Consistent(r)'
    <3>1. Own(r) /\ c \in Running(r)
      BY <1>0, <1>1, <1>4, TableParts DEF Running, At
    <3> QED
      BY <1>0, <1>1, <1>3, <3>1 DEF Own, Consistent
  <2>2. Running(r)' = Running(r) /\ c \in Running(r)
    BY <1>0, <1>1, <1>2, OthersRun DEF At
  <2>3. \A d \in Running(r) : d = c
    BY <2>1, <2>2 DEF Own
  <2> QED
    BY <1>2, <1>3, <2>1, <2>2, <2>3 DEF Own, At
<1> QED
  BY <1>0, <1>1, <1>2, <1>3, <1>4, OtherSteps DEF At

LEMMA ReadTable ==
  ASSUME TypeOK, TableExact, NEW c \in CPUs, Read(c)
  PROVE  TableExact'
<1>0. prog[c].req \in Reqs /\ ~At(c, "idle") /\ At(c, "read") /\ prog[c].ptr \in Elems
  BY ProgramFields DEF Read, At
<1>1. PICK r \in Reqs : r = prog[c].req
  BY <1>0
<1>2. OnlyOn(c) /\ prog'[c].req = r /\ prog'[c].pc = "delete"
  BY <1>1 DEF Read, Goto, OnlyOn, TypeOK
<1>3. UNCHANGED <<table, mem, clean, hist>>
  BY DEF Read
<1>4. ASSUME r \in clean PROVE Own(r)'
  <2>1. Own(r) /\ Consistent(r)' /\ table'[r] # NULL
    <3>1. Own(r) /\ c \in Running(r)
      BY <1>0, <1>1, <1>4, TableParts DEF Running, At
    <3> QED
      BY <1>0, <1>1, <1>3, <3>1 DEF Own, Consistent
  <2>2. Running(r)' = Running(r) /\ c \in Running(r)
    BY <1>0, <1>1, <1>2, OthersRun DEF At
  <2>3. \A d \in Running(r) : d = c
    BY <2>1, <2>2 DEF Own
  <2> QED
    BY <1>2, <2>1, <2>2, <2>3 DEF Own, At
<1> QED
  BY <1>0, <1>1, <1>2, <1>3, <1>4, OtherSteps DEF At

LEMMA DeleteTable ==
  ASSUME TypeOK, TableExact, NEW c \in CPUs, Delete(c)
  PROVE  TableExact'
<1>0. prog[c].req \in Reqs /\ ~At(c, "idle") /\ At(c, "delete")
  BY ProgramFields DEF Delete, At
<1>1. PICK r \in Reqs : r = prog[c].req
  BY <1>0
<1>2. OnlyOn(c) /\ prog'[c].req = r /\ prog'[c].pc = "report"
  <2>1. prog[c] = [pc |-> prog[c].pc, req |-> prog[c].req, now |-> prog[c].now,
                   latency |-> prog[c].latency]
    BY <1>0, <1>1, ProgramFields
  <2>2. [prog[c] EXCEPT !.pc = "report"] =
          [pc |-> "report", req |-> prog[c].req, now |-> prog[c].now, latency |-> prog[c].latency]
    BY <2>1
  <2> QED
    BY <1>1, <2>2 DEF Delete, Goto, OnlyOn, TypeOK
<1>3. UNCHANGED <<mem, clean, hist>> /\ table' = [table EXCEPT ![r] = NULL]
  BY <1>1 DEF Delete
<1>4. ASSUME r \in clean PROVE Own(r)'
  <2>1. Own(r) /\ table'[r] = NULL
    BY <1>0, <1>1, <1>3, <1>4, TableParts DEF TypeOK
  <2>2. Running(r)' = Running(r) /\ c \in Running(r)
    BY <1>0, <1>1, <1>2, OthersRun DEF At
  <2>3. \A d \in Running(r) : d = c
    BY <2>1, <2>2 DEF Own
  <2> QED
    BY <1>2, <2>1, <2>2, <2>3 DEF Own, At
<1> QED
  BY <1>0, <1>1, <1>2, <1>3, <1>4, OtherSteps DEF At

LEMMA ReportTable ==
  ASSUME TypeOK, TableExact, NEW c \in CPUs, Report(c)
  PROVE  TableExact'
<1>0. prog[c].req \in Reqs /\ ~At(c, "idle") /\ At(c, "report")
  BY ProgramFields DEF Report, At
<1>1. PICK r \in Reqs : r = prog[c].req
  BY <1>0
<1>2. /\ OnlyOn(c) /\ At(c, "idle")'
      /\ UNCHANGED <<table, mem, clean>>
      /\ hist' = [hist EXCEPT ![r] = [st |-> "done", t |-> 0]]
  BY <1>1 DEF Report, Goto, Idle, OnlyOn, At, TypeOK
<1>3. ASSUME r \in clean PROVE Own(r)'
  <2>1. c \in Running(r) /\ Running(r)' = Running(r) \ {c}
    BY <1>0, <1>1, <1>2, OthersRun
  <2>2. Own(r)
    BY <1>3, TableParts
  <2>3. Running(r)' = {} /\ table[r] = NULL
    BY <1>0, <1>1, <2>1, <2>2 DEF Own
  <2>4. Consistent(r)'
    BY <1>0, <1>1, <1>2, <2>3 DEF Consistent, TypeOK
  <2> QED
    BY <2>3, <2>4 DEF Own
<1>4. \A q \in Reqs : q # r => hist'[q] = hist[q]
  BY <1>0, <1>1, <1>2 DEF TypeOK
<1> QED
  BY <1>0, <1>1, <1>2, <1>3, <1>4, OtherSteps

(* A program begins: it is alone, or its request is no longer clean. *)
LEMMA StartTable ==
  ASSUME TypeOK, TableExact, NEW c \in CPUs, NEW r \in Reqs, Apply(c, r) \/ BufDone(c, r)
  PROVE  TableExact'
<1>1. UNCHANGED <<table, mem, hist>> /\ At(c, "idle")
  BY DEF Apply, BufDone
<1>2. /\ OnlyOn(c) /\ prog'[c].req = r
      /\ \/ prog'[c].pc = "update" /\ clean' = IF Running(r) = {} THEN clean \cup {r} ELSE clean \ {r}
         \/ prog'[c].pc = "lookup" /\ clean' = IF Running(r) = {} THEN clean ELSE clean \ {r}
  BY DEF Apply, BufDone, Goto, OnlyOn, TypeOK
<1>3. Distinct'
  BY <1>1, TableParts DEF Distinct, Stored
<1>4. /\ \A q \in Reqs : q # r => Running(q)' = Running(q)
      /\ Running(r)' = Running(r) \cup {c}
      /\ \A d \in CPUs : d # c => prog'[d] = prog[d]
  BY <1>1, <1>2 DEF Running, At, OnlyOn
<1>5. ASSUME NEW q \in clean' PROVE Own(q)'
  <2>0. q \in Reqs
    BY <1>2, <1>5 DEF TypeOK
  <2>1. CASE q # r
    <3>1. Own(q)
      BY <1>2, <1>5, <2>1, TableParts
    <3>2. c \notin Running(q)
      BY <1>1 DEF Running, At
    <3>3. Foreign(q)
      BY <1>1, <1>4, <2>0, <2>1, <3>2 DEF Foreign, Running
    <3> QED
      BY <3>1, <3>3, ForeignKeeps
  <2>2. CASE q = r
    <3>1. Running(r) = {}
      BY <1>2, <1>5, <2>2
    <3>2. Running(r)' = {c}
      BY <1>4, <3>1
    <3>3. CASE prog'[c].pc = "update"
      BY <2>2, <3>2, <3>3 DEF Own, At
    <3>4. CASE prog'[c].pc = "lookup"
      <4>1. Consistent(r)
        BY <1>2, <1>5, <2>2, <3>1, <3>4, TableParts DEF Own
      <4>2. Consistent(r)'
        BY <1>1, <4>1 DEF Consistent
      <4> QED
        BY <2>2, <3>2, <3>4, <4>2 DEF Own, At
    <3> QED
      BY <1>2, <3>3, <3>4
  <2> QED
    BY <2>1, <2>2
<1> QED
  BY <1>3, <1>5, TableParts

LEMMA IdleTable ==
  ASSUME TableExact, UNCHANGED <<prog, table, mem, hist, clean>>
  PROVE  TableExact'
BY DEF TableExact, Stored, Running, Consistent, At

LEMMA NextTable == TypeOK /\ TableExact /\ [Next]_vars => TableExact'
<1> SUFFICES ASSUME TypeOK, TableExact, [Next]_vars PROVE TableExact'
  OBVIOUS
<1>1. CASE UNCHANGED vars
  BY <1>1, IdleTable DEF vars
<1>2. ASSUME NEW c \in CPUs, BpfStep(c) PROVE TableExact'
  BY <1>2, UpdateTable, UpdateFailsTable, LookupTable, ReadTable, DeleteTable, ReportTable
     DEF BpfStep
<1>3. ASSUME NEW c \in CPUs, NEW r \in Reqs, Apply(c, r) \/ BufDone(c, r) PROVE TableExact'
  BY <1>3, StartTable
<1>4. CASE Tick \/ \E ctx \in Contexts, state \in {0, 1} : ContextState(ctx, state)
  BY <1>4, IdleTable DEF Tick, ContextState
<1> QED
  BY <1>1, <1>2, <1>3, <1>4 DEF Next

LEMMA InitTable == Init => TableExact
BY DEF Init, TableExact, Stored, Running, Idle

(* req_submit_ts, for programs of any number of CPUs in any interleaving:  *)
(* no two requests share an element, and a request whose programs do not   *)
(* overlap is in the map exactly from the apply that was stored until the  *)
(* first done, with that apply's time.                                     *)
THEOREM TableSafe == Spec => []TableExact
<1>1. Init => TypeOK /\ TableExact
  BY InitType, InitTable
<1>2. TypeOK /\ TableExact /\ [Next]_vars => TypeOK' /\ TableExact'
  BY NextType, NextTable
<1> QED
  BY <1>1, <1>2, PTL DEF Spec
-----------------------------------------------------------------------------
(* The latency.                                                            *)

(* No time is later than the clock, a done program of a clean request      *)
(* began after the apply it belongs to, and the latency that it has        *)
(* computed is the one that is owed.                                       *)
OnTime(c) ==
  ~At(c, "idle") =>
    /\ prog[c].now <= clock
    /\ prog[c].req \in clean =>
         /\ ~At(c, "update") => hist[prog[c].req].t <= prog[c].now
         /\ At(c, "delete") \/ At(c, "report") =>
              prog[c].latency = Owed(prog[c].req, prog[c].now)

Timely == (\A r \in Reqs : hist[r].t <= clock) /\ (\A c \in CPUs : OnTime(c))

LEMMA TimesAreNumbers ==
  ASSUME TypeOK
  PROVE  /\ clock \in Nat /\ clock <= MaxTime
         /\ \A r \in Reqs : hist[r].t \in Nat
         /\ \A c \in CPUs : ~At(c, "idle") =>
              prog[c].now \in Nat /\ prog[c].now <= MaxTime /\ prog[c].req \in Reqs
<1>1. ASSUME NEW c \in CPUs, ~At(c, "idle")
      PROVE  prog[c].now \in Nat /\ prog[c].now <= MaxTime /\ prog[c].req \in Reqs
  <2>1. prog[c].now \in Times /\ prog[c].req \in Reqs
    BY <1>1, ProgramFields
  <2> QED
    BY <2>1 DEF Times
<1>2. ASSUME NEW r \in Reqs PROVE hist[r].t \in Nat
  BY DEF TypeOK, Times
<1>3. clock \in Nat /\ clock <= MaxTime
  BY DEF TypeOK, Times
<1> QED
  BY <1>1, <1>2, <1>3

(* A step of CPU c, in a program of r, that leaves the other histories     *)
(* alone, keeps what Timely says of the programs of the other CPUs: if one *)
(* is of r too, then r is not clean.                                       *)
LEMMA OtherLatencies ==
  ASSUME TypeOK, TableExact, Timely, NEW c \in CPUs, NEW r \in Reqs,
         r = prog[c].req, ~At(c, "idle"), OnlyOn(c), clock' = clock, clean' = clean,
         \A q \in Reqs : q # r => hist'[q] = hist[q],
         NEW d \in CPUs, d # c, OnTime(d)
  PROVE  OnTime(d)'
<1>0. SUFFICES ASSUME ~At(d, "idle")' PROVE OnTime(d)'
  BY DEF OnTime
<1>1. prog'[d] = prog[d] /\ ~At(d, "idle")
  BY <1>0 DEF OnlyOn, At
<1>2. prog[d].req \in Reqs
  BY <1>1, ProgramFields
<1>3. prog[d].req \in clean => prog[d].req # r
  <2>1. SUFFICES ASSUME prog[d].req = r, r \in clean PROVE FALSE
    OBVIOUS
  <2>2. c \in Running(r) /\ d \in Running(r)
    BY <1>1, <2>1 DEF Running, At
  <2> QED
    BY <2>1, <2>2, TableParts DEF Own
<1>4. prog[d].req \in clean => hist'[prog[d].req] = hist[prog[d].req]
  BY <1>2, <1>3
<1> QED
  BY <1>1, <1>4 DEF OnTime, At, Owed

(* So such a step keeps Timely if it keeps it for its own program. *)
LEMMA StepTimely ==
  ASSUME TypeOK, TypeOK', TableExact, Timely, NEW c \in CPUs, NEW r \in Reqs,
         r = prog[c].req, ~At(c, "idle"), OnlyOn(c), clock' = clock, clean' = clean,
         \A q \in Reqs : q # r => hist'[q] = hist[q],
         hist'[r].t <= clock,
         OnTime(c)'
  PROVE  Timely'
<1>1. \A q \in Reqs : hist'[q].t <= clock'
  BY DEF Timely
<1>2. ASSUME NEW d \in CPUs PROVE OnTime(d)'
  <2>1. CASE d # c
    BY <2>1, OtherLatencies DEF Timely
  <2> QED
    BY <2>1
<1> QED
  BY <1>1, <1>2 DEF Timely

LEMMA BpfTimely ==
  ASSUME TypeOK, TypeOK', TableExact, Timely, NEW c \in CPUs, BpfStep(c)
  PROVE  Timely'
<1>0. prog[c].req \in Reqs /\ prog[c].now \in Nat /\ prog[c].now <= MaxTime /\ ~At(c, "idle")
  <2>1. ~At(c, "idle")
    BY DEF BpfStep, Update, UpdateFails, Lookup, Read, Delete, Report, At
  <2> QED
    BY <2>1, TimesAreNumbers
<1>1. PICK r \in Reqs : r = prog[c].req
  BY <1>0
<1>2. prog[c].now <= clock /\ hist[r].t <= clock /\ hist[r].t \in Nat /\ clock \in Nat
  BY <1>0, <1>1, TimesAreNumbers DEF Timely, OnTime
<1>3. clock' = clock /\ clean' = clean /\ OnlyOn(c)
  BY DEF BpfStep, Update, UpdateFails, Lookup, Read, Delete, Report, Goto, OnlyOn, TypeOK
<1>4. CASE Update(c) \/ UpdateFails(c) \/ Report(c)
  <2>1. OnTime(c)'
    BY <1>4 DEF Update, UpdateFails, Report, Goto, Idle, At, TypeOK, OnTime
  <2>2. \A q \in Reqs : q # r => hist'[q] = hist[q]
    BY <1>1, <1>4 DEF Update, UpdateFails, Report, TypeOK
  <2>3. hist'[r].t <= clock
    BY <1>0, <1>1, <1>2, <1>4 DEF Update, UpdateFails, Report, TypeOK
  <2> QED
    BY <1>0, <1>1, <1>3, <2>1, <2>2, <2>3, StepTimely
<1>5. CASE Lookup(c)
  <2>1. /\ hist' = hist /\ prog'[c].req = r /\ prog'[c].now = prog[c].now
        /\ \/ table[r] = NULL /\ prog'[c].pc = "report" /\ prog'[c].latency = 0
           \/ prog'[c].pc = "read"
    BY <1>1, <1>5 DEF Lookup, Goto, TypeOK
  <2>2. ASSUME r \in clean
        PROVE  hist[r].t <= prog[c].now /\ (table[r] = NULL => hist[r].st # "sent")
    <3>1. c \in Running(r) /\ At(c, "lookup")
      BY <1>0, <1>1, <1>5 DEF Running, At, Lookup
    <3>2. Consistent(r)
      BY <2>2, <3>1, TableParts DEF Own
    <3> QED
      BY <1>0, <1>1, <2>2, <3>1, <3>2 DEF Consistent, Timely, OnTime, At
  <2>3. OnTime(c)'
    BY <1>2, <1>3, <2>1, <2>2 DEF OnTime, Owed, At
  <2> QED
    BY <1>0, <1>1, <1>2, <1>3, <2>1, <2>3, StepTimely
<1>6. CASE Read(c)
  <2>1. /\ hist' = hist /\ prog'[c].req = r /\ prog'[c].now = prog[c].now
        /\ prog'[c].latency = (prog[c].now - mem[prog[c].ptr]) % W
    BY <1>1, <1>6 DEF Read, Goto, TypeOK
  <2>2. ASSUME r \in clean
        PROVE  /\ hist[r].t <= prog[c].now /\ hist[r].st = "sent"
               /\ prog'[c].latency = prog[c].now - hist[r].t
    <3>1. c \in Running(r) /\ At(c, "read")
      BY <1>0, <1>1, <1>6 DEF Running, At, Read
    <3>2. Consistent(r) /\ prog[c].ptr = table[r] /\ prog[c].ptr \in Elems
      BY <2>2, <3>1, TableParts, ProgramFields DEF Own
    <3>3. hist[r].st = "sent" /\ mem[prog[c].ptr] = hist[r].t
      BY <3>2 DEF Consistent
    <3>4. hist[r].t <= prog[c].now
      BY <1>0, <1>1, <2>2, <3>1 DEF Timely, OnTime, At
    <3>5. prog[c].now - hist[r].t \in 0..(W - 1)
      BY <1>0, <1>2, <3>4
    <3>6. (prog[c].now - hist[r].t) % W = prog[c].now - hist[r].t
      BY <3>5
    <3> QED
      BY <2>1, <3>3, <3>4, <3>6
  <2>3. OnTime(c)'
    BY <1>2, <1>3, <2>1, <2>2 DEF OnTime, Owed, At
  <2> QED
    BY <1>0, <1>1, <1>2, <1>3, <2>1, <2>3, StepTimely
<1>7. CASE Delete(c)
  <2>1. prog[c] = [pc |-> prog[c].pc, req |-> prog[c].req, now |-> prog[c].now,
                   latency |-> prog[c].latency]
    BY <1>7, ProgramFields DEF Delete
  <2>2. [prog[c] EXCEPT !.pc = "report"] =
          [pc |-> "report", req |-> prog[c].req, now |-> prog[c].now, latency |-> prog[c].latency]
    BY <2>1
  <2>3. /\ hist' = hist /\ prog'[c].req = r /\ prog'[c].now = prog[c].now
        /\ prog'[c].latency = prog[c].latency
    BY <1>1, <1>7, <2>2 DEF Delete, Goto, TypeOK
  <2>4. r \in clean => hist[r].t <= prog[c].now /\ prog[c].latency = Owed(r, prog[c].now)
    BY <1>0, <1>1, <1>7 DEF Timely, OnTime, Delete, At
  <2>5. OnTime(c)'
    BY <1>2, <1>3, <2>3, <2>4 DEF OnTime, Owed, At
  <2> QED
    BY <1>0, <1>1, <1>2, <1>3, <2>3, <2>5, StepTimely
<1> QED
  BY <1>4, <1>5, <1>6, <1>7 DEF BpfStep

(* A program begins with the time of the clock, after every apply. *)
LEMMA StartTimely ==
  ASSUME TypeOK, Timely, NEW c \in CPUs, NEW r \in Reqs, Apply(c, r) \/ BufDone(c, r)
  PROVE  Timely'
<1>1. /\ UNCHANGED <<clock, hist>> /\ OnlyOn(c)
      /\ prog'[c].req = r /\ prog'[c].now = clock /\ prog'[c].pc \in {"update", "lookup"}
  BY DEF Apply, BufDone, Goto, OnlyOn, TypeOK
<1>2. clean' \subseteq clean \cup {r} /\ At(c, "idle")
  BY DEF Apply, BufDone
<1>3. prog'[c].pc = "lookup" => clean' \subseteq clean
  BY DEF Apply, BufDone, Goto, TypeOK
<1>4. clock \in Nat /\ \A q \in Reqs : hist[q].t \in Nat /\ hist[q].t <= clock
  BY TimesAreNumbers DEF Timely
<1>5. ASSUME NEW d \in CPUs PROVE OnTime(d)'
  <2>1. CASE d = c
    BY <1>1, <1>3, <1>4, <2>1 DEF At, OnTime
  <2>2. CASE d # c
    <3>0. SUFFICES ASSUME ~At(d, "idle")' PROVE OnTime(d)'
      BY DEF OnTime
    <3>1. prog'[d] = prog[d] /\ ~At(d, "idle")
      BY <1>1, <2>2, <3>0 DEF OnlyOn, At
    <3>2. prog[d].req \in clean' => prog[d].req \in clean
      <4>1. SUFFICES ASSUME prog[d].req \in clean', prog[d].req \notin clean PROVE FALSE
        OBVIOUS
      <4>2. prog[d].req = r /\ d \in Running(r)
        BY <1>2, <3>1, <4>1 DEF Running, At
      <4> QED
        BY <4>1, <4>2 DEF Apply, BufDone
    <3> QED
      BY <1>1, <3>1, <3>2 DEF Timely, OnTime, At, Owed
  <2> QED
    BY <2>1, <2>2
<1> QED
  BY <1>1, <1>4, <1>5 DEF Timely

LEMMA NextTimely == TypeOK /\ TypeOK' /\ TableExact /\ Timely /\ [Next]_vars => Timely'
<1> SUFFICES ASSUME TypeOK, TypeOK', TableExact, Timely, [Next]_vars PROVE Timely'
  OBVIOUS
<1>1. CASE Tick
  <2>1. clock' = clock + 1 /\ UNCHANGED <<prog, hist, clean>>
    BY <1>1 DEF Tick
  <2>2. \A r \in Reqs : hist[r].t <= clock + 1
    BY TimesAreNumbers DEF Timely
  <2>3. \A c \in CPUs : ~At(c, "idle") => prog[c].now <= clock + 1
    BY TimesAreNumbers DEF Timely, OnTime
  <2> QED
    BY <2>1, <2>2, <2>3 DEF Timely, OnTime, At, Owed
<1>2. CASE UNCHANGED vars \/ \E ctx \in Contexts, state \in {0, 1} : ContextState(ctx, state)
  <2>1. UNCHANGED <<clock, prog, hist, clean>>
    BY <1>2 DEF vars, ContextState
  <2> QED
    BY <2>1 DEF Timely, OnTime, At, Owed
<1> QED
  BY <1>1, <1>2, BpfTimely, StartTimely DEF Next

(* flow_cam_buf_done, for any interleaving of programs on any number of    *)
(* CPUs: a request whose programs do not overlap has the time since its    *)
(* apply reported once, and 0 from then on.                                *)
THEOREM LatencySafe == Spec => []LatencyExact
<1>1. Init => TypeOK /\ TableExact /\ Timely
  <2>1. Init => Timely
    BY DEF Init, Timely, OnTime, At, Idle
  <2> QED
    BY <2>1, InitType, InitTable
<1>2. TypeOK /\ TableExact /\ Timely /\ [Next]_vars => TypeOK' /\ TableExact' /\ Timely'
  BY NextType, NextTable, NextTimely
<1>3. Timely => LatencyExact
  BY DEF Timely, OnTime, LatencyExact, At
<1> QED
  BY <1>1, <1>2, <1>3, PTL DEF Spec

-----------------------------------------------------------------------------
(* Only UpdateFails refuses. *)
LEMMA WhoRefuses ==
  ASSUME TypeOK, Next, NEW r \in Reqs, hist'[r].st = "refused", hist[r].st # "refused"
  PROVE  ~HasRoom(r)
<1>1. PICK c \in CPUs : UpdateFails(c) /\ prog[c].req = r
  <2>1. hist' # hist
    OBVIOUS
  <2>2. PICK c \in CPUs : Update(c) \/ UpdateFails(c) \/ Report(c)
    BY <2>1 DEF Next, BpfStep, Lookup, Read, Delete, Apply, BufDone, ContextState, Tick
  <2>3. CASE Update(c)
    BY <2>3 DEF Update, TypeOK
  <2>4. CASE Report(c)
    BY <2>4 DEF Report, TypeOK
  <2>5. CASE UpdateFails(c)
    <3>1. prog[c].req = r
      BY <2>5 DEF UpdateFails, TypeOK
    <3> QED
      BY <2>5, <3>1
  <2> QED
    BY <2>2, <2>3, <2>4, <2>5
<1> QED
  BY <1>1 DEF UpdateFails

(* bpf_map_update_elem of flow_cam_req_mgr_apply fails only when MAX_REQS  *)
(* other requests are outstanding, have a program running or had           *)
(* overlapping ones: no element of req_submit_ts is ever lost.             *)
THEOREM RefusedOnlyWhenFull == Spec => RefusedWhenFull
<1>1. ASSUME TypeOK, TableExact, [Next]_vars, NEW r \in Reqs,
             hist'[r].st = "refused", hist[r].st # "refused"
      PROVE  Cardinality({q \in Reqs \ {r} :
               hist[q].st = "sent" \/ Running(q) # {} \/ q \notin clean}) >= MAX_REQS
  <2> DEFINE Busy == {q \in Reqs \ {r} :
                        hist[q].st = "sent" \/ Running(q) # {} \/ q \notin clean}
  <2>1. Next
    BY <1>1 DEF vars
  <2>2. table[r] = NULL /\ ~(Cardinality(Stored) < MAX_REQS)
    BY <1>1, <2>1, WhoRefuses DEF HasRoom
  <2>3. Stored \in SUBSET Busy
    <3> SUFFICES ASSUME NEW q \in Stored PROVE q \in Busy
      OBVIOUS
    <3>1. q \in Reqs \ {r} /\ table[q] # NULL
      BY <2>2 DEF Stored
    <3>2. q \in clean /\ Running(q) = {} => hist[q].st = "sent"
      BY <1>1, <3>1, TableParts DEF Own, Consistent
    <3> QED
      BY <3>1, <3>2
  <2>4. IsFiniteSet(Busy)
    <3>1. Busy \in SUBSET Reqs
      OBVIOUS
    <3> QED
      BY <3>1, FS_Subset
  <2> HIDE DEF Busy
  <2>5. Cardinality(Stored) <= Cardinality(Busy) /\ Cardinality(Busy) \in Nat
    BY <2>3, <2>4, FS_Subset, FS_CardinalityType
  <2>6. Cardinality(Busy) >= MAX_REQS
    BY <2>2, <2>5, StoredFinite
  <2> QED
    BY <2>6 DEF Busy
<1>2. TypeOK /\ TableExact /\ [Next]_vars =>
        [\A r \in Reqs :
           hist'[r].st = "refused" /\ hist[r].st # "refused" =>
             Cardinality({q \in Reqs \ {r} :
               hist[q].st = "sent" \/ Running(q) # {} \/ q \notin clean}) >= MAX_REQS]_vars
  BY <1>1
<1> QED
  BY <1>2, TypeCorrect, TableSafe, PTL DEF Spec, RefusedWhenFull
=============================================================================
