-------------------------- MODULE ProbeTool_proofs --------------------------
(***************************************************************************)
(* Proofs about ProbeTool, for any set of CPUs, any ring size and any      *)
(* number of events.  The inductive invariant is TypeOK /\ RingInv: the    *)
(* refinement needs to know that a record about to be handled is newer     *)
(* than everything handled of its CPU, which is only inductive together    *)
(* with the order of the records in the ring and with what the programs    *)
(* that hold busy records are doing.                                       *)
(***************************************************************************)
EXTENDS ProbeTool, TLAPS, FiniteSetTheorems

USE RbAssumption

(* The actions of main() that touch neither the programs nor the ring. *)
Quiet == UNCHANGED <<prog, fired, prod, cons, rec, handled, latest, dropped, discarded>>

LEMMA MainIsQuiet ==
  ASSUME Open \/ Load \/ Attach \/ NewRingBuffer \/ CheckStop \/ PollTimeout
         \/ PollWake \/ DrainEnd \/ Free \/ Destroy \/ Environment
  PROVE  Quiet
BY DEF Quiet, Open, Load, Attach, NewRingBuffer, CheckStop, PollTimeout, PollWake,
       DrainEnd, Free, Destroy, Environment, StartFails, PollInterrupted, PollError,
       Signal, Kill, kernelVars, histVars

LEMMA MainTypes ==
  ASSUME TypeOK,
         Open \/ Load \/ Attach \/ NewRingBuffer \/ CheckStop \/ PollTimeout
         \/ PollWake \/ DrainEnd \/ Free \/ Destroy \/ Environment
  PROVE  /\ loop' \in {"break", "continue"}
         /\ upc' \in UserPc
         /\ <<stop, attached>>' \in BOOLEAN \X BOOLEAN
BY DEF TypeOK, UserPc, Polling, Leaving, Goto, AfterEintr, Open, Load, Attach,
       NewRingBuffer, CheckStop, PollTimeout, PollWake, DrainEnd, Free, Destroy,
       Environment, StartFails, PollInterrupted, PollError, Signal, Kill

(* The event of a running program is a real one. *)
LEMMA CurrentIsEvent ==
  ASSUME TypeOK, RingInv, NEW c \in CPUs, prog[c].pc # "idle"
  PROVE  Current(c) \in Events
<1>1. latest[c] \in Nat /\ fired[c] \in Nat /\ latest[c] < fired[c]
  BY DEF TypeOK, RingInv, ProgramsHoldRecords
<1>2. fired[c] \in Nat \ {0}
  BY <1>1
<1> QED
  BY <1>2 DEF Current, Events

(* The record the consumer takes is one of the ring's. *)
LEMMA HeadRecord ==
  ASSUME TypeOK, cons < prod
  PROVE  /\ cons + 1 \in (cons + 1)..prod
         /\ rec[cons + 1] \in Records
         /\ rec[cons + 1].ev \in Events
         /\ rec[cons + 1].ev[1] \in CPUs
         /\ rec[cons + 1].ev[2] \in Nat
         /\ rec[cons + 1].ev = <<rec[cons + 1].ev[1], rec[cons + 1].ev[2]>>
<1>1. cons + 1 \in (cons + 1)..prod /\ rec[cons + 1] \in Records
  BY DEF TypeOK
<1>2. rec[cons + 1].ev \in Events
  BY <1>1 DEF Records
<1> QED
  BY <1>1, <1>2 DEF Events

(* The ring's records, the programs and the history keep their types. *)
LEMMA TypeStep == TypeOK /\ RingInv /\ [Next]_vars => TypeOK'
<1> SUFFICES ASSUME TypeOK, RingInv, [Next]_vars PROVE TypeOK'
  OBVIOUS
<1>1. ASSUME NEW c \in CPUs, Enter(c) PROVE TypeOK'
  BY <1>1, SMTT(40) DEF TypeOK, Enter, userVars, ringVars, histVars
<1>2. ASSUME NEW c \in CPUs, ReserveFails(c) PROVE TypeOK'
  <2>1. Current(c) \in Events
    BY <1>2, CurrentIsEvent DEF ReserveFails
  <2> QED
    BY <1>2, <2>1 DEF TypeOK, ReserveFails, Idle, userVars, ringVars, histVars
<1>3. ASSUME NEW c \in CPUs, Reserve(c) PROVE TypeOK'
  <2>1. Current(c) \in Events
    BY <1>3, CurrentIsEvent DEF Reserve
  <2>2. rec' \in [(cons' + 1)..prod' -> Records]
    BY <1>3, <2>1 DEF TypeOK, Reserve, Records
  <2> QED
    BY <1>3, <2>2 DEF TypeOK, Reserve, userVars, histVars
<1>4. ASSUME NEW c \in CPUs, Submit(c) PROVE TypeOK'
  <2>1. rec' \in [(cons' + 1)..prod' -> Records]
    BY <1>4, ZenonT(60) DEF TypeOK, RingInv, ProgramsHoldRecords, Submit, Records
  <2> QED
    BY <1>4, <2>1 DEF TypeOK, Submit, Idle, userVars, histVars
<1>5. ASSUME NEW c \in CPUs, Discard(c) PROVE TypeOK'
  <2>1. Current(c) \in Events
    BY <1>5, CurrentIsEvent DEF Discard
  <2>2. rec' \in [(cons' + 1)..prod' -> Records]
    BY <1>5, ZenonT(60) DEF TypeOK, RingInv, ProgramsHoldRecords, Discard, Records
  <2> QED
    BY <1>5, <2>1, <2>2 DEF TypeOK, Discard, Idle, userVars, histVars
<1>6. CASE Consume
  <2>1. cons < prod
    BY <1>6 DEF Consume
  <2>2. rec' \in [(cons' + 1)..prod' -> Records]
    BY <1>6 DEF TypeOK, Consume, Release
  <2>3. handled' \in Seq(Events) /\ latest' \in [CPUs -> Nat]
    <3>1. CASE rec[cons + 1].st = "ready"
      <4>1. /\ handled' = Append(handled, rec[cons + 1].ev)
            /\ latest' = [latest EXCEPT ![rec[cons + 1].ev[1]] = rec[cons + 1].ev[2]]
        BY <1>6, <3>1 DEF Consume
      <4> QED
        BY <4>1, <2>1, HeadRecord DEF TypeOK
    <3>2. CASE rec[cons + 1].st # "ready"
      BY <1>6, <3>2 DEF Consume, TypeOK
    <3> QED
      BY <3>1, <3>2
  <2> QED
    BY <1>6, <2>1, <2>2, <2>3 DEF TypeOK, Consume, userVars
<1>7. ASSUME Open \/ Load \/ Attach \/ NewRingBuffer \/ CheckStop \/ PollTimeout
             \/ PollWake \/ DrainEnd \/ Free \/ Destroy \/ Environment
      PROVE  TypeOK'
  BY <1>7, MainIsQuiet, MainTypes DEF TypeOK, Quiet
<1>8. CASE UNCHANGED vars
  BY <1>8 DEF TypeOK, vars
<1> QED
  BY <1>1, <1>2, <1>3, <1>4, <1>5, <1>6, <1>7, <1>8 DEF Next, ProgStep, MainStep

(* What the three conjuncts of RingInv say of one record and of one        *)
(* program, with the types of the pieces.                                  *)
LEMMA RecordTypes ==
  ASSUME TypeOK, NEW p \in (cons + 1)..prod
  PROVE  /\ rec[p] \in Records
         /\ rec[p].ev \in Events
         /\ rec[p].ev[1] \in CPUs
         /\ rec[p].ev[2] \in Nat
<1>1. rec[p] \in Records
  BY DEF TypeOK
<1>2. rec[p].ev \in Events
  BY <1>1 DEF Records
<1> QED
  BY <1>1, <1>2 DEF Events

LEMMA RingStep == TypeOK /\ RingInv /\ [Next]_vars => RingInv'
<1> SUFFICES ASSUME TypeOK, RingInv, [Next]_vars PROVE RingInv'
  OBVIOUS
<1> USE DEF RingInv
<1>1. ASSUME NEW c \in CPUs, Enter(c) PROVE RingInv'
  <2> USE <1>1 DEF Enter, ringVars, histVars, Current
  <2>1. ProgramsHoldRecords'
    BY SMTT(40) DEF TypeOK, ProgramsHoldRecords
  <2>2. RecordsAreNew'
    <3> SUFFICES ASSUME NEW p \in (cons + 1)..prod, NEW d \in CPUs, rec[p].ev[1] = d
                 PROVE  /\ latest[d] < rec[p].ev[2]
                        /\ rec[p].ev[2] <= fired'[d]
                        /\ prog'[d].pc = "entered" => rec[p].ev[2] < fired'[d]
      BY DEF RecordsAreNew
    <3>1. /\ latest[d] < rec[p].ev[2]
          /\ rec[p].ev[2] <= fired[d]
          /\ prog[d].pc = "entered" => rec[p].ev[2] < fired[d]
      BY DEF RecordsAreNew
    <3>2. fired[d] \in Nat /\ rec[p].ev[2] \in Nat
      BY RecordTypes DEF TypeOK
    <3>3. fired'[d] = IF d = c THEN fired[d] + 1 ELSE fired[d]
      BY DEF TypeOK
    <3>4. d # c => prog'[d] = prog[d]
      BY DEF TypeOK
    <3> HIDE <1>1 DEF Enter
    <3>5. rec[p].ev[2] <= fired'[d]
      BY <3>1, <3>2, <3>3
    <3>6. CASE d = c
      BY <3>1, <3>2, <3>3, <3>5, <3>6
    <3>7. CASE d # c
      BY <3>1, <3>3, <3>4, <3>5, <3>7
    <3> QED
      BY <3>6, <3>7
  <2>3. RecordsInOrder'
    BY DEF RecordsInOrder
  <2> QED
    BY <2>1, <2>2, <2>3
<1>2. ASSUME NEW c \in CPUs, ReserveFails(c) PROVE RingInv'
  <2> USE <1>2 DEF ReserveFails, ringVars, Idle, Current
  <2>1. ProgramsHoldRecords'
    BY DEF TypeOK, ProgramsHoldRecords
  <2>2. RecordsAreNew'
    BY DEF TypeOK, RecordsAreNew
  <2>3. RecordsInOrder'
    BY DEF RecordsInOrder
  <2> QED
    BY <2>1, <2>2, <2>3
<1>3. ASSUME NEW c \in CPUs, Reserve(c) PROVE RingInv'
  <2> USE <1>3 DEF Reserve, histVars, Current
  <2>0. /\ \A p \in (cons + 1)..prod : p \in (cons' + 1)..prod' /\ rec'[p] = rec[p]
        /\ prod' \in (cons' + 1)..prod'
        /\ rec'[prod'] = [ev |-> Current(c), st |-> "busy"]
        /\ \A p \in (cons' + 1)..prod' : p \in (cons + 1)..prod \/ p = prod'
    BY DEF TypeOK
  <2>1. ProgramsHoldRecords'
    BY <2>0, ZenonT(60) DEF TypeOK, ProgramsHoldRecords
  <2>2. RecordsAreNew'
    <3> SUFFICES ASSUME NEW p \in (cons' + 1)..prod', NEW d \in CPUs, rec'[p].ev[1] = d
                 PROVE  /\ latest[d] < rec'[p].ev[2]
                        /\ rec'[p].ev[2] <= fired[d]
                        /\ prog'[d].pc = "entered" => rec'[p].ev[2] < fired[d]
      BY DEF RecordsAreNew
    <3>1. CASE p \in (cons + 1)..prod
      BY <3>1, <2>0 DEF RecordsAreNew, TypeOK
    <3>2. CASE p = prod'
      <4>1. rec'[p].ev = <<c, fired[c]>>
        BY <3>2, <2>0
      <4>2. d = c /\ rec'[p].ev[2] = fired[c]
        BY <4>1
      <4>3. latest[c] < fired[c] /\ prog'[c].pc = "filling"
        BY DEF ProgramsHoldRecords, TypeOK
      <4> QED
        BY <4>2, <4>3 DEF TypeOK
    <3> QED
      BY <3>1, <3>2, <2>0
  <2>3. RecordsInOrder'
    BY <2>0, RecordTypes, SMTT(40) DEF TypeOK, RecordsAreNew, RecordsInOrder
  <2> QED
    BY <2>1, <2>2, <2>3
<1>4. ASSUME NEW c \in CPUs, Submit(c) \/ Discard(c) PROVE RingInv'
  <2>0. /\ UNCHANGED <<fired, prod, cons, latest>>
        /\ prog[c].pc = "filling"
        /\ prog' = [prog EXCEPT ![c] = Idle]
    BY <1>4 DEF Submit, Discard, histVars
  <2>a. /\ prog[c].pos \in (cons + 1)..prod
        /\ rec[prog[c].pos].ev = <<c, fired[c]>>
    <3>1. /\ prog[c].pos \in (cons + 1)..prod
          /\ rec[prog[c].pos] = [ev |-> <<c, fired[c]>>, st |-> "busy"]
      BY <2>0 DEF ProgramsHoldRecords, Current
    <3> QED
      BY <3>1
  <2>b. \E st \in {"ready", "discarded"} : rec' = [rec EXCEPT ![prog[c].pos].st = st]
    BY <1>4 DEF Submit, Discard
  <2>c. \A p \in (cons + 1)..prod :
          rec'[p].ev = rec[p].ev /\ (p # prog[c].pos => rec'[p] = rec[p])
    BY <2>b, <2>a, SMTT(40) DEF TypeOK, Records
  <2>1. ProgramsHoldRecords'
    <3> SUFFICES ASSUME NEW d \in CPUs
                 PROVE  /\ latest[d] <= fired[d]
                        /\ prog'[d].pc # "idle" => latest[d] < fired[d]
                        /\ prog'[d].pc = "filling" =>
                             /\ prog'[d].pos \in (cons + 1)..prod
                             /\ rec'[prog'[d].pos] = [ev |-> Current(d), st |-> "busy"]
      BY <2>0 DEF ProgramsHoldRecords, Current
    <3>1. CASE d = c
      BY <3>1, <2>0 DEF ProgramsHoldRecords, Idle, TypeOK
    <3>2. CASE d # c
      <4>1. prog'[d] = prog[d]
        BY <3>2, <2>0 DEF TypeOK
      <4>2. prog[d].pc = "filling" =>
              /\ prog[d].pos \in (cons + 1)..prod
              /\ rec[prog[d].pos] = [ev |-> Current(d), st |-> "busy"]
              /\ rec[prog[d].pos].ev = <<d, fired[d]>>
        BY DEF ProgramsHoldRecords, Current
      <4>3. prog[d].pc = "filling" => prog[d].pos # prog[c].pos
        BY <3>2, <4>2, <2>a
      <4> QED
        BY <4>1, <4>2, <4>3, <2>c DEF ProgramsHoldRecords
    <3> QED
      BY <3>1, <3>2
  <2>2. RecordsAreNew'
    <3> SUFFICES ASSUME NEW p \in (cons + 1)..prod, NEW d \in CPUs, rec'[p].ev[1] = d
                 PROVE  /\ latest[d] < rec'[p].ev[2]
                        /\ rec'[p].ev[2] <= fired[d]
                        /\ prog'[d].pc = "entered" => rec'[p].ev[2] < fired[d]
      BY <2>0 DEF RecordsAreNew
    <3>1. prog'[d].pc = "entered" => prog[d].pc = "entered"
      BY <2>0 DEF TypeOK, Idle
    <3> QED
      BY <3>1, <2>c DEF RecordsAreNew
  <2>3. RecordsInOrder'
    BY <2>0, <2>c DEF RecordsInOrder
  <2> QED
    BY <2>1, <2>2, <2>3
<1>5. CASE Consume
  <2>0. /\ UNCHANGED <<prog, fired, prod>>
        /\ cons < prod /\ cons' = cons + 1
        /\ rec[cons + 1].st # "busy"
        /\ \A p \in (cons' + 1)..prod' : p \in (cons + 1)..prod /\ rec'[p] = rec[p]
    BY <1>5 DEF Consume, Release, TypeOK
  <2>h. \A c \in CPUs :
          \/ latest'[c] = latest[c]
          \/ c = rec[cons + 1].ev[1] /\ latest'[c] = rec[cons + 1].ev[2]
    BY <1>5, <2>0, HeadRecord DEF Consume, TypeOK
  <2>1. ProgramsHoldRecords'
    <3> SUFFICES ASSUME NEW c \in CPUs
                 PROVE  /\ latest'[c] <= fired[c]
                        /\ prog[c].pc # "idle" => latest'[c] < fired[c]
                        /\ prog[c].pc = "filling" =>
                             /\ prog[c].pos \in (cons' + 1)..prod
                             /\ rec'[prog[c].pos] = [ev |-> Current(c), st |-> "busy"]
      BY <2>0 DEF ProgramsHoldRecords, Current
    <3>1. prog[c].pc = "filling" =>
            /\ prog[c].pos \in (cons' + 1)..prod
            /\ rec'[prog[c].pos] = [ev |-> Current(c), st |-> "busy"]
      BY <2>0 DEF ProgramsHoldRecords, TypeOK
    <3>2. prog[c].pc = "filling" /\ rec[cons + 1].ev[1] = c => rec[cons + 1].ev[2] < fired[c]
      <4> SUFFICES ASSUME prog[c].pc = "filling", rec[cons + 1].ev[1] = c
                   PROVE  rec[cons + 1].ev[2] < fired[c]
        OBVIOUS
      <4>1. /\ prog[c].pos \in (cons + 1)..prod
            /\ prog[c].pos # cons + 1
            /\ rec[prog[c].pos].ev = <<c, fired[c]>>
        <5>1. rec[prog[c].pos] = [ev |-> <<c, fired[c]>>, st |-> "busy"]
          BY DEF ProgramsHoldRecords, Current
        <5>2. rec[prog[c].pos].st = "busy" /\ rec[prog[c].pos].ev = <<c, fired[c]>>
          BY <5>1
        <5> QED
          BY <5>2, <2>0 DEF ProgramsHoldRecords
      <4>2. cons + 1 < prog[c].pos
        BY <4>1, <2>0 DEF TypeOK
      <4> QED
        BY <4>1, <4>2, <2>0, HeadRecord DEF RecordsInOrder
    <3>3. /\ latest'[c] <= fired[c]
          /\ prog[c].pc # "idle" => latest'[c] < fired[c]
      <4>1. CASE latest'[c] = latest[c]
        BY <4>1 DEF ProgramsHoldRecords
      <4>2. CASE c = rec[cons + 1].ev[1] /\ latest'[c] = rec[cons + 1].ev[2]
        <5>1. /\ rec[cons + 1].ev[2] <= fired[c]
              /\ prog[c].pc = "entered" => rec[cons + 1].ev[2] < fired[c]
          BY <2>0, <4>2, HeadRecord DEF RecordsAreNew
        <5>2. prog[c].pc \in {"idle", "entered", "filling"}
          BY DEF TypeOK
        <5> QED
          BY <3>2, <4>2, <5>1, <5>2
      <4> QED
        BY <2>h, <4>1, <4>2
    <3> QED
      BY <3>1, <3>3
  <2>2. RecordsAreNew'
    <3> SUFFICES ASSUME NEW p \in (cons' + 1)..prod', NEW c \in CPUs, rec'[p].ev[1] = c
                 PROVE  /\ latest'[c] < rec'[p].ev[2]
                        /\ rec'[p].ev[2] <= fired'[c]
                        /\ prog'[c].pc = "entered" => rec'[p].ev[2] < fired'[c]
      BY DEF RecordsAreNew
    <3>1. p \in (cons + 1)..prod /\ rec'[p] = rec[p] /\ cons + 1 < p
      BY <2>0, SMTT(40) DEF TypeOK
    <3>2. latest'[c] < rec[p].ev[2]
      BY <3>1, <2>0, <2>h, HeadRecord DEF RecordsAreNew, RecordsInOrder
    <3> QED
      BY <3>1, <3>2, <2>0 DEF RecordsAreNew
  <2>3. RecordsInOrder'
    BY <2>0 DEF RecordsInOrder
  <2> QED
    BY <2>1, <2>2, <2>3
<1>6. ASSUME Open \/ Load \/ Attach \/ NewRingBuffer \/ CheckStop \/ PollTimeout
             \/ PollWake \/ DrainEnd \/ Free \/ Destroy \/ Environment
      PROVE  RingInv'
  BY <1>6, MainIsQuiet
     DEF Quiet, ProgramsHoldRecords, RecordsAreNew, RecordsInOrder, Current
<1>7. CASE UNCHANGED vars
  BY <1>7 DEF vars, ProgramsHoldRecords, RecordsAreNew, RecordsInOrder, Current
<1> QED
  BY <1>1, <1>2, <1>3, <1>4, <1>5, <1>6, <1>7 DEF Next, ProgStep, MainStep

LEMMA InitInv == Init => TypeOK /\ RingInv
<1> SUFFICES ASSUME Init PROVE TypeOK /\ RingInv
  OBVIOUS
<1>1. TypeOK
  <2>1. rec \in [(cons + 1)..prod -> Records]
    <3>1. (cons + 1)..prod = {} /\ 1..0 = {}
      BY DEF Init
    <3> QED
      BY <3>1 DEF Init
  <2>2. handled \in Seq(Events) /\ fired \in [CPUs -> Nat] /\ latest \in [CPUs -> Nat]
    BY DEF Init
  <2>3. upc \in UserPc /\ prog \in [CPUs -> [pc : {"idle", "entered", "filling"}, pos : Nat]]
    BY DEF Init, Idle, UserPc
  <2>4. <<stop, attached>> \in BOOLEAN \X BOOLEAN
    BY DEF Init
  <2> QED
    BY <2>1, <2>2, <2>3, <2>4 DEF Init, TypeOK
<1>2. RingInv
  BY DEF Init, RingInv, ProgramsHoldRecords, RecordsAreNew, RecordsInOrder, Idle
<1> QED
  BY <1>1, <1>2

(* Every variable keeps its type and the ring never holds more than RbSize *)
(* records, for any number of CPUs, events and records.                    *)
THEOREM TypeCorrect == Spec => []TypeOK
<1>1. TypeOK /\ RingInv /\ [Next]_vars => (TypeOK /\ RingInv)'
  BY TypeStep, RingStep
<1> QED
  BY InitInv, <1>1, PTL DEF Spec

(* The records between consumer and producer are ordered and newer than    *)
(* what was handled, and every program fills a record of its own.          *)
THEOREM RingCorrect == Spec => []RingInv
<1>1. TypeOK /\ RingInv /\ [Next]_vars => (TypeOK /\ RingInv)'
  BY TypeStep, RingStep
<1> QED
  BY InitInv, <1>1, PTL DEF Spec

-----------------------------------------------------------------------------
(* A step of the tool is a step of the event stream, or leaves it alone.   *)
LEMMA StreamStep ==
  TypeOK /\ RingInv /\ [Next]_vars => [Stream!Next]_(Stream!streamVars)
<1> SUFFICES ASSUME TypeOK, RingInv, [Next]_vars
             PROVE  Stream!Next \/ UNCHANGED <<fired, latest, handled>>
  BY DEF Stream!streamVars
<1>1. ASSUME NEW c \in CPUs, Enter(c) PROVE Stream!Next
  BY <1>1 DEF Enter, histVars, Stream!Next, Stream!Fire
<1>2. ASSUME NEW c \in CPUs, ProgStep(c) PROVE UNCHANGED <<fired, latest, handled>>
  BY <1>2 DEF ProgStep, ReserveFails, Reserve, Submit, Discard, histVars
<1>3. CASE Consume /\ rec[cons + 1].st # "ready"
  BY <1>3 DEF Consume
<1>4. CASE Consume /\ rec[cons + 1].st = "ready"
  <2> DEFINE c == rec[cons + 1].ev[1]
             n == rec[cons + 1].ev[2]
  <2>1. cons < prod
    BY <1>4 DEF Consume
  <2>2. /\ c \in CPUs /\ n \in Nat
        /\ rec[cons + 1].ev = <<c, n>>
        /\ cons + 1 \in (cons + 1)..prod
    BY <2>1, HeadRecord
  <2>3. latest[c] < n /\ n <= fired[c]
    BY <2>2 DEF RingInv, RecordsAreNew
  <2>4. /\ handled' = Append(handled, <<c, n>>)
        /\ latest' = [latest EXCEPT ![c] = n]
        /\ UNCHANGED fired
    BY <1>4, <2>2 DEF Consume
  <2>5. n \in 1..fired[c]
    <3>1. latest[c] \in Nat /\ fired[c] \in Nat
      BY <2>2 DEF TypeOK
    <3> QED
      BY <3>1, <2>2, <2>3
  <2>6. Stream!Deliver(c, n)
    BY <2>3, <2>4 DEF Stream!Deliver
  <2> QED
    BY <2>2, <2>5, <2>6 DEF Stream!Next
<1>5. ASSUME Open \/ Load \/ Attach \/ NewRingBuffer \/ CheckStop \/ PollTimeout
             \/ PollWake \/ DrainEnd \/ Free \/ Destroy \/ Environment
      PROVE  UNCHANGED <<fired, latest, handled>>
  BY <1>5, MainIsQuiet DEF Quiet
<1>6. CASE UNCHANGED vars
  BY <1>6 DEF vars
<1> QED
  BY <1>1, <1>2, <1>3, <1>4, <1>5, <1>6 DEF Next, MainStep

(* handle_event sees only events that happened, each at most once, and     *)
(* those of one CPU in the order in which they happened: ProbeTool         *)
(* implements EventStream.                                                 *)
THEOREM StreamRefinement == Spec => ImplementsStream
<1>1. Init => Stream!Init
  BY DEF Init, Stream!Init
<1>2. TypeOK /\ RingInv /\ [Next]_vars => [Stream!Next]_(Stream!streamVars)
  BY StreamStep
<1> QED
  BY <1>1, <1>2, TypeCorrect, RingCorrect, PTL DEF Spec, ImplementsStream, Stream!Spec

-----------------------------------------------------------------------------
(* The skeleton is attached only between the attach call and its           *)
(* destruction.                                                            *)
AttachedOnlyWhileUp == attached => upc \notin {"open", "load", "attach", "exit"}

(* Every way out of main(), SIGKILL included, leaves no program attached   *)
(* to a hook.                                                              *)
THEOREM NoProbeLeftBehind == Spec => []NoProbeLeft
<1>1. Init => AttachedOnlyWhileUp
  BY DEF Init, AttachedOnlyWhileUp
<1>2. AttachedOnlyWhileUp /\ [Next]_vars => AttachedOnlyWhileUp'
  <2> SUFFICES ASSUME AttachedOnlyWhileUp, [Next]_vars PROVE AttachedOnlyWhileUp'
    OBVIOUS
  <2> USE DEF AttachedOnlyWhileUp
  <2>1. ASSUME NEW c \in CPUs, Enter(c) \/ ProgStep(c) PROVE AttachedOnlyWhileUp'
    BY <2>1 DEF Enter, ProgStep, ReserveFails, Reserve, Submit, Discard, userVars
  <2>2. CASE MainStep
    BY <2>2 DEF MainStep, Goto, Open, Load, Attach, NewRingBuffer, CheckStop,
                PollTimeout, PollWake, Consume, DrainEnd, Free, Destroy, userVars
  <2>3. CASE Environment
    BY <2>3 DEF Environment, Goto, AfterEintr, StartFails, PollInterrupted, PollError,
                Signal, Kill
  <2>4. CASE UNCHANGED vars
    BY <2>4 DEF vars
  <2> QED
    BY <2>1, <2>2, <2>3, <2>4 DEF Next
<1>3. AttachedOnlyWhileUp => NoProbeLeft
  BY DEF AttachedOnlyWhileUp, NoProbeLeft
<1> QED
  BY <1>1, <1>2, <1>3, PTL DEF Spec

-----------------------------------------------------------------------------
(* What has become of the event e, one predicate for each fate. *)
AtEntry(e) == prog[e[1]].pc = "entered" /\ e[2] = fired[e[1]]
OnRing(e) == \E p \in (cons + 1)..prod : rec[p].ev = e /\ rec[p].st # "discarded"
Given(e) == \E i \in DOMAIN handled : handled[i] = e

ExactlyOne(a, b, c, d, x) ==
  \/ a /\ ~b /\ ~c /\ ~d /\ ~x
  \/ ~a /\ b /\ ~c /\ ~d /\ ~x
  \/ ~a /\ ~b /\ c /\ ~d /\ ~x
  \/ ~a /\ ~b /\ ~c /\ d /\ ~x
  \/ ~a /\ ~b /\ ~c /\ ~d /\ x

OneFate(e) == ExactlyOne(AtEntry(e), OnRing(e), Given(e), e \in dropped, e \in discarded)

(* What has a fate has happened, and everything that happened has one. *)
AllHappened ==
  \A c \in CPUs : \A n \in Nat :
    Given(<<c, n>>) \/ <<c, n>> \in dropped \/ <<c, n>> \in discarded => n <= fired[c]
FatesInv == \A c \in CPUs : \A n \in 1..fired[c] : OneFate(<<c, n>>)
Accounts == AllHappened /\ FatesInv

(* The fates counted by Accounted are these. *)
LEMMA OneFateCounts ==
  ASSUME NEW e, OneFate(e)
  PROVE  Cardinality({k \in Fates : HasFate(e, k)}) = 1
<1>1. /\ HasFate(e, "entered") <=> AtEntry(e)
      /\ HasFate(e, "ring") <=> OnRing(e)
      /\ HasFate(e, "handled") <=> Given(e)
      /\ HasFate(e, "dropped") <=> e \in dropped
      /\ HasFate(e, "discarded") <=> e \in discarded
  BY DEF HasFate, AtEntry, OnRing, Given
<1>2. \E k \in Fates : {j \in Fates : HasFate(e, j)} = {k}
  <2>1. \E k \in Fates : \A j \in Fates : HasFate(e, j) <=> j = k
    BY <1>1 DEF OneFate, ExactlyOne, Fates
  <2>2. PICK k \in Fates : \A j \in Fates : HasFate(e, j) <=> j = k
    BY <2>1
  <2>3. {j \in Fates : HasFate(e, j)} = {k}
    BY <2>2
  <2> QED
    BY <2>3
<1> QED
  BY <1>2, FS_Singleton

(* A step leaves the fate of e alone. *)
SameFate(e) ==
  /\ AtEntry(e)' <=> AtEntry(e)
  /\ OnRing(e)' <=> OnRing(e)
  /\ Given(e)' <=> Given(e)
  /\ e \in dropped' <=> e \in dropped
  /\ e \in discarded' <=> e \in discarded

(* A step that changes none of the fates. *)
LEMMA FatesKept ==
  ASSUME TypeOK, Accounts, fired' = fired, \A d \in CPUs, m \in Nat : SameFate(<<d, m>>)
  PROVE  Accounts'
<1>1. FatesInv'
  <2> SUFFICES ASSUME NEW d \in CPUs, NEW m \in 1..fired[d] PROVE OneFate(<<d, m>>)'
    BY DEF FatesInv
  <2>1. OneFate(<<d, m>>) /\ m \in Nat
    BY DEF Accounts, FatesInv, TypeOK
  <2>2. SameFate(<<d, m>>)
    BY <2>1
  <2> QED
    BY <2>1, <2>2 DEF OneFate, ExactlyOne, SameFate
<1>2. AllHappened'
  BY DEF Accounts, AllHappened, SameFate
<1> QED
  BY <1>1, <1>2 DEF Accounts

(* A step that moves the event <<c, n>> from one fate to another.          *)
LEMMA FateMoves ==
  ASSUME TypeOK, Accounts, fired' = fired, NEW c \in CPUs, NEW n \in 1..fired[c],
         \A d \in CPUs, m \in Nat : <<d, m>> # <<c, n>> => SameFate(<<d, m>>),
         OneFate(<<c, n>>)'
  PROVE  Accounts'
<1>0. \A d \in CPUs : fired[d] \in Nat
  BY DEF TypeOK
<1>1. FatesInv'
  <2> SUFFICES ASSUME NEW d \in CPUs, NEW m \in 1..fired[d] PROVE OneFate(<<d, m>>)'
    BY DEF FatesInv
  <2>1. CASE <<d, m>> = <<c, n>>
    BY <2>1
  <2>2. CASE <<d, m>> # <<c, n>>
    <3>1. OneFate(<<d, m>>) /\ m \in Nat
      BY <1>0 DEF Accounts, FatesInv
    <3>2. SameFate(<<d, m>>)
      BY <2>2, <3>1
    <3> QED
      BY <3>1, <3>2 DEF OneFate, ExactlyOne, SameFate
  <2> QED
    BY <2>1, <2>2
<1>2. AllHappened'
  <2> SUFFICES ASSUME NEW d \in CPUs, NEW m \in Nat,
                      Given(<<d, m>>)' \/ <<d, m>> \in dropped' \/ <<d, m>> \in discarded'
               PROVE  m <= fired[d]
    BY DEF AllHappened
  <2>1. CASE <<d, m>> = <<c, n>>
    BY <1>0, <2>1
  <2>2. CASE <<d, m>> # <<c, n>>
    <3>1. Given(<<d, m>>) \/ <<d, m>> \in dropped \/ <<d, m>> \in discarded
      BY <2>2 DEF SameFate
    <3> QED
      BY <3>1 DEF Accounts, AllHappened
  <2> QED
    BY <2>1, <2>2
<1> QED
  BY <1>1, <1>2 DEF Accounts

(* Of two records of the ring only one is of the event. *)
LEMMA OneRecord ==
  ASSUME TypeOK, RingInv, NEW p \in (cons + 1)..prod, NEW q \in (cons + 1)..prod,
         rec[p].ev = rec[q].ev
  PROVE  p = q
<1>1. p \in Int /\ q \in Int
  BY DEF TypeOK
<1>2. rec[p].ev[2] \in Nat /\ rec[p].ev[1] = rec[q].ev[1] /\ rec[p].ev[2] = rec[q].ev[2]
  BY RecordTypes
<1>3. ~(rec[p].ev[2] < rec[q].ev[2]) /\ ~(rec[q].ev[2] < rec[p].ev[2])
  BY <1>2
<1>4. ~(p < q) /\ ~(q < p)
  BY <1>2, <1>3 DEF RingInv, RecordsInOrder
<1> QED
  BY <1>1, <1>4

(* The event of a running program, and its fate. *)
LEMMA CurrentFate ==
  ASSUME TypeOK, RingInv, Accounts, NEW c \in CPUs, prog[c].pc # "idle"
  PROVE  /\ fired[c] \in 1..fired[c] /\ fired[c] \in Nat
         /\ OneFate(<<c, fired[c]>>)
         /\ prog[c].pc = "entered" => AtEntry(<<c, fired[c]>>)
         /\ prog[c].pc = "filling" => OnRing(<<c, fired[c]>>)
<1>1. latest[c] \in Nat /\ fired[c] \in Nat /\ latest[c] < fired[c]
  BY DEF TypeOK, RingInv, ProgramsHoldRecords
<1>2. fired[c] \in 1..fired[c]
  BY <1>1
<1>3. OneFate(<<c, fired[c]>>)
  BY <1>2 DEF Accounts, FatesInv
<1>4. prog[c].pc = "filling" => OnRing(<<c, fired[c]>>)
  <2> SUFFICES ASSUME prog[c].pc = "filling" PROVE OnRing(<<c, fired[c]>>)
    OBVIOUS
  <2>1. PICK p \in (cons + 1)..prod : rec[p] = [ev |-> Current(c), st |-> "busy"]
    BY DEF RingInv, ProgramsHoldRecords
  <2>2. rec[p].ev = <<c, fired[c]>> /\ rec[p].st = "busy"
    BY <2>1 DEF Current
  <2> QED
    BY <2>2 DEF OnRing
<1> QED
  BY <1>1, <1>2, <1>3, <1>4 DEF AtEntry

(* A new event has just begun; it has no other fate yet. *)
LEMMA EnterAccounts ==
  ASSUME TypeOK, RingInv, Accounts, NEW c \in CPUs, Enter(c)
  PROVE  Accounts'
<1>0. \A d \in CPUs : fired[d] \in Nat
  BY DEF TypeOK
<1>1. /\ prog[c].pc = "idle" /\ fired' = [fired EXCEPT ![c] = @ + 1]
      /\ prog' = [prog EXCEPT ![c] = [pc |-> "entered", pos |-> 0]]
      /\ UNCHANGED <<prod, rec, cons, handled, dropped, discarded>>
  BY DEF Enter, ringVars, histVars
<1>2. \A d \in CPUs : d # c => prog'[d] = prog[d] /\ fired'[d] = fired[d]
  BY <1>1 DEF TypeOK
<1>3. prog'[c].pc = "entered" /\ fired'[c] = fired[c] + 1
  BY <1>1 DEF TypeOK
<1>4. \A e : /\ OnRing(e)' <=> OnRing(e)
             /\ Given(e)' <=> Given(e)
             /\ e \in dropped' <=> e \in dropped
             /\ e \in discarded' <=> e \in discarded
  BY <1>1 DEF OnRing, Given
<1>5. AllHappened'
  <2> SUFFICES ASSUME NEW d \in CPUs, NEW m \in Nat,
                      Given(<<d, m>>)' \/ <<d, m>> \in dropped' \/ <<d, m>> \in discarded'
               PROVE  m <= fired'[d]
    BY DEF AllHappened
  <2>1. m <= fired[d]
    BY <1>4 DEF Accounts, AllHappened
  <2> QED
    BY <1>0, <1>2, <1>3, <2>1
<1>6. ASSUME NEW d \in CPUs, NEW m \in 1..fired'[d] PROVE OneFate(<<d, m>>)'
  <2>0. <<d, m>>[1] = d /\ <<d, m>>[2] = m
    OBVIOUS
  <2>1. CASE d = c /\ m = fired[c] + 1
    <3>1. AtEntry(<<d, m>>)'
      BY <1>3, <2>0, <2>1 DEF AtEntry
    <3>2. m \in Nat /\ ~(m <= fired[c])
      BY <1>0, <2>1
    <3>3. ~Given(<<d, m>>) /\ <<d, m>> \notin dropped /\ <<d, m>> \notin discarded
      BY <2>1, <3>2 DEF Accounts, AllHappened
    <3>4. ~OnRing(<<d, m>>)
      <4> SUFFICES ASSUME NEW p \in (cons + 1)..prod, rec[p].ev = <<d, m>> PROVE FALSE
        BY DEF OnRing
      <4>1. rec[p].ev[1] = c /\ rec[p].ev[2] = m
        BY <2>1
      <4> QED
        BY <3>2, <4>1 DEF RingInv, RecordsAreNew
    <3> QED
      BY <1>4, <3>1, <3>3, <3>4 DEF OneFate, ExactlyOne
  <2>2. CASE ~(d = c /\ m = fired[c] + 1)
    <3>1. m \in 1..fired[d]
      BY <1>0, <1>2, <1>3, <2>2
    <3>2. OneFate(<<d, m>>)
      BY <3>1 DEF Accounts, FatesInv
    <3>3. AtEntry(<<d, m>>)' <=> AtEntry(<<d, m>>)
      <4>1. CASE d = c
        BY <1>0, <1>1, <1>3, <2>0, <2>2, <4>1 DEF AtEntry
      <4>2. CASE d # c
        BY <1>2, <2>0, <4>2 DEF AtEntry
      <4> QED
        BY <4>1, <4>2
    <3> QED
      BY <1>4, <3>2, <3>3 DEF OneFate, ExactlyOne
  <2> QED
    BY <2>1, <2>2
<1> QED
  BY <1>5, <1>6 DEF Accounts, FatesInv

(* A program's step moves its own event only. *)
LEMMA OthersAtEntry ==
  ASSUME TypeOK, NEW c \in CPUs, fired' = fired, prog[c].pc # "idle",
         NEW r, prog' = [prog EXCEPT ![c] = r], r.pc # "entered",
         NEW d \in CPUs, NEW m \in Nat, <<d, m>> # <<c, fired[c]>>
  PROVE  AtEntry(<<d, m>>)' <=> AtEntry(<<d, m>>)
<1>0. <<d, m>>[1] = d /\ <<d, m>>[2] = m
  OBVIOUS
<1>1. CASE d = c
  <2>1. m # fired[d]
    BY <1>1
  <2> QED
    BY <1>0, <2>1 DEF AtEntry
<1>2. CASE d # c
  <2>1. prog'[d] = prog[d]
    BY <1>2 DEF TypeOK
  <2> QED
    BY <1>0, <2>1 DEF AtEntry
<1> QED
  BY <1>1, <1>2

LEMMA ReserveFailsAccounts ==
  ASSUME TypeOK, RingInv, Accounts, NEW c \in CPUs, ReserveFails(c)
  PROVE  Accounts'
<1>1. /\ prog[c].pc = "entered" /\ prog' = [prog EXCEPT ![c] = Idle]
      /\ dropped' = dropped \cup {<<c, fired[c]>>}
      /\ UNCHANGED <<fired, prod, rec, cons, handled, discarded>>
  BY DEF ReserveFails, ringVars, Current
<1>2. prog[c].pc # "idle" /\ Idle.pc # "entered" /\ fired' = fired
  BY <1>1 DEF Idle
<1>3. \A e : /\ OnRing(e)' <=> OnRing(e)
             /\ Given(e)' <=> Given(e)
             /\ e \in discarded' <=> e \in discarded
  BY <1>1 DEF OnRing, Given
<1>4. \A d \in CPUs, m \in Nat : <<d, m>> # <<c, fired[c]>> => SameFate(<<d, m>>)
  BY <1>1, <1>2, <1>3, OthersAtEntry DEF SameFate
<1>5. OneFate(<<c, fired[c]>>)'
  <2>1. AtEntry(<<c, fired[c]>>) /\ OneFate(<<c, fired[c]>>)
    BY <1>1, CurrentFate
  <2>2. ~AtEntry(<<c, fired[c]>>)'
    <3>1. prog'[c] = Idle
      BY <1>1 DEF TypeOK
    <3> QED
      BY <1>2, <3>1 DEF AtEntry
  <2> QED
    BY <1>1, <1>3, <2>1, <2>2 DEF OneFate, ExactlyOne
<1> QED
  BY <1>2, <1>4, <1>5, CurrentFate, FateMoves

LEMMA ReserveAccounts ==
  ASSUME TypeOK, RingInv, Accounts, NEW c \in CPUs, Reserve(c)
  PROVE  Accounts'
<1>0. prod \in Nat /\ cons \in Nat /\ cons <= prod
  BY DEF TypeOK
<1>1. /\ prog[c].pc = "entered"
      /\ prog' = [prog EXCEPT ![c] = [pc |-> "filling", pos |-> prod + 1]]
      /\ prod' = prod + 1
      /\ rec' = [p \in (cons + 1)..(prod + 1) |->
                   IF p = prod + 1 THEN [ev |-> <<c, fired[c]>>, st |-> "busy"] ELSE rec[p]]
      /\ UNCHANGED <<fired, cons, handled, dropped, discarded>>
  BY DEF Reserve, histVars, Current
<1>2. prog[c].pc # "idle" /\ [pc |-> "filling", pos |-> prod + 1].pc # "entered" /\ fired' = fired
  BY <1>1
<1>3. \A e : /\ Given(e)' <=> Given(e)
             /\ e \in dropped' <=> e \in dropped
             /\ e \in discarded' <=> e \in discarded
  BY <1>1 DEF Given
<1>a. /\ \A p \in (cons + 1)..prod : rec'[p] = rec[p]
      /\ rec'[prod + 1] = [ev |-> <<c, fired[c]>>, st |-> "busy"]
      /\ (cons' + 1)..prod' = ((cons + 1)..prod) \cup {prod + 1}
  BY <1>0, <1>1
<1>4. ASSUME NEW e, e # <<c, fired[c]>> PROVE OnRing(e)' <=> OnRing(e)
  BY <1>4, <1>a DEF OnRing
<1>5. \A d \in CPUs, m \in Nat : <<d, m>> # <<c, fired[c]>> => SameFate(<<d, m>>)
  BY <1>1, <1>2, <1>3, <1>4, OthersAtEntry DEF SameFate
<1>6. OneFate(<<c, fired[c]>>)'
  <2>1. AtEntry(<<c, fired[c]>>) /\ OneFate(<<c, fired[c]>>)
    BY <1>1, CurrentFate
  <2>2. ~AtEntry(<<c, fired[c]>>)'
    <3>1. prog'[c] = [pc |-> "filling", pos |-> prod + 1]
      BY <1>1 DEF TypeOK
    <3> QED
      BY <3>1 DEF AtEntry
  <2>3. OnRing(<<c, fired[c]>>)'
    BY <1>1, <1>a DEF OnRing
  <2> QED
    BY <1>1, <1>3, <2>1, <2>2, <2>3 DEF OneFate, ExactlyOne
<1> QED
  BY <1>2, <1>5, <1>6, CurrentFate, FateMoves

(* What Submit and Discard do to the record of their program. *)
LEMMA MarkAccounts ==
  ASSUME TypeOK, RingInv, Accounts, NEW c \in CPUs, Submit(c) \/ Discard(c)
  PROVE  Accounts'
<1>1. PICK st \in {"ready", "discarded"} :
        /\ prog[c].pc = "filling" /\ prog' = [prog EXCEPT ![c] = Idle]
        /\ rec' = [rec EXCEPT ![prog[c].pos].st = st]
        /\ discarded' = IF st = "discarded" THEN discarded \cup {<<c, fired[c]>>} ELSE discarded
        /\ UNCHANGED <<fired, prod, cons, handled, dropped>>
  BY DEF Submit, Discard, Current, histVars
<1>2. prog[c].pc # "idle" /\ Idle.pc # "entered" /\ fired' = fired
  BY <1>1 DEF Idle
<1>3. PICK q \in (cons + 1)..prod :
        q = prog[c].pos /\ rec[q] = [ev |-> <<c, fired[c]>>, st |-> "busy"]
  BY <1>1 DEF RingInv, ProgramsHoldRecords, Current
<1>4. /\ \A p \in (cons + 1)..prod : rec'[p].ev = rec[p].ev /\ (p # q => rec'[p] = rec[p])
      /\ rec'[q].st = st
  BY <1>1, <1>3 DEF TypeOK, Records
<1>5. \A p \in (cons + 1)..prod : rec[p].ev = <<c, fired[c]>> => p = q
  <2>1. rec[q].ev = <<c, fired[c]>>
    BY <1>3
  <2> QED
    BY <2>1, OneRecord
<1>6. ASSUME NEW e, e # <<c, fired[c]>> PROVE OnRing(e)' <=> OnRing(e)
  BY <1>1, <1>3, <1>4, <1>6 DEF OnRing
<1>7. /\ \A e : /\ Given(e)' <=> Given(e)
                /\ e \in dropped' <=> e \in dropped
      /\ \A e : e # <<c, fired[c]>> => (e \in discarded' <=> e \in discarded)
  BY <1>1 DEF Given
<1>8. \A d \in CPUs, m \in Nat : <<d, m>> # <<c, fired[c]>> => SameFate(<<d, m>>)
  BY <1>1, <1>2, <1>6, <1>7, OthersAtEntry DEF SameFate
<1>9. OneFate(<<c, fired[c]>>)'
  <2>1. OnRing(<<c, fired[c]>>) /\ OneFate(<<c, fired[c]>>)
    BY <1>1, CurrentFate
  <2>2. ~AtEntry(<<c, fired[c]>>)'
    <3>1. prog'[c] = Idle
      BY <1>1 DEF TypeOK
    <3> QED
      BY <1>2, <3>1 DEF AtEntry
  <2>3. CASE st = "ready"
    <3>1. OnRing(<<c, fired[c]>>)'
      BY <1>1, <1>3, <1>4, <2>3 DEF OnRing
    <3> QED
      BY <1>1, <1>7, <2>1, <2>2, <2>3, <3>1 DEF OneFate, ExactlyOne
  <2>4. CASE st = "discarded"
    <3>1. ~OnRing(<<c, fired[c]>>)'
      BY <1>1, <1>3, <1>4, <1>5, <2>4 DEF OnRing
    <3>2. <<c, fired[c]>> \in discarded'
      BY <1>1, <2>4
    <3> QED
      BY <1>1, <1>7, <2>1, <2>2, <2>4, <3>1, <3>2 DEF OneFate, ExactlyOne
  <2> QED
    BY <2>3, <2>4
<1> QED
  BY <1>2, <1>8, <1>9, CurrentFate, FateMoves

(* A record that is consumed leaves the ring; a submitted one is handled. *)
LEMMA ConsumeAccounts ==
  ASSUME TypeOK, RingInv, Accounts, Consume
  PROVE  Accounts'
<1>0. prod \in Nat /\ cons \in Nat /\ handled \in Seq(Events)
  BY DEF TypeOK
<1>1. /\ cons < prod /\ rec[cons + 1].st # "busy"
      /\ cons' = cons + 1 /\ rec' = [q \in (cons + 2)..prod |-> rec[q]]
      /\ handled' = IF rec[cons + 1].st = "ready" THEN Append(handled, rec[cons + 1].ev) ELSE handled
      /\ UNCHANGED <<prog, fired, prod, dropped, discarded>>
  BY <1>0 DEF Consume, Release
<1>2. /\ cons + 1 \in (cons + 1)..prod
      /\ (cons' + 1)..prod' = ((cons + 1)..prod) \ {cons + 1}
      /\ \A p \in (cons' + 1)..prod' : rec'[p] = rec[p]
  BY <1>0, <1>1
<1>3. PICK c \in CPUs, n \in Nat : rec[cons + 1].ev = <<c, n>>
  BY <1>1, HeadRecord
<1>4. n \in 1..fired[c]
  <2>1. rec[cons + 1].ev[1] = c /\ rec[cons + 1].ev[2] = n
    BY <1>3
  <2>2. latest[c] < n /\ n <= fired[c] /\ latest[c] \in Nat /\ fired[c] \in Nat
    BY <1>2, <2>1 DEF RingInv, RecordsAreNew, TypeOK
  <2> QED
    BY <2>2
<1>5. \A e : /\ AtEntry(e)' <=> AtEntry(e)
             /\ e \in dropped' <=> e \in dropped
             /\ e \in discarded' <=> e \in discarded
  BY <1>1 DEF AtEntry
<1>6. ASSUME NEW e, e # <<c, n>> PROVE OnRing(e)' <=> OnRing(e)
  BY <1>2, <1>3, <1>6 DEF OnRing
<1>7. ~OnRing(<<c, n>>)'
  <2> SUFFICES ASSUME NEW p \in (cons' + 1)..prod', rec[p].ev = <<c, n>> PROVE FALSE
    BY <1>2 DEF OnRing
  <2>1. p \in (cons + 1)..prod /\ p # cons + 1
    BY <1>2
  <2> QED
    BY <1>2, <1>3, <2>1, OneRecord
<1>8. CASE rec[cons + 1].st = "ready"
  <2>1. handled' = Append(handled, <<c, n>>)
    BY <1>1, <1>3, <1>8
  <2>2. /\ DOMAIN handled' = DOMAIN handled \cup {Len(handled) + 1}
        /\ \A i \in DOMAIN handled : handled'[i] = handled[i]
        /\ handled'[Len(handled) + 1] = <<c, n>>
    BY <1>0, <2>1
  <2>3. Given(<<c, n>>)' /\ \A e : e # <<c, n>> => (Given(e)' <=> Given(e))
    BY <2>2 DEF Given
  <2>4. \A d \in CPUs, m \in Nat : <<d, m>> # <<c, n>> => SameFate(<<d, m>>)
    BY <1>5, <1>6, <2>3 DEF SameFate
  <2>5. OnRing(<<c, n>>) /\ OneFate(<<c, n>>)
    BY <1>2, <1>3, <1>4, <1>8 DEF OnRing, Accounts, FatesInv
  <2>6. OneFate(<<c, n>>)'
    BY <1>5, <1>7, <2>3, <2>5 DEF OneFate, ExactlyOne
  <2> QED
    BY <1>1, <1>4, <2>4, <2>6, FateMoves
<1>9. CASE rec[cons + 1].st # "ready"
  <2>1. rec[cons + 1].st = "discarded"
    BY <1>1, <1>9, HeadRecord DEF Records
  <2>2. \A e : Given(e)' <=> Given(e)
    BY <1>1, <1>9 DEF Given
  <2>3. ~OnRing(<<c, n>>)
    <3> SUFFICES ASSUME NEW p \in (cons + 1)..prod, rec[p].ev = <<c, n>>, rec[p].st # "discarded"
                 PROVE  FALSE
      BY DEF OnRing
    <3> QED
      BY <1>2, <1>3, <2>1, OneRecord
  <2>4. \A d \in CPUs, m \in Nat : SameFate(<<d, m>>)
    BY <1>5, <1>6, <1>7, <2>2, <2>3 DEF SameFate
  <2> QED
    BY <1>1, <2>4, FatesKept
<1> QED
  BY <1>8, <1>9

LEMMA AccountsStep == TypeOK /\ RingInv /\ Accounts /\ [Next]_vars => Accounts'
<1> SUFFICES ASSUME TypeOK, RingInv, Accounts, [Next]_vars PROVE Accounts'
  OBVIOUS
<1>1. ASSUME Quiet PROVE Accounts'
  <2>1. \A e : SameFate(e)
    BY <1>1 DEF Quiet, SameFate, AtEntry, OnRing, Given
  <2>2. fired' = fired
    BY <1>1 DEF Quiet
  <2> QED
    BY <2>1, <2>2, FatesKept
<1>2. CASE UNCHANGED vars
  BY <1>1, <1>2 DEF vars, Quiet
<1>3. ASSUME NEW c \in CPUs, Enter(c) \/ ProgStep(c) PROVE Accounts'
  BY <1>3, EnterAccounts, ReserveFailsAccounts, ReserveAccounts, MarkAccounts DEF ProgStep
<1>4. ASSUME Open \/ Load \/ Attach \/ NewRingBuffer \/ CheckStop \/ PollTimeout
             \/ PollWake \/ DrainEnd \/ Free \/ Destroy \/ Environment
      PROVE  Accounts'
  BY <1>1, <1>4, MainIsQuiet
<1>5. CASE Consume
  BY <1>5, ConsumeAccounts
<1> QED
  BY <1>2, <1>3, <1>4, <1>5 DEF Next, MainStep

(* Nothing vanishes between the hook and handle_event and nothing is there *)
(* twice: every event that happened has exactly one fate, for any number   *)
(* of CPUs and events and any ring size.                                   *)
THEOREM EveryEventAccounted == Spec => []Accounted
<1>1. Init => Accounts
  <2> SUFFICES ASSUME Init PROVE Accounts
    OBVIOUS
  <2>1. \A c \in CPUs : fired[c] = 0
    BY DEF Init
  <2>2. \A c \in CPUs : 1..fired[c] = {}
    BY <2>1
  <2>3. dropped = {} /\ discarded = {} /\ \A e : ~Given(e)
    BY DEF Init, Given
  <2> QED
    BY <2>2, <2>3 DEF Accounts, AllHappened, FatesInv
<1>2. Accounts => Accounted
  BY OneFateCounts DEF Accounts, FatesInv, Accounted
<1> QED
  BY <1>1, <1>2, AccountsStep, TypeCorrect, RingCorrect, PTL DEF Spec
=============================================================================
