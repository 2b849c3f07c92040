------------------------------ MODULE TcTools ------------------------------
(***************************************************************************)
(* Several runs of pktrace (pktrace_v2/pktrace.c) and pksniff              *)
(* (pksniff/Pksniff.c) on one network interface: how their main functions  *)
(* take, share and give back the traffic-control hook.                     *)
(*                                                                         *)
(* Unlike a tracepoint, a TC filter is not tied to the process that put it *)
(* there: it stays until somebody removes it.  Every run asks for the same *)
(* place, handle 1 at priority 1, in each direction it watches.            *)
(*                                                                         *)
(* External: libbpf's bpf_tc_* calls and the kernel's filter chains.       *)
(***************************************************************************)
EXTENDS Naturals, Sequences, FiniteSets

CONSTANTS
  Runs,        \* runs of a tool: each is started at most once
  Tool,        \* Tool[r]: "pktrace" or "pksniff"
  None

ASSUME TcAssumption ==
  /\ Tool \in [Runs -> {"pktrace", "pksniff"}]
  /\ None \notin Runs

Dirs == {"in", "eg"}

VARIABLES
  pc,          \* where each main() is
  step,        \* the direction it is working on, an index into Wanted(r)
  attached,    \* attached, or g_attached_in and g_attached_eg
  hook,        \* the clsact queueing discipline exists
  slot,        \* slot[d]: whose filter is at handle 1, priority 1
  foreign      \* directions with filters of other programs

vars == <<pc, step, attached, hook, slot, foreign>>
tcVars == <<hook, slot, foreign>>

(* The directions a tool attaches to, in that order. *)
Wanted(r) == IF Tool[r] = "pktrace" THEN <<"in">> ELSE <<"in", "eg">>

Dir(r) == Wanted(r)[step[r]]
Goto(r, p) == pc' = [pc EXCEPT ![r] = p]

-----------------------------------------------------------------------------
(* Starting.                                                               *)

(* The skeleton is opened and loaded; the first direction is next. *)
Load(r) ==
  /\ pc[r] = "start"
  /\ Goto(r, "hook")
  /\ UNCHANGED <<step, attached, tcVars>>

(* Fault: the attach is tried without a hook. *)
CreateHookSkipped(r) ==
  /\ pc[r] = "hook"
  /\ Goto(r, "attach")
  /\ UNCHANGED <<step, attached, tcVars>>

(* bpf_tc_hook_create: an existing hook is as good as a new one. *)
CreateHook(r) ==
  /\ pc[r] = "hook"
  /\ hook' = "present"
  /\ Goto(r, "attach")
  /\ UNCHANGED <<step, attached, slot, foreign>>

(* Fault: the filter of another run is replaced. *)
AttachReplace(r) ==
  /\ pc[r] = "attach"
  /\ slot' = [slot EXCEPT ![Dir(r)] = r]
  /\ attached' = [attached EXCEPT ![r] = @ \cup {Dir(r)}]
  /\ IF step[r] < Len(Wanted(r))
       THEN step' = [step EXCEPT ![r] = @ + 1] /\ Goto(r, "hook")
       ELSE step' = step /\ Goto(r, "ring")
  /\ UNCHANGED <<hook, foreign>>

(* bpf_tc_attach, without BPF_TC_F_REPLACE. *)
Attach(r) ==
  /\ pc[r] = "attach"
  /\ slot[Dir(r)] = None
  /\ slot' = [slot EXCEPT ![Dir(r)] = r]
  /\ attached' = [attached EXCEPT ![r] = @ \cup {Dir(r)}]
  /\ IF step[r] < Len(Wanted(r))
       THEN step' = [step EXCEPT ![r] = @ + 1] /\ Goto(r, "hook")
       ELSE step' = step /\ Goto(r, "ring")
  /\ UNCHANGED <<hook, foreign>>

NewRingBuffer(r) ==
  /\ pc[r] = "ring"
  /\ Goto(r, "run")
  /\ UNCHANGED <<step, attached, tcVars>>

(* One of the calls above fails, an attach to a taken place among them:    *)
(* goto cleanup.                                                           *)
StartFails(r) ==
  /\ pc[r] \in {"start", "hook", "attach", "ring"}
  /\ Goto(r, "cleanup")
  /\ UNCHANGED <<step, attached, tcVars>>

-----------------------------------------------------------------------------
(* Stopping.                                                               *)

(* The loop ends: a signal cleared the flag, or the poll failed. *)
LeaveLoop(r) ==
  /\ pc[r] = "run"
  /\ Goto(r, "cleanup")
  /\ UNCHANGED <<step, attached, tcVars>>

(* The directions to give back: egress before ingress. *)
ToClean(r) ==
  IF "eg" \in attached[r] THEN "eg" ELSE "in"

(* Fault: the filter is removed by itself before the hook is flushed. *)
DetachWorks(r) ==
  /\ pc[r] = "cleanup" /\ attached[r] # {}
  /\ slot' = [slot EXCEPT ![ToClean(r)] = IF @ = r THEN None ELSE @]
  /\ Goto(r, "destroy")
  /\ UNCHANGED <<step, attached, hook, foreign>>

(* bpf_tc_detach refuses options that still carry a prog_fd or a prog_id,  *)
(* as opts does since bpf_tc_attach; nobody looks at the result.           *)
Detach(r) ==
  /\ pc[r] = "cleanup" /\ attached[r] # {}
  /\ Goto(r, "destroy")
  /\ UNCHANGED <<step, attached, tcVars>>

(* bpf_tc_hook_destroy of one direction flushes all its filters, whoever   *)
(* put them there; the hook itself stays.                                  *)
HookDestroy(r) ==
  /\ pc[r] = "destroy"
  /\ slot' = [slot EXCEPT ![ToClean(r)] = None]
  /\ foreign' = foreign \ {ToClean(r)}
  /\ attached' = [attached EXCEPT ![r] = @ \ {ToClean(r)}]
  /\ Goto(r, "cleanup")
  /\ UNCHANGED <<step, hook>>

(* Fault: nothing is given back unless every direction was attached. *)
ExitEarly(r) ==
  /\ pc[r] = "cleanup" /\ \E i \in DOMAIN Wanted(r) : Wanted(r)[i] \notin attached[r]
  /\ Goto(r, "exit")
  /\ UNCHANGED <<step, attached, tcVars>>

Exit(r) ==
  /\ pc[r] = "cleanup" /\ attached[r] = {}
  /\ Goto(r, "exit")
  /\ UNCHANGED <<step, attached, tcVars>>

-----------------------------------------------------------------------------
(* The environment.                                                        *)

Start(r) ==
  /\ pc[r] = "off"
  /\ Goto(r, "start")
  /\ UNCHANGED <<step, attached, tcVars>>

(* SIGKILL, or the out-of-memory killer. *)
Kill(r) ==
  /\ pc[r] \notin {"off", "exit", "killed"}
  /\ Goto(r, "killed")
  /\ UNCHANGED <<step, attached, tcVars>>

(* Another program adds its own filter at another priority. *)
ForeignAdd(d) ==
  /\ d \notin foreign
  /\ hook' = "present"
  /\ foreign' = foreign \cup {d}
  /\ UNCHANGED <<pc, step, attached, slot>>

-----------------------------------------------------------------------------
Init ==
  /\ pc = [r \in Runs |-> "off"]
  /\ step = [r \in Runs |-> 1]
  /\ attached = [r \in Runs |-> {}]
  /\ hook = "absent"
  /\ slot = [d \in Dirs |-> None]
  /\ foreign = {}

Main(r) ==
  \/ Load(r) \/ CreateHook(r) \/ Attach(r) \/ NewRingBuffer(r) \/ StartFails(r)
  \/ LeaveLoop(r) \/ Detach(r) \/ HookDestroy(r) \/ Exit(r)

Next ==
  \/ \E r \in Runs : Main(r) \/ Start(r) \/ Kill(r)
  \/ \E d \in Dirs : ForeignAdd(d)

Spec == Init /\ [][Next]_vars

-----------------------------------------------------------------------------
(* Properties.                                                             *)

(* Types; a place is taken only while the hook exists. *)
TypeOK ==
  /\ pc \in [Runs -> {"off", "start", "hook", "attach", "ring", "run", "cleanup", "destroy",
                      "exit", "killed"}]
  /\ step \in [Runs -> {1, 2}]
  /\ \A r \in Runs : Tool[r] = "pktrace" => step[r] = 1
  /\ attached \in [Runs -> SUBSET Dirs]
  /\ hook \in {"absent", "present"}
  /\ slot \in [Dirs -> Runs \cup {None}]
  /\ foreign \subseteq Dirs
  /\ hook = "absent" => (foreign = {} /\ \A d \in Dirs : slot[d] = None)

(* While a run believes that it is attached its filter is there: no start, *)
(* failed start, exit or crash of another run takes it away, in particular *)
(* not the flush of a whole direction by bpf_tc_hook_destroy.              *)
OwnFilterStays ==
  \A r \in Runs, d \in Dirs :
    d \in attached[r] /\ pc[r] # "destroy" => slot[d] = r

(* Every way out of main() that is not a kill gives back all that was      *)
(* taken, the start that failed half way (ingress attached, egress not)    *)
(* included.                                                               *)
CleanExit == \A r \in Runs : pc[r] = "exit" => \A d \in Dirs : slot[d] # r

(* A filter that was left behind by a kill stays: no later run can attach  *)
(* in that direction, and none removes it.                                 *)
OrphanBlocks ==
  [][\A d \in Dirs :
       slot[d] # None /\ pc[slot[d]] = "killed" => slot'[d] = slot[d]]_vars
=============================================================================
