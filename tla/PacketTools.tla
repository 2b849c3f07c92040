---------------------------- MODULE PacketTools ----------------------------
(***************************************************************************)
(* Both packet programs on one device: pksniff on one interface, pktrace   *)
(* on the ingress of another one that the packet also passes.  Two         *)
(* programs, written apart, parse the same headers.                        *)
(***************************************************************************)
EXTENDS PacketProgram

CONSTANTS TRACE_BYTES, Payloads

ASSUME TraceAssumption == TRACE_BYTES \in Nat /\ Payloads \subseteq Nat

VARIABLES traced, dropped

Pktrace == INSTANCE Pktrace WITH MAX_CAPTURE_BYTES <- TRACE_BYTES

toolsVars == <<programVars, traced, dropped>>

ToolsInit == ProgramInit /\ Pktrace!Init

ToolsNext == \E c \in CPUs, p \in Packets : process_packet(c, p) /\ Pktrace!pktrace_fn(p)

ToolsSpec == ToolsInit /\ [][ToolsNext]_toolsVars

-----------------------------------------------------------------------------
(* Properties.                                                             *)

(* pktrace_fn and process_packet: when both report a packet, they agree    *)
(* where its transport header and its payload begin and how long it is.    *)
(* And what pktrace reports, pksniff accepts: neither program looks for a  *)
(* header in bytes the other one finds missing.  A packet that pktrace     *)
(* reserved an event for and gave up, because its fixed load of bytes      *)
(* failed, is a short one; pksniff's load in chunks never fails on it.     *)
ProgramsAgree ==
  /\ \A t \in traced :
       /\ Capturable(t.pkt)
       /\ \A e \in events :
            e.pkt = t.pkt =>
              /\ t.event.l4_off = e.l4_off /\ t.event.payload_off = e.payload_off
              /\ t.event.payload_len = e.payload_len /\ t.event.packet_len = e.packet_len
  /\ \A p \in dropped : Capturable(p) /\ p \notin discarded /\ p.len < TRACE_BYTES

(* handle_event of pktrace: the payload bytes it prints and the bytes it   *)
(* writes to the pcap file are bytes of the packet that were captured,     *)
(* also when the headers are longer than the capture.                      *)
PreviewInside ==
  \A t \in traced :
    /\ t.out.payload_show > 0 => t.event.payload_off + t.out.payload_show <= TRACE_BYTES
    /\ t.out.payload_avail <= t.event.payload_len
    /\ t.out.incl_len <= TRACE_BYTES /\ t.out.incl_len <= t.event.packet_len
=============================================================================
