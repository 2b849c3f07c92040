------------------------------ MODULE Pktrace ------------------------------
(***************************************************************************)
(* pktrace (pktrace_v2): the TC ingress program pktrace_fn and the         *)
(* callback handle_event that prints an event and writes it to the pcap    *)
(* file.                                                                   *)
(*                                                                         *)
(* The program keeps no state between packets; the ring buffer is that of  *)
(* module ProbeTool, so an event is shown here together with what the      *)
(* callback makes of it.  Packets are those of module PacketProgram.       *)
(***************************************************************************)
EXTENDS Integers, FiniteSetsExt

CONSTANTS
  MAX_CAPTURE_BYTES,  \* 64 in the code
  Payloads            \* values of the option --payload

VARIABLES
  traced,             \* what became of the last packet: its event and output, if any
  dropped             \* the last packet, if its event was reserved and discarded

ETH == 14             \* sizeof(struct ethhdr)
IPHDR == 20
TCPHDR == 20
UDPHDR == 8

-----------------------------------------------------------------------------
(* pktrace_fn.                                                             *)

ip_hdr_len(p) == 4 * p.ihl
l4_off(p) == ETH + ip_hdr_len(p)
tcp_hdr_len(p) == Max({4 * p.doff, TCPHDR})

payload_off(p) ==
  CASE p.proto = "tcp" -> l4_off(p) + tcp_hdr_len(p)
    [] p.proto = "udp" -> l4_off(p) + UDPHDR
    [] OTHER -> l4_off(p)

(* Fault: the fixed part of the TCP header is all that is looked for. *)
HeadersInNoOptions(p) ==
  /\ p.linear >= ETH /\ p.eth = "ip"
  /\ p.linear >= ETH + IPHDR /\ ip_hdr_len(p) >= IPHDR /\ p.linear >= l4_off(p)
  /\ p.proto = "tcp" => p.linear >= l4_off(p) + TCPHDR
  /\ p.proto = "udp" => p.linear >= l4_off(p) + UDPHDR

(* The tests before the reservation, all against the linear part. *)
HeadersIn(p) ==
  /\ p.linear >= ETH /\ p.eth = "ip"
  /\ p.linear >= ETH + IPHDR /\ ip_hdr_len(p) >= IPHDR /\ p.linear >= l4_off(p)
  /\ p.proto = "tcp" => /\ p.linear >= l4_off(p) + TCPHDR
                        /\ p.linear >= l4_off(p) + tcp_hdr_len(p)
  /\ p.proto = "udp" => p.linear >= l4_off(p) + UDPHDR

(* bpf_skb_load_bytes of a fixed number of bytes. *)
Loads(p) == p.len >= MAX_CAPTURE_BYTES

Event(p) ==
  [packet_len |-> p.len, cap_len |-> Min({p.len, MAX_CAPTURE_BYTES}),
   l4_off |-> l4_off(p), payload_off |-> payload_off(p),
   payload_len |-> IF p.len > payload_off(p) THEN (p.len - payload_off(p)) % 65536 ELSE 0]

-----------------------------------------------------------------------------
(* handle_event: the bytes of the packet that are printed, and the bytes   *)
(* written to the pcap file.                                               *)

payload_preview(n) == Min({n, MAX_CAPTURE_BYTES})

(* Fault: the payload is taken to begin inside the captured bytes; the     *)
(* difference is unsigned.                                                 *)
PayloadAvailUnsigned(e) == (e.cap_len - e.payload_off) % 65536

payload_avail(e) == IF e.payload_off < e.cap_len THEN e.cap_len - e.payload_off ELSE 0

handle_event(e, n) ==
  [payload_avail |-> payload_avail(e),
   payload_show  |-> Min({payload_avail(e), payload_preview(n)}),
   incl_len      |-> e.cap_len]

-----------------------------------------------------------------------------
Init == traced = {} /\ dropped = {}

(* Passed by before the reservation. *)
Ignore(p) == ~HeadersIn(p) /\ traced' = {} /\ dropped' = {}

(* No room in the ring buffer. *)
NoRoom(p) == HeadersIn(p) /\ traced' = {} /\ dropped' = {}

(* Reserved and then discarded: the bytes cannot be loaded. *)
Discard(p) ==
  /\ HeadersIn(p) /\ ~Loads(p)
  /\ traced' = {} /\ dropped' = {p}

Trace(p, n) ==
  /\ HeadersIn(p) /\ Loads(p)
  /\ traced' = {[pkt |-> p, event |-> Event(p), out |-> handle_event(Event(p), n)]}
  /\ dropped' = {}

pktrace_fn(p) == Ignore(p) \/ NoRoom(p) \/ Discard(p) \/ \E n \in Payloads : Trace(p, n)
=============================================================================
