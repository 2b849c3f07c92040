------------------------ MODULE PacketTools_proofs ------------------------
(***************************************************************************)
(* Proofs about the tools that look at packets.                            *)
(*                                                                         *)
(* Of PacketTools, for any number of CPUs, any set of packets and any      *)
(* values of the limits.  The inductive invariant (ProgramInv) says of an  *)
(* event only that a captured packet and some scratch event made it; what  *)
(* the properties say of an event then has to follow from the program      *)
(* alone, whatever an earlier packet left behind.  For the server name     *)
(* and the DNS name this takes a second induction, over the turns of the   *)
(* parser's loop: Walked and Turned say where the loop is after n turns.   *)
(* The recursive functions of the model are shown to exist, step by step   *)
(* (StepsExist, WalkExists, TurnsExist), before their values are used.     *)
(*                                                                         *)
(* Of TcTools, for any number of runs of the two tools on one interface.   *)
(* The inductive invariant says that what a main() remembers having        *)
(* attached is exactly what it has in the kernel: attached[r] and slot     *)
(* agree in both directions, whatever the other runs do.                   *)
(***************************************************************************)
EXTENDS TcTools, PacketTools, TLAPS, FiniteSetTheorems, SequenceTheorems, WellFoundedInduction

-----------------------------------------------------------------------------
(* Numbers.                                                                *)

LEMMA MinOfTwo == \A x, y \in Int : Min({x, y}) = IF x <= y THEN x ELSE y
BY DEF Min

LEMMA MaxOfTwo == \A x, y \in Int : Max({x, y}) = IF x >= y THEN x ELSE y
BY DEF Max

(* The least and the greatest element, given one. *)
LEMMA MinIs ==
  ASSUME NEW S \in SUBSET Int, NEW m \in S, \A j \in S : m <= j
  PROVE  Min(S) = m
<1>1. \A x \in S : (\A j \in S : x <= j) => x = m
  OBVIOUS
<1> QED
  BY <1>1 DEF Min

LEMMA MaxIs ==
  ASSUME NEW S \in SUBSET Int, NEW m \in S, \A j \in S : j <= m
  PROVE  Max(S) = m
<1>1. \A x \in S : (\A j \in S : j <= x) => x = m
  OBVIOUS
<1> QED
  BY <1>1 DEF Max

(* The length byte before a label, and the one that ends a name. *)
LEMMA ByteRanges ==
  /\ \A x \in 1..191 : x \in Nat /\ x >= 1 /\ x <= 191
  /\ \A x \in 192..255 : x \in Nat /\ x >= 192
OBVIOUS

LEMMA Assoc == \A x, k, y \in Nat : x + (k + y) = x + k + y
OBVIOUS

(* The same operators as module Pktrace has them. *)
LEMMA PktraceMinMax ==
  \A x, y \in Int : /\ Pktrace!Min({x, y}) = IF x <= y THEN x ELSE y
                    /\ Pktrace!Max({x, y}) = IF x >= y THEN x ELSE y
BY DEF Pktrace!Min, Pktrace!Max

(* The length of a capture: whole chunks, as many as there are. *)
LEMMA Rounded ==
  \A n \in Nat : /\ n - (n % 16) \in Nat /\ n - (n % 16) <= n /\ n < n - (n % 16) + 16
                 /\ \A k \in Nat : 16 * k < n - (n % 16) => 16 * k + 16 <= n - (n % 16)
                 /\ \A m \in Nat : n <= m /\ m % 16 = 0 => n - (n % 16) <= m
BY Z3

-----------------------------------------------------------------------------
(* Headers.                                                                *)

(* The offsets are in order, and the payload begins in the linear part. *)
LEMMA Headers ==
  ASSUME NEW p, IsPacket(p)
  PROVE  /\ l4_off(p) \in Nat /\ payload_off(p) \in Nat
         /\ ETH <= l4_off(p) /\ l4_off(p) <= payload_off(p)
         /\ Capturable(p) => payload_off(p) <= p.linear /\ (p.eth = "arp" \/ p.eth = "ip")
         /\ p.linear \in Nat /\ p.len \in Nat /\ p.linear <= p.len
<1>1. p.ihl \in Nat /\ p.doff \in Nat /\ p.linear \in Nat /\ p.len \in Nat /\ p.linear <= p.len
  BY DEF IsPacket
<1>2. l4_off(p) \in Nat /\ ETH <= l4_off(p)
  BY <1>1 DEF l4_off, ETH
<1>3. HeaderLen(p) \in Nat
  <2>1. Max({4 * p.doff, 20}) \in Nat
    BY <1>1, MaxOfTwo
  <2> QED
    BY <2>1 DEF HeaderLen
<1>4. Capturable(p) => payload_off(p) <= p.linear
  <2>1. CASE p.eth = "arp"
    BY <1>1, <2>1 DEF Capturable, payload_off, l4_off, HeaderLen, ETH
  <2>2. CASE p.eth # "arp"
    BY <1>1, <1>2, <1>3, <2>2 DEF Capturable, payload_off
  <2> QED
    BY <2>1, <2>2
<1> QED
  BY <1>1, <1>2, <1>3, <1>4 DEF payload_off, Capturable

(* Whatever its length, all chunks of a packet load. *)
LEMMA Captured ==
  ASSUME NEW p, IsPacket(p)
  PROVE  /\ CapLen(p) \in Nat /\ CapLen(p) <= p.len
         /\ p.len - CapLen(p) < 16 \/ CapLen(p) = MAX_CAPTURE_BYTES
         /\ ChunksLoad(p)
<1>1. p.len \in Nat /\ MAX_CAPTURE_BYTES \in Nat /\ MAX_CAPTURE_BYTES % 16 = 0
  BY ProgramAssumption DEF IsPacket
<1>2. PICK n \in Nat : n = Min({p.len, MAX_CAPTURE_BYTES}) /\ n <= p.len /\ (n = p.len \/ n = MAX_CAPTURE_BYTES)
  <2>1. Min({p.len, MAX_CAPTURE_BYTES}) = IF p.len <= MAX_CAPTURE_BYTES THEN p.len ELSE MAX_CAPTURE_BYTES
    BY <1>1, MinOfTwo
  <2> QED
    BY <1>1, <2>1
<1>3. CapLen(p) = n - (n % 16)
  BY <1>2 DEF CapLen
<1>4. PICK m \in Nat : /\ m = n - (n % 16) /\ m <= n /\ n < m + 16
                       /\ \A k \in Nat : 16 * k < m => 16 * k + 16 <= m
  BY Rounded
<1>5. n = MAX_CAPTURE_BYTES => m = MAX_CAPTURE_BYTES
  BY <1>1, <1>4
<1>6. ChunksLoad(p)
  <2> SUFFICES ASSUME NEW k \in 0..(MAX_CAPTURE_BYTES \div 16 - 1), 16 * k < m
               PROVE  16 * k + 16 <= p.len
    BY <1>3, <1>4 DEF ChunksLoad
  <2>1. k \in Nat
    OBVIOUS
  <2>2. 16 * k + 16 <= m
    BY <1>4, <2>1
  <2> QED
    BY <1>1, <1>2, <1>4, <2>1, <2>2
<1>7. m <= p.len /\ (p.len - m < 16 \/ m = MAX_CAPTURE_BYTES)
  <2>1. p.len \in Nat /\ n \in Nat /\ m \in Nat /\ n <= p.len /\ m <= n /\ n < m + 16
    BY <1>1, <1>2, <1>4
  <2>2. CASE n = p.len
    BY <2>1, <2>2
  <2>3. CASE n = MAX_CAPTURE_BYTES
    BY <1>5, <2>1, <2>3
  <2> QED
    BY <1>2, <2>2, <2>3
<1>8. CapLen(p) = m
  BY <1>3, <1>4
<1> QED
  BY <1>6, <1>7, <1>8
-----------------------------------------------------------------------------
(* The scratch event and the events made from it.                          *)

IsArray(a, n) == a = [i \in 0..(n - 1) |-> a[i]]

(* Strings of the right size, whatever they hold. *)
IsScratch(s) ==
  \E a, b, h : /\ s = [dns_name |-> a, tls_sni |-> b, http_info |-> h]
               /\ IsArray(a, MAX_DNS_NAME) /\ IsArray(b, MAX_TLS_SNI)

(* An event describes a packet that was captured, with the strings that    *)
(* were left in the scratch event by whatever came before.                 *)
Made(e) ==
  \E p, s : /\ p \in Packets /\ Capturable(p) /\ IsScratch(s)
            /\ e = Event(p, Hinted(Cleared(s), p))

ProgramInv ==
  /\ scratch = [c \in CPUs |-> scratch[c]]
  /\ \A c \in CPUs : IsScratch(scratch[c])
  /\ discarded = {}
  /\ \A e \in events : Made(e)

(* A DNS name has room for at least one character. *)
LEMMA NameRoom == MAX_DNS_NAME \in Nat \ {0}
<1>1. \A x, y \in Nat \ {0} : x * (y + 1) >= 1 /\ x * (y + 1) \in Nat
  BY Z3
<1>2. PICK z \in Nat : z = DNS_LABELS * (LABEL_CHARS + 1) /\ z >= 1 /\ z <= MAX_DNS_NAME
  BY <1>1, ProgramAssumption
<1> QED
  BY <1>2, ProgramAssumption

LEMMA ScratchOf ==
  ASSUME NEW a, NEW b, NEW h, IsArray(a, MAX_DNS_NAME), IsArray(b, MAX_TLS_SNI)
  PROVE  IsScratch([dns_name |-> a, tls_sni |-> b, http_info |-> h])
BY Zenon DEF IsScratch

(* A cleared scratch event holds empty strings. *)
LEMMA ClearedScratch ==
  ASSUME NEW s, IsScratch(s)
  PROVE  /\ IsScratch(Cleared(s))
         /\ Cleared(s).dns_name[0] = NUL /\ Cleared(s).tls_sni[0] = NUL
         /\ Cleared(s).http_info = <<>>
<1>1. PICK a, b, h : /\ s = [dns_name |-> a, tls_sni |-> b, http_info |-> h]
                     /\ IsArray(a, MAX_DNS_NAME) /\ IsArray(b, MAX_TLS_SNI)
  BY DEF IsScratch
<1>2. PICK a2, b2 : a2 = [a EXCEPT ![0] = NUL] /\ b2 = [b EXCEPT ![0] = NUL]
  OBVIOUS
<1>3. Cleared(s) = [dns_name |-> a2, tls_sni |-> b2, http_info |-> <<>>]
  <2>1. s.dns_name = a /\ s.tls_sni = b
    BY <1>1
  <2> QED
    BY <1>2, <2>1 DEF Cleared
<1>4. MAX_DNS_NAME \in Nat \ {0} /\ MAX_TLS_SNI \in Nat \ {0}
  BY NameRoom, ProgramAssumption
<1>5. IsArray(a2, MAX_DNS_NAME) /\ IsArray(b2, MAX_TLS_SNI) /\ a2[0] = NUL /\ b2[0] = NUL
  <2>1. DOMAIN a = 0..(MAX_DNS_NAME - 1) /\ DOMAIN b = 0..(MAX_TLS_SNI - 1)
    BY <1>1 DEF IsArray
  <2>2. a2 = [i \in 0..(MAX_DNS_NAME - 1) |-> IF i = 0 THEN NUL ELSE a[i]]
    BY <1>2, <2>1
  <2>3. b2 = [i \in 0..(MAX_TLS_SNI - 1) |-> IF i = 0 THEN NUL ELSE b[i]]
    BY <1>2, <2>1
  <2>4. IsArray(a2, MAX_DNS_NAME) /\ IsArray(b2, MAX_TLS_SNI)
    BY <2>2, <2>3 DEF IsArray
  <2>5. 0 \in 0..(MAX_DNS_NAME - 1) /\ 0 \in 0..(MAX_TLS_SNI - 1)
    BY <1>4
  <2> QED
    BY <2>2, <2>3, <2>4, <2>5
<1> QED
  BY <1>3, <1>5, ScratchOf

(* No parser writes beyond its string. *)
LEMMA HintedScratch ==
  ASSUME NEW s, IsScratch(s), NEW p
  PROVE  IsScratch(Hinted(s, p))
<1>1. PICK a, b, h : /\ s = [dns_name |-> a, tls_sni |-> b, http_info |-> h]
                     /\ IsArray(a, MAX_DNS_NAME) /\ IsArray(b, MAX_TLS_SNI)
  BY DEF IsScratch
<1>2. IsArray(parse_dns_name(p, a), MAX_DNS_NAME)
  BY <1>1 DEF IsArray, parse_dns_name, Copied
<1>3. IsArray(parse_tls_sni(p, b), MAX_TLS_SNI)
  BY <1>1 DEF IsArray, parse_tls_sni, Copied
<1>4. PICK a2, b2, h2 : /\ Hinted(s, p) = [dns_name |-> a2, tls_sni |-> b2, http_info |-> h2]
                        /\ a2 = a \/ a2 = parse_dns_name(p, a)
                        /\ b2 = b \/ b2 = parse_tls_sni(p, b)
  BY <1>1 DEF Hinted
<1> QED
  BY <1>1, <1>2, <1>3, <1>4 DEF IsScratch

LEMMA ProgramInvInit == ProgramInit => ProgramInv
<1> SUFFICES ASSUME ProgramInit PROVE ProgramInv
  OBVIOUS
<1>1. IsScratch(Blank)
  <2>1. /\ IsArray([i \in 0..(MAX_DNS_NAME - 1) |-> NUL], MAX_DNS_NAME)
        /\ IsArray([i \in 0..(MAX_TLS_SNI - 1) |-> NUL], MAX_TLS_SNI)
    BY DEF IsArray
  <2> QED
    BY <2>1, ScratchOf DEF Blank
<1> QED
  BY <1>1 DEF ProgramInit, ProgramInv

(* One packet, whatever becomes of it. *)
LEMMA ProgramInvStep ==
  ASSUME ProgramInv, NEW c \in CPUs, NEW p \in Packets, process_packet(c, p)
  PROVE  ProgramInv'
<1>0. IsPacket(p) /\ IsScratch(scratch[c])
  BY PacketsAssumption DEF ProgramInv
<1>1. PICK s : /\ IsScratch(s) /\ scratch' = [scratch EXCEPT ![c] = s]
               /\ Capture(c, p) => s = Hinted(Cleared(scratch[c]), p)
  <2>1. IsScratch(Cleared(scratch[c]))
    BY <1>0, ClearedScratch
  <2>2. IsScratch(Hinted(Cleared(scratch[c]), p))
    BY <2>1, HintedScratch
  <2>3. CASE Capture(c, p) \/ NoRoom(c, p)
    BY <2>2, <2>3 DEF Capture, NoRoom
  <2>4. CASE Skip(c, p) /\ ~Capture(c, p)
    <3>1. \/ scratch' = [scratch EXCEPT ![c] = Cleared(scratch[c])]
          \/ scratch' = [scratch EXCEPT ![c] = scratch[c]]
      BY <2>4 DEF Skip, ProgramInv
    <3> QED
      BY <1>0, <2>1, <2>4, <3>1
  <2> QED
    BY <2>3, <2>4 DEF process_packet
<1>2. scratch' = [d \in CPUs |-> scratch'[d]] /\ \A d \in CPUs : IsScratch(scratch'[d])
  BY <1>1 DEF ProgramInv
<1>3. discarded' = {} /\ \A e \in events' : Made(e)
  <2>1. CASE Capture(c, p)
    <3>1. ChunksLoad(p)
      BY <1>0, Captured
    <3>2. scratch'[c] = Hinted(Cleared(scratch[c]), p)
      BY <1>1, <2>1 DEF ProgramInv
    <3>3. discarded' = discarded /\ events' = events \cup {Event(p, scratch'[c])} /\ Capturable(p)
      BY <2>1, <3>1 DEF Capture
    <3>4. Made(Event(p, scratch'[c]))
      BY <1>0, <3>2, <3>3 DEF Made
    <3> QED
      BY <3>3, <3>4 DEF ProgramInv
  <2>2. CASE Skip(c, p) \/ NoRoom(c, p)
    BY <2>2 DEF Skip, NoRoom, ProgramInv
  <2> QED
    BY <2>1, <2>2 DEF process_packet
<1> QED
  BY <1>2, <1>3 DEF ProgramInv

-----------------------------------------------------------------------------
(* What an event says of its packet. *)
LEMMA MadeFields ==
  ASSUME NEW e, Made(e)
  PROVE  \E p \in Packets :
           /\ e.pkt = p /\ Capturable(p) /\ e.app_tag = app_tag(p)
           /\ e.l4_off = l4_off(p) /\ e.payload_off = payload_off(p)
           /\ e.payload_len = IF p.eth = "ip" /\ p.len > payload_off(p)
                                THEN (p.len - payload_off(p)) % 65536 ELSE 0
           /\ e.packet_len = p.len /\ e.cap_len = CapLen(p)
BY DEF Made, Event

(* What fits in 16 bits is not cut. *)
LEMMA Short == \A x \in Nat : x < 65536 => x % 65536 = x
OBVIOUS

LEMMA Difference == \A x, y \in Nat : 14 <= y /\ y <= x /\ x <= 14 + 65535 => x - y \in Nat /\ x - y < 65536
OBVIOUS

(* The payload is never so long that its 16 bits overflow. *)
LEMMA PayloadLen ==
  ASSUME NEW p, IsPacket(p), Capturable(p), p.eth = "ip"
  PROVE  (IF p.len > payload_off(p) THEN (p.len - payload_off(p)) % 65536 ELSE 0)
           = p.len - payload_off(p)
<1>1. /\ p.len \in Nat /\ payload_off(p) \in Nat /\ payload_off(p) <= p.len
      /\ p.len <= 14 + 65535 /\ 14 <= payload_off(p)
  BY Headers DEF IsPacket, ETH
<1>2. p.len - payload_off(p) \in Nat /\ p.len - payload_off(p) < 65536
  BY <1>1, Difference
<1>3. (p.len - payload_off(p)) % 65536 = p.len - payload_off(p)
  BY <1>2, Short
<1> QED
  BY <1>1, <1>3

(* What OffsetsInside says of one event. *)
LEMMA MadeInside ==
  ASSUME NEW e, Made(e)
  PROVE  /\ ETH <= e.l4_off /\ e.l4_off <= e.payload_off /\ e.payload_off <= e.pkt.linear
         /\ e.pkt.eth = "ip" => e.payload_off + e.payload_len = e.packet_len
         /\ e.cap_len <= e.packet_len
         /\ e.packet_len - e.cap_len < 16 \/ e.cap_len = MAX_CAPTURE_BYTES
<1>1. PICK p \in Packets :
           /\ e.pkt = p /\ Capturable(p)
           /\ e.l4_off = l4_off(p) /\ e.payload_off = payload_off(p)
           /\ e.payload_len = IF p.eth = "ip" /\ p.len > payload_off(p)
                                THEN (p.len - payload_off(p)) % 65536 ELSE 0
           /\ e.packet_len = p.len /\ e.cap_len = CapLen(p)
  BY MadeFields
<1>2. IsPacket(p)
  BY PacketsAssumption
<1>3. p.eth = "ip" => e.payload_len = p.len - payload_off(p)
  BY <1>1, <1>2, PayloadLen
<1>4. p.eth = "ip" => payload_off(p) + e.payload_len = p.len
  BY <1>2, <1>3, Headers
<1> QED
  BY <1>1, <1>2, <1>4, Headers, Captured

(* What pktrace reports, and what it gives up. *)
TraceInv ==
  /\ \A t \in traced : \E p \in Packets, n \in Payloads :
       /\ Pktrace!HeadersIn(p) /\ Pktrace!Loads(p)
       /\ t = [pkt |-> p, event |-> Pktrace!Event(p), out |-> Pktrace!handle_event(Pktrace!Event(p), n)]
  /\ \A p \in dropped : p \in Packets /\ Pktrace!HeadersIn(p) /\ ~Pktrace!Loads(p)

(* One packet of pktrace. *)
LEMMA TraceInvStep ==
  ASSUME NEW p \in Packets, Pktrace!pktrace_fn(p)
  PROVE  TraceInv'
<1>1. CASE Pktrace!Ignore(p) \/ Pktrace!NoRoom(p)
  BY <1>1 DEF Pktrace!Ignore, Pktrace!NoRoom, TraceInv
<1>2. CASE Pktrace!Discard(p)
  BY <1>2 DEF Pktrace!Discard, TraceInv
<1>3. ASSUME NEW n \in Payloads, Pktrace!Trace(p, n) PROVE TraceInv'
  BY <1>3 DEF Pktrace!Trace, TraceInv
<1> QED
  BY <1>1, <1>2, <1>3 DEF Pktrace!pktrace_fn

(* The inductive invariant of the two programs together. *)
LEMMA ToolsInv == ToolsSpec => [](ProgramInv /\ TraceInv)
<1>1. ToolsInit => ProgramInv /\ TraceInv
  BY ProgramInvInit DEF ToolsInit, Pktrace!Init, TraceInv
<1>2. ProgramInv /\ TraceInv /\ [ToolsNext]_toolsVars => ProgramInv' /\ TraceInv'
  <2>1. ASSUME ProgramInv, ToolsNext PROVE ProgramInv' /\ TraceInv'
    BY <2>1, ProgramInvStep, TraceInvStep DEF ToolsNext
  <2>2. ASSUME ProgramInv, TraceInv, UNCHANGED toolsVars PROVE ProgramInv' /\ TraceInv'
    BY <2>2 DEF ProgramInv, TraceInv, toolsVars, programVars
  <2> QED
    BY <2>1, <2>2
<1> QED
  BY <1>1, <1>2, PTL DEF ToolsSpec

(* process_packet never reads, captures or points outside its packet, and  *)
(* never gives up an event, whatever the packets are.                      *)
THEOREM OffsetsSafe == ToolsSpec => []OffsetsInside
<1>1. ProgramInv => OffsetsInside
  BY MadeInside DEF ProgramInv, OffsetsInside
<1> QED
  BY <1>1, ToolsInv, PTL

(* The two programs look at the same headers. *)
LEMMA SameHeaders ==
  ASSUME NEW p, IsPacket(p), Pktrace!HeadersIn(p)
  PROVE  /\ Capturable(p) /\ p.eth = "ip"
         /\ Pktrace!l4_off(p) = l4_off(p) /\ Pktrace!payload_off(p) = payload_off(p)
<1>1. p.eth = "ip" /\ p.ihl \in Nat /\ p.doff \in Nat /\ p.linear \in Nat
  BY DEF Pktrace!HeadersIn, IsPacket
<1>2. Pktrace!l4_off(p) = l4_off(p) /\ l4_off(p) \in Nat
  BY <1>1 DEF Pktrace!l4_off, l4_off, Pktrace!ip_hdr_len, Pktrace!ETH, ETH
<1>3. Pktrace!tcp_hdr_len(p) = Max({4 * p.doff, 20}) /\ Max({4 * p.doff, 20}) \in Nat
  <2>1. PICK x \in Nat : x = 4 * p.doff
    BY <1>1
  <2>2. Max({x, 20}) \in Nat /\ Max({x, 20}) = IF x >= 20 THEN x ELSE 20
    BY MaxOfTwo
  <2>3. Pktrace!Max({x, 20}) = IF x >= 20 THEN x ELSE 20
    BY PktraceMinMax
  <2>4. Pktrace!tcp_hdr_len(p) = Pktrace!Max({x, 20})
    BY <2>1 DEF Pktrace!tcp_hdr_len, Pktrace!TCPHDR
  <2> QED
    BY <2>1, <2>2, <2>3, <2>4
<1>4. Pktrace!payload_off(p) = payload_off(p)
  <2>1. CASE p.proto = "tcp"
    BY <1>1, <1>2, <1>3, <2>1 DEF Pktrace!payload_off, payload_off, HeaderLen
  <2>2. CASE p.proto = "udp"
    BY <1>1, <1>2, <2>2 DEF Pktrace!payload_off, payload_off, HeaderLen, Pktrace!UDPHDR
  <2>3. CASE p.proto \notin {"tcp", "udp"}
    BY <1>1, <1>2, <2>3 DEF Pktrace!payload_off, payload_off, HeaderLen
  <2> QED
    BY <2>1, <2>2, <2>3
<1>5. p.linear >= Pktrace!payload_off(p)
  BY <1>1, <1>2, <1>3 DEF Pktrace!HeadersIn, Pktrace!payload_off
<1>6. p.linear >= 14 /\ p.linear >= 14 + 20 /\ p.ihl >= 5 /\ p.linear >= l4_off(p)
  BY <1>1, <1>2 DEF Pktrace!HeadersIn, Pktrace!ip_hdr_len, Pktrace!ETH, Pktrace!IPHDR
<1> QED
  BY <1>1, <1>2, <1>4, <1>5, <1>6 DEF Capturable, ETH

(* What a trace says of its packet, in the terms of pksniff. *)
LEMMA TracedPacket ==
  ASSUME TraceInv, NEW t \in traced
  PROVE  \E p \in Packets, n \in Nat :
           /\ t.pkt = p /\ Capturable(p) /\ p.eth = "ip" /\ p.len >= TRACE_BYTES
           /\ t.event.l4_off = l4_off(p) /\ t.event.payload_off = payload_off(p)
           /\ t.event.payload_len = p.len - payload_off(p) /\ t.event.packet_len = p.len
           /\ t.event.cap_len = Pktrace!Min({p.len, TRACE_BYTES})
           /\ t.out = Pktrace!handle_event(t.event, n)
<1>1. PICK p \in Packets, n \in Payloads :
        /\ Pktrace!HeadersIn(p) /\ Pktrace!Loads(p)
        /\ t = [pkt |-> p, event |-> Pktrace!Event(p), out |-> Pktrace!handle_event(Pktrace!Event(p), n)]
  BY DEF TraceInv
<1>2. /\ Capturable(p) /\ p.eth = "ip" /\ IsPacket(p)
      /\ Pktrace!l4_off(p) = l4_off(p) /\ Pktrace!payload_off(p) = payload_off(p)
  BY <1>1, SameHeaders, PacketsAssumption
<1>3. /\ t.pkt = p /\ t.event = Pktrace!Event(p) /\ t.out = Pktrace!handle_event(t.event, n)
  BY <1>1
<1>4. /\ t.event.l4_off = l4_off(p) /\ t.event.payload_off = payload_off(p)
      /\ t.event.packet_len = p.len /\ t.event.cap_len = Pktrace!Min({p.len, TRACE_BYTES})
      /\ t.event.payload_len = IF p.len > payload_off(p) THEN (p.len - payload_off(p)) % 65536 ELSE 0
  BY <1>2, <1>3 DEF Pktrace!Event
<1>5. t.event.payload_len = p.len - payload_off(p)
  BY <1>2, <1>4, PayloadLen
<1>6. n \in Nat /\ p.len >= TRACE_BYTES
  BY <1>1, TraceAssumption DEF Pktrace!Loads
<1>7. n \in Nat
  BY <1>6
<1> WITNESS p \in Packets, n \in Nat
<1> QED
  BY <1>2, <1>3, <1>4, <1>5, <1>6

(* Whatever packets there are, the two programs place the headers and the  *)
(* payload alike, and pktrace only gives up packets shorter than its load. *)
THEOREM ToolsAgree == ToolsSpec => []ProgramsAgree
<1>1. ASSUME ProgramInv, TraceInv PROVE ProgramsAgree
  <2>1. ASSUME NEW t \in traced
        PROVE  /\ Capturable(t.pkt)
               /\ \A e \in events :
                    e.pkt = t.pkt =>
                      /\ t.event.l4_off = e.l4_off /\ t.event.payload_off = e.payload_off
                      /\ t.event.payload_len = e.payload_len /\ t.event.packet_len = e.packet_len
    <3>1. PICK p \in Packets :
           /\ t.pkt = p /\ Capturable(p) /\ p.eth = "ip"
           /\ t.event.l4_off = l4_off(p) /\ t.event.payload_off = payload_off(p)
           /\ t.event.payload_len = p.len - payload_off(p) /\ t.event.packet_len = p.len
      BY <1>1, TracedPacket
    <3>2. ASSUME NEW e \in events, e.pkt = p
          PROVE  /\ e.l4_off = l4_off(p) /\ e.payload_off = payload_off(p) /\ e.packet_len = p.len
                 /\ e.payload_len = p.len - payload_off(p)
      <4>1. /\ e.l4_off = l4_off(p) /\ e.payload_off = payload_off(p) /\ e.packet_len = p.len
            /\ e.payload_len = IF p.eth = "ip" /\ p.len > payload_off(p)
                                 THEN (p.len - payload_off(p)) % 65536 ELSE 0
        BY <1>1, <3>2, MadeFields DEF ProgramInv
      <4> QED
        BY <3>1, <4>1, PayloadLen, PacketsAssumption
    <3> QED
      BY <3>1, <3>2
  <2>2. ASSUME NEW p \in dropped PROVE Capturable(p) /\ p \notin discarded /\ p.len < TRACE_BYTES
    <3>1. p \in Packets /\ IsPacket(p) /\ Pktrace!HeadersIn(p) /\ ~(p.len >= TRACE_BYTES)
      BY <1>1, <2>2, PacketsAssumption DEF TraceInv, Pktrace!Loads
    <3>2. p.len \in Nat /\ TRACE_BYTES \in Nat
      BY <3>1, TraceAssumption DEF IsPacket
    <3> QED
      BY <1>1, <3>1, <3>2, SameHeaders DEF ProgramInv
  <2> QED
    BY <2>1, <2>2 DEF ProgramsAgree
<1> QED
  BY <1>1, ToolsInv, PTL

(* handle_event of pktrace prints and writes captured bytes of the packet  *)
(* only, whatever --payload says and however long the headers are.         *)
THEOREM PreviewSafe == ToolsSpec => []PreviewInside
<1>1. ASSUME TraceInv PROVE PreviewInside
  <2> SUFFICES ASSUME NEW t \in traced
               PROVE  /\ t.out.payload_show > 0 => t.event.payload_off + t.out.payload_show <= TRACE_BYTES
                      /\ t.out.payload_avail <= t.event.payload_len
                      /\ t.out.incl_len <= TRACE_BYTES /\ t.out.incl_len <= t.event.packet_len
    BY DEF PreviewInside
  <2>1. PICK p \in Packets, n \in Nat :
           /\ Capturable(p) /\ p.eth = "ip" /\ p.len >= TRACE_BYTES
           /\ t.event.payload_off = payload_off(p)
           /\ t.event.payload_len = p.len - payload_off(p) /\ t.event.packet_len = p.len
           /\ t.event.cap_len = Pktrace!Min({p.len, TRACE_BYTES})
           /\ t.out = Pktrace!handle_event(t.event, n)
    BY <1>1, TracedPacket
  <2>2. /\ p.len \in Nat /\ TRACE_BYTES \in Nat /\ payload_off(p) \in Nat /\ payload_off(p) <= p.len
    BY <2>1, Headers, TraceAssumption, PacketsAssumption
  <2>3. t.event.cap_len = TRACE_BYTES
    BY <2>1, <2>2, PktraceMinMax
  <2>4. PICK avail \in Nat :
          /\ avail = Pktrace!payload_avail(t.event)
          /\ payload_off(p) + avail <= TRACE_BYTES \/ avail = 0
          /\ avail <= p.len - payload_off(p)
    BY <2>1, <2>2, <2>3 DEF Pktrace!payload_avail
  <2>5. PICK show \in Nat : show = Pktrace!Min({avail, Pktrace!payload_preview(n)}) /\ show <= avail
    <3>1. Pktrace!payload_preview(n) \in Nat
      BY <2>2, PktraceMinMax DEF Pktrace!payload_preview
    <3>2. Pktrace!Min({avail, Pktrace!payload_preview(n)}) \in Nat /\ Pktrace!Min({avail, Pktrace!payload_preview(n)}) <= avail
      BY <3>1, PktraceMinMax
    <3> QED
      BY <3>2
  <2>6. t.out.payload_avail = avail /\ t.out.payload_show = show /\ t.out.incl_len = TRACE_BYTES
    BY <2>1, <2>3, <2>4, <2>5 DEF Pktrace!handle_event
  <2> QED
    BY <2>1, <2>2, <2>4, <2>5, <2>6
<1> QED
  BY <1>1, ToolsInv, PTL

-----------------------------------------------------------------------------
(* Recursive functions.                                                    *)

(* Every set of numbers that is not empty has a least element. *)
LEMMA Least == ASSUME NEW T \in SUBSET Nat, T # {} PROVE \E n \in T : \A m \in T : n <= m
<1>1. PICK R : R = OpToRel(<, Nat)
  OBVIOUS
<1>2. IsWellFoundedOn(R, Nat)
  BY <1>1, NatLessThanWellFounded
<1>3. PICK n \in T : \A m \in T : ~(<<m, n>> \in R)
  BY <1>2, WFMin
<1>4. \A m \in T : ~(m < n)
  BY <1>1, <1>3 DEF OpToRel
<1> QED
  BY <1>4

(* What holds of 0, and of i whenever it holds of i - 1, holds of all      *)
(* numbers up to n: no set that lacks it has a least element.              *)
LEMMA UpTo ==
  ASSUME NEW n \in Nat, NEW G, 0 \in G, \A i \in 1..n : i - 1 \in G => i \in G
  PROVE  \A i \in 0..n : i \in G
<1> DEFINE T == {i \in 0..n : i \notin G}
<1> SUFFICES ASSUME T # {} PROVE FALSE
  OBVIOUS
<1>1. PICK m \in T : \A k \in T : m <= k
  <2>1. T \in SUBSET Nat
    OBVIOUS
  <2> QED
    BY <2>1, Least
<1>2. m \in 1..n /\ m - 1 \in 0..n /\ ~(m <= m - 1)
  OBVIOUS
<1>3. m - 1 \in G
  BY <1>1, <1>2
<1> QED
  BY <1>2, <1>3

(* f is computed from b by the steps F[1], F[2], ... *)
Steps(f, S, b, F, n) ==
  /\ f \in [0..n -> S] /\ f[0] = b
  /\ \A i \in 1..n : f[i] = F[i][f[i - 1]]

(* Such a function exists, by the length of its domain. *)
LEMMA StepsExist ==
  ASSUME NEW S, NEW b \in S, NEW n \in Nat, NEW F \in [1..n -> [S -> S]]
  PROVE  \E f : Steps(f, S, b, F, n)
<1> DEFINE G == {i \in 0..n : \E f : Steps(f, S, b, F, i)}
<1>1. 0 \in G
  <2>1. PICK f : f = [i \in 0..0 |-> b]
    OBVIOUS
  <2>2. Steps(f, S, b, F, 0)
    BY <2>1 DEF Steps
  <2> QED
    BY <2>2
<1>2. ASSUME NEW i \in 1..n, i - 1 \in G PROVE i \in G
  <2>1. PICK f : Steps(f, S, b, F, i - 1)
    BY <1>2
  <2>2. f \in [0..(i - 1) -> S] /\ f[0] = b /\ \A j \in 1..(i - 1) : f[j] = F[j][f[j - 1]]
    BY <2>1 DEF Steps
  <2>3. PICK g : g = [j \in 0..i |-> IF j = i THEN F[i][f[i - 1]] ELSE f[j]]
    OBVIOUS
  <2>4. F[i][f[i - 1]] \in S
    BY <2>2
  <2>5. g \in [0..i -> S] /\ g[0] = b
    BY <2>2, <2>3, <2>4
  <2>6. ASSUME NEW j \in 1..i PROVE g[j] = F[j][g[j - 1]]
    <3>1. g[j - 1] = f[j - 1]
      BY <2>3
    <3>2. CASE j = i
      BY <2>3, <3>1, <3>2
    <3>3. CASE j # i
      BY <2>2, <2>3, <3>1, <3>3
    <3> QED
      BY <3>2, <3>3
  <2>7. Steps(g, S, b, F, i)
    BY <2>5, <2>6 DEF Steps
  <2> QED
    BY <2>7
<1>3. \A i \in 0..n : i \in G
  <2> HIDE DEF G
  <2> QED
    BY <1>1, <1>2, UpTo
<1> QED
  BY <1>3

-----------------------------------------------------------------------------
(* Where parts that follow each other end.                                 *)

IsEnds(f, sizes) == f = [n \in 0..Len(sizes) |-> IF n = 0 THEN 0 ELSE f[n - 1] + sizes[n]]

(* What the recursive definition of Ends computes. *)
LEMMA EndsValue ==
  ASSUME NEW sizes \in Seq(Nat)
  PROVE  /\ Ends(sizes) \in [0..Len(sizes) -> Nat] /\ Ends(sizes)[0] = 0
         /\ \A n \in 1..Len(sizes) : Ends(sizes)[n] = Ends(sizes)[n - 1] + sizes[n]
<1> DEFINE F == [i \in 1..Len(sizes) |-> [x \in Nat |-> x + sizes[i]]]
<1>0. Len(sizes) \in Nat /\ \A i \in 1..Len(sizes) : sizes[i] \in Nat
  OBVIOUS
<1>1. PICK f : Steps(f, Nat, 0, F, Len(sizes))
  <2>1. F \in [1..Len(sizes) -> [Nat -> Nat]]
    BY <1>0
  <2> HIDE DEF F
  <2> QED
    BY <1>0, <2>1, StepsExist
<1>2. f \in [0..Len(sizes) -> Nat] /\ f[0] = 0 /\ \A i \in 1..Len(sizes) : f[i] = F[i][f[i - 1]]
  <2> HIDE DEF F
  <2> QED
    BY <1>1 DEF Steps
<1>3. \A i \in 1..Len(sizes) : f[i] = f[i - 1] + sizes[i]
  <2> SUFFICES ASSUME NEW i \in 1..Len(sizes) PROVE f[i] = f[i - 1] + sizes[i]
    OBVIOUS
  <2>1. f[i] = F[i][f[i - 1]]
    BY <1>2
  <2>2. f[i - 1] \in Nat
    <3>1. i - 1 \in 0..Len(sizes)
      BY <1>0
    <3> QED
      BY <1>2, <3>1
  <2>3. F[i] = [x \in Nat |-> x + sizes[i]]
    OBVIOUS
  <2> QED
    BY <2>1, <2>2, <2>3
<1>4. IsEnds(f, sizes)
  BY <1>0, <1>2, <1>3 DEF IsEnds
<1>5. PICK g : g = CHOOSE h : IsEnds(h, sizes)
  OBVIOUS
<1>6. IsEnds(g, sizes)
  BY <1>4, <1>5
<1>7. Ends(sizes) = g
  BY <1>5 DEF Ends, IsEnds
<1>8. g[0] = 0 /\ \A n \in 1..Len(sizes) : g[n] = g[n - 1] + sizes[n]
  BY <1>0, <1>6 DEF IsEnds
<1>9. g \in [0..Len(sizes) -> Nat]
  <2> DEFINE G == {n \in 0..Len(sizes) : g[n] \in Nat}
  <2>1. 0 \in G /\ \A i \in 1..Len(sizes) : i - 1 \in G => i \in G
    BY <1>0, <1>8, SMTT(40)
  <2>2. \A i \in 0..Len(sizes) : i \in G
    <3> HIDE DEF G
    <3> QED
      BY <1>0, <2>1, UpTo
  <2>3. \A i \in 0..Len(sizes) : g[i] \in Nat
    BY <2>2
  <2>4. g = [i \in 0..Len(sizes) |-> g[i]]
    BY <1>6 DEF IsEnds
  <2> QED
    BY <2>3, <2>4
<1> QED
  BY <1>7, <1>8, <1>9

(* Ends are in order. *)
LEMMA EndsGrow ==
  ASSUME NEW sizes \in Seq(Nat), NEW i \in 0..Len(sizes), NEW j \in i..Len(sizes)
  PROVE  Ends(sizes)[i] <= Ends(sizes)[j]
<1> DEFINE e == Ends(sizes)
<1> DEFINE G == {k \in 0..(Len(sizes) - i) : e[i] <= e[i + k]}
<1>0. /\ Len(sizes) \in Nat /\ e \in [0..Len(sizes) -> Nat]
      /\ \A n \in 1..Len(sizes) : e[n] = e[n - 1] + sizes[n] /\ sizes[n] \in Nat
  BY EndsValue
<1> HIDE DEF e
<1>1. 0 \in G
  <2>1. i \in Nat /\ Len(sizes) \in Nat /\ i <= Len(sizes)
    BY <1>0
  <2>2. i + 0 = i /\ 0 \in 0..(Len(sizes) - i)
    BY <2>1
  <2>3. e[i] \in Nat
    BY <1>0
  <2> QED
    BY <2>2, <2>3
<1>2. ASSUME NEW k \in 1..(Len(sizes) - i), k - 1 \in G PROVE k \in G
  <2>1. i + k \in 1..Len(sizes) /\ i + (k - 1) \in 0..Len(sizes) /\ (i + k) - 1 = i + (k - 1)
    BY <1>0
  <2>2. e[i + k] = e[i + (k - 1)] + sizes[i + k] /\ sizes[i + k] \in Nat
    BY <1>0, <2>1
  <2>3. e[i] \in Nat /\ e[i + (k - 1)] \in Nat /\ e[i] <= e[i + (k - 1)]
    BY <1>0, <1>2, <2>1
  <2> QED
    BY <2>2, <2>3
<1>3. \A k \in 0..(Len(sizes) - i) : k \in G
  <2>1. Len(sizes) - i \in Nat
    BY <1>0
  <2> HIDE DEF G
  <2> QED
    BY <1>1, <1>2, <2>1, UpTo
<1>4. j - i \in 0..(Len(sizes) - i) /\ i + (j - i) = j
  BY <1>0
<1>5. e[i] <= e[j]
  BY <1>3, <1>4
<1> QED
  BY <1>5 DEF e

-----------------------------------------------------------------------------
(* The walk over the extensions of a ClientHello.                          *)

(* The extensions of a ClientHello, one behind the other. *)
LEMMA ExtFacts ==
  ASSUME NEW b, IsHello(b)
  PROVE  /\ Len(b.exts) \in Nat /\ ExtEnds(b) \in [0..Len(b.exts) -> Nat] /\ ExtEnds(b)[0] = 0
         /\ \A n \in 1..Len(b.exts) : /\ ExtLen(b.exts[n]) \in Nat /\ IsExtension(b.exts[n])
                                      /\ ExtEnds(b)[n] = ExtEnds(b)[n - 1] + 4 + ExtLen(b.exts[n])
         /\ \A i \in 0..Len(b.exts) : \A j \in i..Len(b.exts) : ExtEnds(b)[i] <= ExtEnds(b)[j]
<1>1. /\ Len(b.exts) \in Nat
      /\ \A n \in 1..Len(b.exts) : IsExtension(b.exts[n])
  BY DEF IsHello
<1>2. \A n \in 1..Len(b.exts) : ExtLen(b.exts[n]) \in Nat
  <2> SUFFICES ASSUME NEW n \in 1..Len(b.exts) PROVE ExtLen(b.exts[n]) \in Nat
    OBVIOUS
  <2>1. CASE b.exts[n].type = "sni"
    <3>1. b.exts[n].name \in Seq(Nat \ {NUL})
      BY <1>1, <2>1 DEF IsExtension
    <3>2. Len(b.exts[n].name) \in Nat
      BY <3>1
    <3> QED
      BY <2>1, <3>2 DEF ExtLen
  <2>2. CASE b.exts[n].type # "sni"
    BY <1>1, <2>2 DEF IsExtension, ExtLen
  <2> QED
    BY <2>1, <2>2
<1>3. PICK sizes : sizes = [i \in 1..Len(b.exts) |-> 4 + ExtLen(b.exts[i])]
  OBVIOUS
<1>4. sizes \in Seq(Nat) /\ Len(sizes) = Len(b.exts)
  BY <1>1, <1>2, <1>3
<1>5. ExtEnds(b) = Ends(sizes)
  BY <1>3 DEF ExtEnds
<1>6. /\ Ends(sizes) \in [0..Len(sizes) -> Nat] /\ Ends(sizes)[0] = 0
      /\ \A n \in 1..Len(sizes) : Ends(sizes)[n] = Ends(sizes)[n - 1] + sizes[n]
  BY <1>4, EndsValue
<1>7. \A n \in 1..Len(b.exts) : ExtEnds(b)[n] = ExtEnds(b)[n - 1] + 4 + ExtLen(b.exts[n])
  <2> SUFFICES ASSUME NEW n \in 1..Len(b.exts)
               PROVE  ExtEnds(b)[n] = ExtEnds(b)[n - 1] + 4 + ExtLen(b.exts[n])
    OBVIOUS
  <2>1. n - 1 \in 0..Len(sizes) /\ n \in 1..Len(sizes)
    BY <1>1, <1>4
  <2>2. Ends(sizes)[n - 1] \in Nat /\ sizes[n] = 4 + ExtLen(b.exts[n]) /\ ExtLen(b.exts[n]) \in Nat
    BY <1>2, <1>3, <1>6, <2>1
  <2>3. Ends(sizes)[n] = Ends(sizes)[n - 1] + sizes[n]
    BY <1>6, <2>1
  <2>4. PICK x \in Nat, y \in Nat : /\ x = Ends(sizes)[n - 1] /\ y = ExtLen(b.exts[n])
                                    /\ Ends(sizes)[n] = x + (4 + y)
    BY <2>2, <2>3
  <2>5. Ends(sizes)[n] = x + 4 + y
    BY <2>4, SMTT(40)
  <2> QED
    BY <1>5, <2>4, <2>5
<1>8. \A i \in 0..Len(b.exts) : \A j \in i..Len(b.exts) : ExtEnds(b)[i] <= ExtEnds(b)[j]
  BY <1>4, <1>5, EndsGrow
<1> QED
  BY <1>1, <1>2, <1>4, <1>5, <1>6, <1>7, <1>8

IsWalk(f, p, n) ==
  f = [i \in 0..n |-> IF i = 0 THEN [pos |-> ExtsAt(p) + 2, name |-> <<>>, done |-> FALSE]
                      ELSE Extension(p, f[i - 1], i)]

(* The function that SniText defines recursively exists. *)
LEMMA WalkExists ==
  ASSUME NEW p, NEW n \in Nat
  PROVE  \E f : IsWalk(f, p, n)
<1> DEFINE G == {i \in 0..n : \E f : IsWalk(f, p, i)}
<1> DEFINE s0 == [pos |-> ExtsAt(p) + 2, name |-> <<>>, done |-> FALSE]
<1>1. 0 \in G
  <2>1. PICK f : f = [i \in 0..0 |-> s0]
    OBVIOUS
  <2>2. IsWalk(f, p, 0)
    BY <2>1 DEF IsWalk
  <2> QED
    BY <2>2
<1>2. ASSUME NEW i \in 1..n, i - 1 \in G PROVE i \in G
  <2>1. PICK f : IsWalk(f, p, i - 1)
    BY <1>2
  <2>2. PICK x : x = Extension(p, f[i - 1], i)
    OBVIOUS
  <2>3. PICK g : g = [j \in 0..i |-> IF j = i THEN x ELSE f[j]]
    OBVIOUS
  <2>4. \A j \in 0..(i - 1) : f[j] = IF j = 0 THEN s0 ELSE Extension(p, f[j - 1], j)
    BY <2>1 DEF IsWalk
  <2>5. \A j \in 0..i : g[j] = IF j = 0 THEN s0 ELSE Extension(p, g[j - 1], j)
    <3> SUFFICES ASSUME NEW j \in 0..i
                 PROVE  g[j] = IF j = 0 THEN s0 ELSE Extension(p, g[j - 1], j)
      OBVIOUS
    <3> HIDE DEF s0
    <3>1. CASE j = 0
      BY <2>3, <2>4, <3>1
    <3>2. CASE j # 0
      <4>1. g[j - 1] = f[j - 1]
        BY <2>3, <3>2
      <4>2. CASE j = i
        BY <2>2, <2>3, <3>2, <4>1, <4>2
      <4>3. CASE j # i
        BY <2>3, <2>4, <3>2, <4>1, <4>3
      <4> QED
        BY <4>2, <4>3
    <3> QED
      BY <3>1, <3>2
  <2>6. IsWalk(g, p, i)
    BY <2>3, <2>5 DEF IsWalk
  <2> QED
    BY <2>6
<1>3. \A i \in 0..n : i \in G
  <2> HIDE DEF G
  <2> QED
    BY <1>1, <1>2, UpTo
<1> QED
  BY <1>3

(* The i-th extension is the server name that the walk looks for. *)
SniAt(b, i) ==
  /\ i \in 1..Len(b.exts) /\ b.exts[i].type = "sni"
  /\ \A j \in 1..(i - 1) : b.exts[j].type # "sni"

NameLen(x) == Min({Len(x.name), MAX_TLS_SNI - 1})

(* All of it that is looked at is in the packet. *)
There(p, i) ==
  /\ SniAt(p.body, i) /\ i <= MAX_EXTS
  /\ ExtsAt(p) + 2 + ExtEnds(p.body)[i - 1] + 9 + NameLen(p.body.exts[i]) <= p.len

NameText(x) == SubSeq(x.name, 1, Min({NameLen(x), SNI_CHARS}))

(* After n turns: still on the way, or the name was found if it is there. *)
Walked(p, s, n) ==
  \/ /\ ~s.done /\ n <= Len(p.body.exts) /\ s.pos = ExtsAt(p) + 2 + ExtEnds(p.body)[n]
     /\ s.name = <<>> /\ \A j \in 1..n : p.body.exts[j].type # "sni"
  \/ s.done /\ \E i : There(p, i) /\ s.name = NameText(p.body.exts[i])
  \/ s.done /\ s.name = <<>> /\ \A i : ~There(p, i)

(* The lengths of a server name. *)
LEMMA NameLens ==
  ASSUME NEW b, IsHello(b), NEW i, SniAt(b, i)
  PROVE  /\ NameLen(b.exts[i]) \in Nat /\ NameLen(b.exts[i]) <= Len(b.exts[i].name)
         /\ ExtLen(b.exts[i]) = 5 + Len(b.exts[i].name) /\ NameLen(b.exts[i]) + 5 <= ExtLen(b.exts[i])
         /\ b.exts[i].name \in Seq(Nat \ {NUL})
         /\ NameLen(b.exts[i]) = IF Len(b.exts[i].name) <= MAX_TLS_SNI - 1
                                   THEN Len(b.exts[i].name) ELSE MAX_TLS_SNI - 1
<1>1. b.exts[i].name \in Seq(Nat \ {NUL})
  BY DEF IsHello, IsExtension, SniAt
<1>2. Len(b.exts[i].name) \in Nat /\ MAX_TLS_SNI - 1 \in Nat
  BY <1>1, ProgramAssumption
<1>3. NameLen(b.exts[i]) = IF Len(b.exts[i].name) <= MAX_TLS_SNI - 1
                             THEN Len(b.exts[i].name) ELSE MAX_TLS_SNI - 1
  BY <1>2, MinOfTwo DEF NameLen
<1> QED
  BY <1>1, <1>2, <1>3 DEF ExtLen, SniAt

(* The parts of a ClientHello are in order. *)
LEMMA HelloPlaces ==
  ASSUME NEW p, IsPacket(p), p.body.kind = "hello"
  PROVE  /\ IsHello(p.body) /\ p.len \in Nat
         /\ ExtsAt(p) \in Nat /\ MethodsAt(p) \in Nat /\ CiphersAt(p) \in Nat /\ SidAt(p) \in Nat
         /\ SidAt(p) + 1 <= CiphersAt(p) /\ CiphersAt(p) + 2 <= MethodsAt(p) /\ MethodsAt(p) + 1 <= ExtsAt(p)
         /\ ext_end(p) \in Nat /\ ext_end(p) <= p.len
         /\ ext_end(p) <= ExtsAt(p) + 2 + ExtEnds(p.body)[Len(p.body.exts)]
         /\ ext_end(p) = p.len \/ ext_end(p) = ExtsAt(p) + 2 + ExtEnds(p.body)[Len(p.body.exts)]
<1>1. IsHello(p.body) /\ p.len \in Nat /\ payload_off(p) \in Nat
  BY Headers DEF IsPacket
<1>2. p.body.sid_len \in Nat /\ p.body.cs_len \in Nat /\ p.body.cm_len \in Nat
  BY <1>1 DEF IsHello
<1>3. SidAt(p) \in Nat
  BY <1>1 DEF SidAt
<1>4. CiphersAt(p) \in Nat /\ SidAt(p) + 1 <= CiphersAt(p)
  BY <1>2, <1>3 DEF CiphersAt
<1>5. MethodsAt(p) \in Nat /\ CiphersAt(p) + 2 <= MethodsAt(p)
  BY <1>2, <1>4 DEF MethodsAt
<1>6. ExtsAt(p) \in Nat /\ MethodsAt(p) + 1 <= ExtsAt(p)
  BY <1>2, <1>5 DEF ExtsAt
<1>7. ExtEnds(p.body)[Len(p.body.exts)] \in Nat
  <2>1. Len(p.body.exts) \in 0..Len(p.body.exts) /\ ExtEnds(p.body) \in [0..Len(p.body.exts) -> Nat]
    BY <1>1, ExtFacts
  <2> QED
    BY <2>1
<1>8. PICK t \in Nat : t = ExtsAt(p) + 2 + ExtEnds(p.body)[Len(p.body.exts)]
  BY <1>6, <1>7
<1>9. ext_end(p) = IF t <= p.len THEN t ELSE p.len
  BY <1>1, <1>8, MinOfTwo DEF ext_end
<1> QED
  BY <1>1, <1>3, <1>4, <1>5, <1>6, <1>8, <1>9, SMTT(40)

(* Before an extension that is in the packet there is room for its head. *)
LEMMA HeadFits ==
  ASSUME NEW base \in Nat, NEW e1 \in Nat, NEW e2 \in Nat, NEW eL \in Nat, NEW m \in Nat,
         NEW x \in Nat, NEW len \in Nat, NEW end \in Nat,
         e1 <= e2, e2 + 4 + x <= eL, m + 5 <= x, base + e2 + 9 + m <= len,
         end = len \/ end = base + eL
  PROVE  ~(base + e1 + 4 > end)
OBVIOUS

(* A name ends before the end of the extensions if the packet holds it. *)
LEMMA NameFits ==
  ASSUME NEW base \in Nat, NEW e1 \in Nat, NEW eL \in Nat, NEW m \in Nat,
         NEW x \in Nat, NEW len \in Nat, NEW end \in Nat,
         e1 + 4 + x <= eL, m + 5 <= x, end <= len, end = len \/ end = base + eL
  PROVE  base + e1 + 4 + 5 + m > end <=> ~(base + e1 + 9 + m <= len)
OBVIOUS

(* One turn of the walk. *)
LEMMA WalkStep ==
  ASSUME NEW p, IsPacket(p), p.body.kind = "hello", NEW n \in 1..MAX_EXTS,
         NEW s, s = [pos |-> s.pos, name |-> s.name, done |-> s.done], s.done \in BOOLEAN,
         Walked(p, s, n - 1)
  PROVE  LET t == Extension(p, s, n) IN
           Walked(p, t, n) /\ t = [pos |-> t.pos, name |-> t.name, done |-> t.done] /\ t.done \in BOOLEAN
<1> DEFINE b == p.body
<1> DEFINE L == Len(b.exts)
<1> DEFINE E == ExtEnds(b)
<1> DEFINE base == ExtsAt(p) + 2
<1> DEFINE x == b.exts[n]
<1>0. /\ IsHello(b) /\ p.len \in Nat /\ base \in Nat /\ ext_end(p) \in Nat /\ ext_end(p) <= p.len
      /\ ext_end(p) <= base + E[L] /\ (ext_end(p) = p.len \/ ext_end(p) = base + E[L])
  BY HelloPlaces, SMTT(40)
<1>1. /\ L \in Nat /\ E \in [0..L -> Nat]
      /\ \A k \in 1..L : ExtLen(b.exts[k]) \in Nat /\ E[k] = E[k - 1] + 4 + ExtLen(b.exts[k])
      /\ \A i \in 0..L : \A j \in i..L : E[i] <= E[j]
  BY <1>0, ExtFacts
<1>2. MAX_EXTS \in Nat /\ n \in Nat /\ n >= 1
  BY ProgramAssumption
<1>3. CASE s.done
  <2>1. Extension(p, s, n) = s
    BY <1>3 DEF Extension
  <2>2. Walked(p, s, n)
    BY <1>3 DEF Walked
  <2> QED
    BY <2>1, <2>2
<1>4. CASE ~s.done
  <2>1. /\ n - 1 <= L /\ s.pos = base + E[n - 1] /\ s.name = <<>>
        /\ \A j \in 1..(n - 1) : b.exts[j].type # "sni"
    BY <1>4 DEF Walked
  <2>2. n - 1 \in 0..L /\ E[n - 1] \in Nat /\ s.pos \in Nat
    BY <1>0, <1>1, <1>2, <2>1, SMTT(40)
  <2>3. CASE s.pos + 4 > ext_end(p)
    <3>1. Extension(p, s, n) = [s EXCEPT !.done = TRUE]
      BY <2>3 DEF Extension
    <3>2. PICK t : t = [pos |-> s.pos, name |-> <<>>, done |-> TRUE]
      OBVIOUS
    <3>3. Extension(p, s, n) = t
      BY <2>1, <3>1, <3>2
    <3>4. ASSUME NEW i, There(p, i) PROVE FALSE
      <4>1. i \in 1..L /\ b.exts[i].type = "sni"
        BY <3>4 DEF There, SniAt
      <4>2. ~(i \in 1..(n - 1))
        BY <2>1, <4>1
      <4>3. i - 1 \in (n - 1)..L /\ i - 1 \in 0..L
        BY <1>1, <1>2, <4>1, <4>2
      <4>4. /\ E[n - 1] <= E[i - 1] /\ E[i - 1] \in Nat /\ E[L] \in Nat
            /\ ExtLen(b.exts[i]) \in Nat /\ E[i - 1] + 4 + ExtLen(b.exts[i]) <= E[L]
        <5>1. L \in 0..L /\ L \in i..L /\ i \in 0..L
          BY <1>1, <4>1
        <5>2. E[i] <= E[L] /\ E[n - 1] <= E[i - 1]
          BY <1>1, <2>2, <4>3, <5>1
        <5>3. E[i] = E[i - 1] + 4 + ExtLen(b.exts[i]) /\ ExtLen(b.exts[i]) \in Nat
          BY <1>1, <4>1
        <5>4. E[i - 1] \in Nat /\ E[L] \in Nat
          BY <1>1, <4>3, <5>1
        <5> QED
          BY <5>2, <5>3, <5>4
      <4>5. NameLen(b.exts[i]) \in Nat /\ NameLen(b.exts[i]) + 5 <= ExtLen(b.exts[i])
        <5>1. SniAt(b, i)
          BY <3>4 DEF There
        <5> QED
          BY <1>0, <5>1, NameLens
      <4>6. base + E[i - 1] + 9 + NameLen(b.exts[i]) <= p.len
        BY <3>4 DEF There
      <4> HIDE DEF base, E, L, b
      <4>7. ~(base + E[n - 1] + 4 > ext_end(p))
        BY <1>0, <2>2, <4>4, <4>5, <4>6, HeadFits
      <4> QED
        BY <2>1, <2>3, <4>7
    <3>5. Walked(p, t, n)
      BY <3>2, <3>4 DEF Walked
    <3> QED
      BY <3>2, <3>3, <3>5
  <2>4. CASE ~(s.pos + 4 > ext_end(p))
    <3>1. n \in 1..L /\ n \in 0..L
      <4>1. E[n - 1] + 4 <= E[L] /\ E[L] \in Nat
        <5>1. L \in 0..L
          BY <1>1
        <5>2. E[L] \in Nat
          BY <1>1, <5>1
        <5> HIDE DEF E, L, b, base
        <5> QED
          BY <1>0, <2>1, <2>2, <2>4, <5>2, SMTT(40)
      <4>2. n - 1 # L
        BY <2>2, <4>1
      <4> QED
        BY <1>1, <1>2, <2>2, <4>2
    <3>2. CASE x.type # "sni"
      <4>1. Extension(p, s, n) = [s EXCEPT !.pos = s.pos + 4 + ExtLen(x)]
        BY <1>4, <2>4, <3>2 DEF Extension
      <4>2. PICK t : t = [pos |-> s.pos + 4 + ExtLen(x), name |-> <<>>, done |-> FALSE]
        OBVIOUS
      <4>3. Extension(p, s, n) = t
        BY <1>4, <2>1, <4>1, <4>2
      <4>4. E[n] = E[n - 1] + 4 + ExtLen(x) /\ ExtLen(x) \in Nat
        BY <1>1, <3>1
      <4>5. t.pos = base + E[n]
        <5> HIDE DEF E, L, b, base, x
        <5> QED
          BY <1>0, <2>1, <2>2, <4>2, <4>4, SMTT(40)
      <4>6. \A j \in 1..n : b.exts[j].type # "sni"
        <5>1. \A j \in 1..n : j \in 1..(n - 1) \/ j = n
          BY <1>2
        <5> QED
          BY <2>1, <3>2, <5>1
      <4>7. Walked(p, t, n)
        BY <3>1, <4>2, <4>5, <4>6 DEF Walked
      <4> QED
        BY <4>2, <4>3, <4>7
    <3>3. CASE x.type = "sni"
      <4>1. SniAt(b, n)
        BY <2>1, <3>1, <3>3 DEF SniAt
      <4>2. NameLen(x) \in Nat /\ NameLen(x) + 5 <= ExtLen(x) /\ ExtLen(x) \in Nat
        <5>1. ExtLen(x) \in Nat
          BY <1>1, <3>1
        <5> QED
          BY <1>0, <4>1, <5>1, NameLens
      <4>3. s.pos + 4 + 5 + NameLen(x) > ext_end(p) <=> ~(base + E[n - 1] + 9 + NameLen(x) <= p.len)
        <5>1. E[n - 1] + 4 + ExtLen(x) <= E[L] /\ E[L] \in Nat
          <6>1. L \in n..L /\ L \in 0..L
            BY <1>1, <3>1
          <6>2. E[n] <= E[L]
            BY <1>1, <3>1, <6>1
          <6>3. E[n] = E[n - 1] + 4 + ExtLen(x)
            BY <1>1, <3>1
          <6>4. E[L] \in Nat
            BY <1>1, <6>1
          <6> QED
            BY <6>2, <6>3, <6>4
        <5> HIDE DEF E, L, b, base, x
        <5>2. base + E[n - 1] + 4 + 5 + NameLen(x) > ext_end(p)
                <=> ~(base + E[n - 1] + 9 + NameLen(x) <= p.len)
          BY <1>0, <2>2, <4>2, <5>1, NameFits
        <5> QED
          BY <2>1, <5>2
      <4>4. \A i : There(p, i) => i = n
        <5> SUFFICES ASSUME NEW i, There(p, i) PROVE i = n
          OBVIOUS
        <5>1. i \in 1..L /\ b.exts[i].type = "sni" /\ \A j \in 1..(i - 1) : b.exts[j].type # "sni"
          BY DEF There, SniAt
        <5>2. ~(i \in 1..(n - 1)) /\ ~(n \in 1..(i - 1))
          BY <2>1, <3>3, <5>1
        <5> QED
          BY <1>1, <3>1, <5>1, <5>2
      <4>5. CASE s.pos + 4 + 5 + NameLen(x) > ext_end(p)
        <5>1. Extension(p, s, n) = [s EXCEPT !.done = TRUE]
          BY <1>4, <2>4, <3>3, <4>5 DEF Extension, NameLen
        <5>2. PICK t : t = [pos |-> s.pos, name |-> <<>>, done |-> TRUE]
          OBVIOUS
        <5>3. Extension(p, s, n) = t
          BY <2>1, <5>1, <5>2
        <5>4. ~There(p, n)
          BY <4>3, <4>5 DEF There
        <5>5. Walked(p, t, n)
          BY <4>4, <5>2, <5>4 DEF Walked
        <5> QED
          BY <5>2, <5>3, <5>5
      <4>6. CASE ~(s.pos + 4 + 5 + NameLen(x) > ext_end(p))
        <5>1. Extension(p, s, n) = [s EXCEPT !.done = TRUE, !.name = NameText(x)]
          BY <1>4, <2>4, <3>3, <4>6 DEF Extension, NameLen, NameText
        <5>2. PICK t : t = [pos |-> s.pos, name |-> NameText(x), done |-> TRUE]
          OBVIOUS
        <5>3. Extension(p, s, n) = t
          BY <5>1, <5>2
        <5>4. There(p, n)
          <6>1. base + E[n - 1] + 9 + NameLen(x) <= p.len
            BY <4>3, <4>6
          <6> QED
            BY <1>2, <4>1, <6>1 DEF There
        <5>5. Walked(p, t, n)
          BY <5>2, <5>4 DEF Walked
        <5> QED
          BY <5>2, <5>3, <5>5
      <4> QED
        BY <4>5, <4>6
    <3> QED
      BY <3>2, <3>3
  <2> QED
    BY <2>3, <2>4
<1> QED
  BY <1>3, <1>4

(* What parse_tls_sni finds: the name, if all that is looked at of it is   *)
(* in the packet.                                                          *)
LEMMA SniValue ==
  ASSUME NEW p, IsPacket(p), p.body.kind = "hello"
  PROVE  \/ \E i : There(p, i) /\ SniText(p) = NameText(p.body.exts[i])
         \/ SniText(p) = <<>> /\ \A i : ~There(p, i)
<1> DEFINE reached == /\ SidAt(p) + 1 <= p.len /\ CiphersAt(p) + 2 <= p.len
                      /\ MethodsAt(p) + 1 <= p.len /\ ExtsAt(p) + 2 <= p.len
<1>1. MAX_EXTS \in Nat
  BY ProgramAssumption
<1>2. PICK f : f = CHOOSE g : IsWalk(g, p, MAX_EXTS)
  OBVIOUS
<1>3. IsWalk(f, p, MAX_EXTS)
  BY <1>1, <1>2, WalkExists
<1>4. SniText(p) = IF reached THEN f[MAX_EXTS].name ELSE <<>>
  BY <1>2 DEF SniText, IsWalk
<1>5. CASE ~reached
  <2>1. SniText(p) = <<>>
    BY <1>4, <1>5
  <2>2. ASSUME NEW i, There(p, i) PROVE FALSE
    <3>1. /\ p.len \in Nat /\ ExtsAt(p) \in Nat /\ MethodsAt(p) \in Nat /\ CiphersAt(p) \in Nat /\ SidAt(p) \in Nat
          /\ SidAt(p) + 1 <= CiphersAt(p) /\ CiphersAt(p) + 2 <= MethodsAt(p) /\ MethodsAt(p) + 1 <= ExtsAt(p)
          /\ IsHello(p.body)
      BY HelloPlaces
    <3>2. SniAt(p.body, i) /\ i \in 1..Len(p.body.exts) /\ Len(p.body.exts) \in Nat
      BY <2>2, <3>1, ExtFacts DEF There, SniAt
    <3>3. i - 1 \in 0..Len(p.body.exts)
      BY <3>2
    <3>4. ExtEnds(p.body)[i - 1] \in Nat /\ NameLen(p.body.exts[i]) \in Nat
      BY <3>1, <3>2, <3>3, ExtFacts, NameLens
    <3>5. ExtsAt(p) + 2 + ExtEnds(p.body)[i - 1] + 9 + NameLen(p.body.exts[i]) <= p.len
      BY <2>2 DEF There
    <3>6. ExtsAt(p) + 2 <= p.len
      BY <3>1, <3>4, <3>5
    <3> QED
      BY <1>5, <3>1, <3>6
  <2> QED
    BY <2>1, <2>2
<1>6. CASE reached
  <2> DEFINE ok(s) == s = [pos |-> s.pos, name |-> s.name, done |-> s.done] /\ s.done \in BOOLEAN
  <2> DEFINE G == {i \in 0..MAX_EXTS : Walked(p, f[i], i) /\ ok(f[i])}
  <2>1. 0 \in G
    <3>1. f[0] = [pos |-> ExtsAt(p) + 2, name |-> <<>>, done |-> FALSE] /\ 0 \in 0..MAX_EXTS
      BY <1>1, <1>3 DEF IsWalk
    <3>2. ExtEnds(p.body)[0] = 0 /\ 0 <= Len(p.body.exts) /\ ExtsAt(p) \in Nat
      BY HelloPlaces, ExtFacts
    <3>3. f[0].pos = ExtsAt(p) + 2 + ExtEnds(p.body)[0]
      BY <3>1, <3>2
    <3>4. Walked(p, f[0], 0)
      BY <3>1, <3>2, <3>3 DEF Walked
    <3>5. ok(f[0])
      BY <3>1
    <3> HIDE DEF ok
    <3> QED
      BY <3>1, <3>4, <3>5
  <2>2. ASSUME NEW i \in 1..MAX_EXTS, i - 1 \in G PROVE i \in G
    <3>1. f[i] = Extension(p, f[i - 1], i) /\ i \in 0..MAX_EXTS
      <4>1. i \in 0..MAX_EXTS /\ i # 0
        BY <1>1
      <4> QED
        BY <1>3, <4>1 DEF IsWalk
    <3>2. Walked(p, Extension(p, f[i - 1], i), i) /\ ok(Extension(p, f[i - 1], i))
      BY <2>2, WalkStep
    <3> QED
      BY <3>1, <3>2
  <2>3. \A i \in 0..MAX_EXTS : i \in G
    <3> HIDE DEF G
    <3> QED
      BY <1>1, <2>1, <2>2, UpTo
  <2>4. Walked(p, f[MAX_EXTS], MAX_EXTS)
    <3>1. MAX_EXTS \in 0..MAX_EXTS
      BY <1>1
    <3>2. MAX_EXTS \in G
      BY <2>3, <3>1
    <3> HIDE DEF ok
    <3> QED
      BY <3>2
  <2>5. SniText(p) = f[MAX_EXTS].name
    BY <1>4, <1>6
  <2>6. ASSUME NEW i, There(p, i), \A j \in 1..MAX_EXTS : p.body.exts[j].type # "sni" PROVE FALSE
    <3>1. i \in 1..Len(p.body.exts) /\ i <= MAX_EXTS /\ p.body.exts[i].type = "sni"
      BY <2>6 DEF There, SniAt
    <3> QED
      BY <1>1, <2>6, <3>1
  <2> QED
    BY <2>4, <2>5, <2>6 DEF Walked
<1> QED
  BY <1>5, <1>6

(* There is at most one such name. *)
LEMMA ThereOnce ==
  ASSUME NEW p, IsPacket(p), p.body.kind = "hello", HelloExpected(p)
  PROVE  /\ \A i : There(p, i) =>
              SniExpected(p) = SubSeq(p.body.exts[i].name, 1, Min({Len(p.body.exts[i].name), SNI_CHARS - 1}))
         /\ (\A i : ~There(p, i)) => SniExpected(p) = <<>>
<1> DEFINE S == {i \in DOMAIN p.body.exts : p.body.exts[i].type = "sni"}
<1> DEFINE val(i) == IF i <= MAX_EXTS
                          /\ ExtsAt(p) + 2 + ExtEnds(p.body)[i - 1] + 9
                               + Min({Len(p.body.exts[i].name), MAX_TLS_SNI - 1}) <= p.len
                        THEN SubSeq(p.body.exts[i].name, 1, Min({Len(p.body.exts[i].name), SNI_CHARS - 1}))
                        ELSE <<>>
<1>1. DOMAIN p.body.exts = 1..Len(p.body.exts) /\ Len(p.body.exts) \in Nat
  BY HelloPlaces DEF IsHello
<1>2. SniExpected(p) = IF S # {} THEN val(Min(S)) ELSE <<>>
  BY DEF SniExpected
<1>3. \A i : SniAt(p.body, i) => i \in S /\ Min(S) = i
  <2> SUFFICES ASSUME NEW i, SniAt(p.body, i) PROVE i \in S /\ Min(S) = i
    OBVIOUS
  <2>1. i \in S /\ i \in Nat /\ \A j \in 1..(i - 1) : j \notin S
    BY <1>1 DEF SniAt
  <2>2. S \in SUBSET Nat /\ \A j \in S : j >= 1
    BY <1>1
  <2> HIDE DEF S
  <2>3. \A j \in S : i <= j
    BY <2>1, <2>2
  <2> QED
    BY <2>1, <2>2, <2>3, MinIs
<1>4. S # {} => SniAt(p.body, Min(S))
  <2> SUFFICES ASSUME S # {} PROVE SniAt(p.body, Min(S))
    OBVIOUS
  <2>1. S \in SUBSET Nat
    BY <1>1
  <2>2. PICK m \in S : \A j \in S : m <= j
    <3> HIDE DEF S
    <3> QED
      BY <2>1, Least
  <2>3. \A j \in 1..(m - 1) : j \notin S
    <3>1. m \in Nat
      BY <2>1
    <3> HIDE DEF S
    <3> QED
      BY <2>2, <3>1
  <2>4. SniAt(p.body, m)
    <3>1. m \in 1..Len(p.body.exts) /\ p.body.exts[m].type = "sni"
      BY <1>1
    <3>2. \A j \in 1..(m - 1) : j \in 1..Len(p.body.exts)
      BY <1>1, <3>1
    <3> QED
      BY <1>1, <2>3, <3>1, <3>2 DEF SniAt
  <2> QED
    BY <1>3, <2>4
<1>5. \A i : There(p, i) <=> SniAt(p.body, i) /\ i <= MAX_EXTS
              /\ ExtsAt(p) + 2 + ExtEnds(p.body)[i - 1] + 9
                   + Min({Len(p.body.exts[i].name), MAX_TLS_SNI - 1}) <= p.len
  BY DEF There, NameLen
<1>6. ASSUME NEW i, There(p, i)
      PROVE  SniExpected(p) = SubSeq(p.body.exts[i].name, 1, Min({Len(p.body.exts[i].name), SNI_CHARS - 1}))
  <2>1. i \in S /\ Min(S) = i
    BY <1>3, <1>5, <1>6
  <2>2. SniExpected(p) = val(i)
    <3> HIDE DEF S, val
    <3> QED
      BY <1>2, <2>1
  <2> QED
    BY <1>5, <1>6, <2>2
<1>7. ASSUME \A i : ~There(p, i) PROVE SniExpected(p) = <<>>
  <2>1. CASE S = {}
    BY <1>2, <2>1, ZenonT(60)
  <2>2. CASE S # {}
    <3>1. PICK i : i = Min(S) /\ SniAt(p.body, i)
      BY <1>4, <2>2
    <3>2. SniExpected(p) = val(i)
      <4> HIDE DEF S, val
      <4> QED
        BY <1>2, <2>2, <3>1
    <3> QED
      BY <1>5, <1>7, <3>1, <3>2
  <2> QED
    BY <2>1, <2>2, SMTT(40)
<1> QED
  BY <1>6, <1>7

-----------------------------------------------------------------------------
(* Strings.                                                                *)

(* The string in an array ends before the first NUL. *)
LEMMA CStringTo ==
  ASSUME NEW n \in Nat, NEW a, IsArray(a, n), NEW m \in 0..(n - 1), a[m] = NUL,
         \A j \in 0..(m - 1) : a[j] # NUL
  PROVE  CString(a) = [i \in 1..m |-> a[i - 1]]
<1> DEFINE nuls == {i \in DOMAIN a : a[i] = NUL}
<1>1. DOMAIN a = 0..(n - 1)
  BY DEF IsArray
<1>2. nuls \in SUBSET Int /\ m \in nuls
  BY <1>1
<1>3. \A j \in nuls : m <= j
  BY <1>1
<1>4. Min(nuls) = m
  <2> HIDE DEF nuls
  <2> QED
    BY <1>2, <1>3, MinIs
<1>5. CString(a) = [i \in 1..(IF nuls = {} THEN Cardinality(DOMAIN a) ELSE Min(nuls)) |-> a[i - 1]]
  BY DEF CString
<1>6. nuls # {}
  BY <1>2
<1> HIDE DEF nuls
<1> QED
  BY <1>4, <1>5, <1>6

LEMMA CStringEmpty ==
  ASSUME NEW n \in Nat \ {0}, NEW a, IsArray(a, n), a[0] = NUL
  PROVE  CString(a) = <<>>
<1>1. 0 \in 0..(n - 1) /\ \A j \in 0..(0 - 1) : a[j] # NUL
  OBVIOUS
<1>2. CString(a) = [i \in 1..0 |-> a[i - 1]]
  BY <1>1, CStringTo
<1> QED
  BY <1>2

(* A string that begins with the characters of s. *)
LEMMA CStringBegins ==
  ASSUME NEW n \in Nat, NEW a, IsArray(a, n), NEW s \in Seq(Nat \ {NUL}),
         NEW z \in 0..(n - 1), a[z] = NUL, Len(s) <= z,
         \A j \in 0..(Len(s) - 1) : a[j] = s[j + 1]
  PROVE  IsPrefix(s, CString(a))
<1> DEFINE T == {i \in 0..(n - 1) : a[i] = NUL}
<1>0. Len(s) \in Nat /\ \A j \in 1..Len(s) : s[j] # NUL
  BY DEF NUL
<1>1. PICK m \in T : \A j \in T : m <= j
  <2>1. T \in SUBSET Nat /\ T # {}
    OBVIOUS
  <2> HIDE DEF T
  <2> QED
    BY <2>1, Least
<1>2. m \in 0..(n - 1) /\ a[m] = NUL /\ m \in Nat
  OBVIOUS
<1>3. \A j \in 0..(m - 1) : a[j] # NUL
  BY <1>1, <1>2
<1>4. Len(s) <= m
  <2> SUFFICES ASSUME m < Len(s) PROVE FALSE
    BY <1>0, <1>2
  <2>1. m \in 0..(Len(s) - 1) /\ m + 1 \in 1..Len(s)
    BY <1>0, <1>2
  <2> QED
    BY <1>0, <1>2, <2>1
<1>5. PICK t : t = [i \in 1..m |-> a[i - 1]] /\ CString(a) = t
  BY <1>2, <1>3, CStringTo
<1>6. Len(t) = m /\ \A i \in 1..Len(s) : t[i] = s[i]
  <2>1. Len(t) = m
    BY <1>2, <1>5
  <2>2. ASSUME NEW i \in 1..Len(s) PROVE t[i] = s[i]
    <3>1. i \in 1..m /\ i - 1 \in 0..(Len(s) - 1) /\ (i - 1) + 1 = i
      BY <1>0, <1>2, <1>4
    <3>2. a[i - 1] = s[(i - 1) + 1]
      BY <3>1
    <3> QED
      BY <1>5, <3>1, <3>2
  <2> QED
    BY <2>1, <2>2
<1>7. SubSeq(s, 1, Len(s)) = SubSeq(t, 1, Len(s))
  <2>1. SubSeq(s, 1, Len(s)) = [i \in 1..Len(s) |-> s[i]]
    BY <1>0
  <2>2. SubSeq(t, 1, Len(s)) = [i \in 1..Len(s) |-> t[i]]
    BY <1>0
  <2> QED
    BY <1>6, <2>1, <2>2
<1> QED
  BY <1>4, <1>5, <1>6, <1>7 DEF IsPrefix

(* The first k elements. *)
LEMMA FirstOf ==
  ASSUME NEW S, NEW s \in Seq(S), NEW k \in Nat, k <= Len(s)
  PROVE  /\ SubSeq(s, 1, k) \in Seq(S) /\ Len(SubSeq(s, 1, k)) = k
         /\ \A j \in 1..k : SubSeq(s, 1, k)[j] = s[j]
OBVIOUS

(* The numbers of characters: len in the packet, m looked at, k written,   *)
(* q expected.                                                             *)
LEMMA SniSizes ==
  ASSUME NEW len \in Nat, NEW max \in Nat, NEW chars \in Nat, 0 < chars, chars <= max,
         NEW m \in Nat, m <= len /\ (m = len \/ m = max - 1),
         NEW k \in Nat, k <= m /\ (k = m \/ k = chars),
         NEW q \in Nat, q <= len /\ q <= chars - 1 /\ (q = len \/ q = chars - 1)
  PROVE  k <= len /\ q <= k /\ q <= len /\ q <= chars - 1 /\ (k # 0 /\ q = 0 => chars - 1 = 0)
OBVIOUS

(* What parse_tls_sni leaves in a string that was empty. *)
LEMMA SniShown ==
  ASSUME NEW p, IsPacket(p), p.body.kind = "hello", HelloExpected(p),
         NEW a, IsArray(a, MAX_TLS_SNI), a[0] = NUL
  PROVE  IF SniExpected(p) = <<>> THEN CString(parse_tls_sni(p, a)) = <<>>
         ELSE IsPrefix(SniExpected(p), CString(parse_tls_sni(p, a)))
<1>0. MAX_TLS_SNI \in Nat \ {0} /\ SNI_CHARS \in Nat \ {0} /\ SNI_CHARS <= MAX_TLS_SNI
  BY ProgramAssumption
<1>1. CASE \A i : ~There(p, i)
  <2>1. SniText(p) = <<>> /\ SniExpected(p) = <<>>
    BY <1>1, SniValue, ThereOnce
  <2>2. parse_tls_sni(p, a) = a
    BY <2>1 DEF parse_tls_sni
  <2> QED
    BY <1>0, <2>1, <2>2, CStringEmpty
<1>2. ASSUME NEW i, There(p, i) PROVE
         IF SniExpected(p) = <<>> THEN CString(parse_tls_sni(p, a)) = <<>>
         ELSE IsPrefix(SniExpected(p), CString(parse_tls_sni(p, a)))
  <2>1. PICK name : name = p.body.exts[i].name
    OBVIOUS
  <2>2. SniAt(p.body, i) /\ IsHello(p.body)
    BY <1>2, HelloPlaces DEF There
  <2>3. PICK m \in Nat : /\ m = NameLen(p.body.exts[i]) /\ name \in Seq(Nat \ {NUL})
                         /\ m = IF Len(name) <= MAX_TLS_SNI - 1 THEN Len(name) ELSE MAX_TLS_SNI - 1
    BY <2>1, <2>2, NameLens
  <2>4. Len(name) \in Nat /\ \A j \in 1..Len(name) : name[j] \in Nat \ {NUL}
    BY <2>3
  <2>5. PICK k \in Nat : /\ k = Min({m, SNI_CHARS}) /\ k = IF m <= SNI_CHARS THEN m ELSE SNI_CHARS
    BY <1>0, MinOfTwo
  <2>6. PICK q \in Nat : /\ q = Min({Len(name), SNI_CHARS - 1})
                         /\ q = IF Len(name) <= SNI_CHARS - 1 THEN Len(name) ELSE SNI_CHARS - 1
    <3>1. SNI_CHARS - 1 \in Nat
      BY <1>0
    <3>2. Min({Len(name), SNI_CHARS - 1}) = IF Len(name) <= SNI_CHARS - 1 THEN Len(name) ELSE SNI_CHARS - 1
      BY <2>4, <3>1, MinOfTwo
    <3> QED
      BY <2>4, <3>1, <3>2
  <2>7. There(p, i) /\ \A j : There(p, j) => j = i
    <3> SUFFICES ASSUME NEW j, There(p, j) PROVE j = i
      BY <1>2
    <3>1. SniAt(p.body, i) /\ SniAt(p.body, j)
      BY <1>2 DEF There
    <3>2. /\ i \in 1..Len(p.body.exts) /\ j \in 1..Len(p.body.exts) /\ Len(p.body.exts) \in Nat
          /\ ~(i \in 1..(j - 1)) /\ ~(j \in 1..(i - 1))
      BY <2>2, <3>1 DEF SniAt, IsHello
    <3> QED
      BY <3>2
  <2>8. SniText(p) = SubSeq(name, 1, k)
    BY <2>1, <2>3, <2>5, <2>7, SniValue DEF NameText
  <2>9. SniExpected(p) = SubSeq(name, 1, q)
    BY <1>2, <2>1, <2>6, ThereOnce
  <2>10. /\ k <= Len(name) /\ q <= k /\ q <= Len(name) /\ q <= SNI_CHARS - 1
         /\ k # 0 /\ q = 0 => SNI_CHARS - 1 = 0
    <3>1. m <= Len(name) /\ (m = Len(name) \/ m = MAX_TLS_SNI - 1)
      BY <1>0, <2>3, <2>4
    <3>2. k <= m /\ (k = m \/ k = SNI_CHARS)
      BY <1>0, <2>5
    <3>3. q <= Len(name) /\ q <= SNI_CHARS - 1 /\ (q = Len(name) \/ q = SNI_CHARS - 1)
      BY <1>0, <2>4, <2>6
    <3>4. 0 < SNI_CHARS /\ SNI_CHARS \in Nat /\ MAX_TLS_SNI \in Nat /\ SNI_CHARS <= MAX_TLS_SNI
      BY <1>0
    <3> QED
      BY <2>4, <3>1, <3>2, <3>3, <3>4, SniSizes
  <2>11. PICK t : t = SubSeq(name, 1, k) /\ t \in Seq(Nat \ {NUL}) /\ Len(t) = k /\ \A j \in 1..k : t[j] = name[j]
    <3>1. PICK S : S = Nat \ {NUL}
      OBVIOUS
    <3>2. name \in Seq(S) /\ k <= Len(name)
      BY <2>3, <2>10, <3>1
    <3>3. /\ SubSeq(name, 1, k) \in Seq(S) /\ Len(SubSeq(name, 1, k)) = k
          /\ \A j \in 1..k : SubSeq(name, 1, k)[j] = name[j]
      BY <3>2, FirstOf
    <3> QED
      BY <3>1, <3>3
  <2>12. PICK s : s = SubSeq(name, 1, q) /\ s \in Seq(Nat \ {NUL}) /\ Len(s) = q /\ \A j \in 1..q : s[j] = name[j]
    <3>1. PICK S : S = Nat \ {NUL}
      OBVIOUS
    <3>2. name \in Seq(S) /\ q <= Len(name)
      BY <2>3, <2>10, <3>1
    <3>3. /\ SubSeq(name, 1, q) \in Seq(S) /\ Len(SubSeq(name, 1, q)) = q
          /\ \A j \in 1..q : SubSeq(name, 1, q)[j] = name[j]
      BY <3>2, FirstOf
    <3> QED
      BY <3>1, <3>3
  <2>13. CASE k = 0
    <3>1. t = <<>> /\ s = <<>>
      BY <2>10, <2>11, <2>12, <2>13
    <3>2. parse_tls_sni(p, a) = a
      BY <2>8, <2>11, <3>1 DEF parse_tls_sni
    <3> QED
      BY <1>0, <2>9, <2>12, <3>1, <3>2, CStringEmpty
  <2>14. CASE k # 0
    <3>1. t # <<>>
      BY <2>11, <2>14
    <3>2. PICK r : r = [Copied(a, t) EXCEPT ![SNI_CHARS - 1] = NUL]
      OBVIOUS
    <3>3. parse_tls_sni(p, a) = r
      BY <2>8, <2>11, <3>1, <3>2 DEF parse_tls_sni
    <3>4. r = [j \in 0..(MAX_TLS_SNI - 1) |-> IF j = SNI_CHARS - 1 THEN NUL
                                             ELSE IF j < k THEN t[j + 1] ELSE a[j]]
      <4>1. DOMAIN a = 0..(MAX_TLS_SNI - 1)
        BY DEF IsArray
      <4>2. Copied(a, t) = [j \in 0..(MAX_TLS_SNI - 1) |-> IF j < k THEN t[j + 1] ELSE a[j]]
        BY <2>11, <4>1 DEF Copied
      <4> QED
        BY <3>2, <4>2
    <3>5. IsArray(r, MAX_TLS_SNI)
      BY <3>4 DEF IsArray
    <3>6. SNI_CHARS - 1 \in 0..(MAX_TLS_SNI - 1) /\ r[SNI_CHARS - 1] = NUL
      <4>1. SNI_CHARS - 1 \in 0..(MAX_TLS_SNI - 1)
        BY <1>0
      <4> QED
        BY <3>4, <4>1
    <3>7. \A j \in 0..(q - 1) : r[j] = s[j + 1]
      <4> SUFFICES ASSUME NEW j \in 0..(q - 1) PROVE r[j] = s[j + 1]
        OBVIOUS
      <4>1. j \in 0..(MAX_TLS_SNI - 1) /\ j # SNI_CHARS - 1 /\ j < k /\ j + 1 \in 1..q /\ j + 1 \in 1..k
        BY <1>0, <2>10
      <4>2. r[j] = t[j + 1]
        BY <3>4, <4>1
      <4> QED
        BY <2>11, <2>12, <4>1, <4>2
    <3>8. CASE s = <<>>
      <4>1. q = 0
        BY <2>12, <3>8
      <4>2. SNI_CHARS - 1 = 0
        BY <2>10, <2>14, <4>1
      <4>3. r[0] = NUL
        BY <3>6, <4>2
      <4> QED
        BY <1>0, <2>9, <2>12, <3>3, <3>5, <3>8, <4>3, CStringEmpty
    <3>9. CASE s # <<>>
      <4>1. IsPrefix(s, CString(r))
        BY <1>0, <2>10, <2>12, <3>5, <3>6, <3>7, CStringBegins
      <4> QED
        BY <2>9, <2>12, <3>3, <3>9, <4>1
    <3> QED
      BY <3>8, <3>9
  <2> QED
    BY <2>13, <2>14
<1> QED
  BY <1>1, <1>2

(* What the strings of an event are. *)
LEMMA MadeStrings ==
  ASSUME NEW e, Made(e)
  PROVE  \E p, a, b :
           /\ p \in Packets /\ e.pkt = p /\ Capturable(p) /\ e.app_tag = app_tag(p)
           /\ IsArray(a, MAX_DNS_NAME) /\ a[0] = NUL
           /\ IsArray(b, MAX_TLS_SNI) /\ b[0] = NUL
           /\ e.dns_name = IF app_tag(p) = "dns" THEN parse_dns_name(p, a) ELSE a
           /\ e.tls_sni = IF app_tag(p) = "tls" /\ HelloExpected(p) THEN parse_tls_sni(p, b) ELSE b
           /\ e.http_info = IF app_tag(p) = "http" THEN parse_http_info(p) ELSE <<>>
<1>1. PICK p, s : /\ p \in Packets /\ Capturable(p) /\ IsScratch(s)
                  /\ e = Event(p, Hinted(Cleared(s), p))
  BY DEF Made
<1>2. PICK c : c = Cleared(s)
  OBVIOUS
<1>3. /\ IsScratch(c) /\ c.dns_name[0] = NUL /\ c.tls_sni[0] = NUL /\ c.http_info = <<>>
  BY <1>1, <1>2, ClearedScratch
<1>4. PICK a, b, h : /\ c = [dns_name |-> a, tls_sni |-> b, http_info |-> h]
                     /\ IsArray(a, MAX_DNS_NAME) /\ IsArray(b, MAX_TLS_SNI)
  BY <1>3 DEF IsScratch
<1>5. a[0] = NUL /\ b[0] = NUL /\ c.dns_name = a /\ c.tls_sni = b
  BY <1>3, <1>4
<1>6. PICK d : d = Hinted(c, p)
  OBVIOUS
<1>7. /\ d.dns_name = IF app_tag(p) = "dns" THEN parse_dns_name(p, a) ELSE a
      /\ d.tls_sni = IF app_tag(p) = "tls" /\ HelloExpected(p) THEN parse_tls_sni(p, b) ELSE b
      /\ d.http_info = IF app_tag(p) = "http" THEN parse_http_info(p) ELSE <<>>
  BY <1>3, <1>5, <1>6 DEF Hinted
<1>8. /\ e.pkt = p /\ e.app_tag = app_tag(p)
      /\ e.dns_name = d.dns_name /\ e.tls_sni = d.tls_sni /\ e.http_info = d.http_info
  BY <1>1, <1>2, <1>6 DEF Event
<1> QED
  BY <1>1, <1>4, <1>5, <1>7, <1>8

(* parse_tls_sni shows the server name of the packet itself or nothing,    *)
(* whatever the packets are and whatever the CPU's scratch event held.     *)
THEOREM SniCorrect == ToolsSpec => []SniFound
<1>1. ASSUME ProgramInv, NEW e \in events
      PROVE  LET text == CString(e.tls_sni)
                 name == IF e.app_tag = "tls" THEN SniExpected(e.pkt) ELSE <<>>
             IN IF name = <<>> THEN text = <<>> ELSE IsPrefix(name, text)
  <2>0. Made(e) /\ MAX_TLS_SNI \in Nat \ {0}
    BY <1>1, ProgramAssumption DEF ProgramInv
  <2>1. PICK p, b :
           /\ p \in Packets /\ e.pkt = p /\ e.app_tag = app_tag(p)
           /\ IsArray(b, MAX_TLS_SNI) /\ b[0] = NUL
           /\ e.tls_sni = IF app_tag(p) = "tls" /\ HelloExpected(p) THEN parse_tls_sni(p, b) ELSE b
    BY <2>0, MadeStrings
  <2>2. IsPacket(p) /\ CString(b) = <<>>
    BY <2>0, <2>1, PacketsAssumption, CStringEmpty
  <2>3. CASE app_tag(p) = "tls" /\ HelloExpected(p) /\ p.body.kind = "hello"
    BY <2>1, <2>2, <2>3, SniShown
  <2>4. CASE app_tag(p) = "tls" /\ ~(HelloExpected(p) /\ p.body.kind = "hello")
    <3>1. SniExpected(p) = <<>>
      BY <2>4 DEF SniExpected
    <3>2. e.tls_sni = b
      BY <2>1, <2>4 DEF parse_tls_sni
    <3> QED
      BY <2>1, <2>2, <2>4, <3>1, <3>2
  <2>5. CASE app_tag(p) # "tls"
    BY <2>1, <2>2, <2>5
  <2> QED
    BY <2>3, <2>4, <2>5
<1>2. ProgramInv => SniFound
  BY <1>1 DEF SniFound
<1> QED
  BY <1>2, ToolsInv, PTL

-----------------------------------------------------------------------------
(* The bytes of a DNS name.                                                *)

(* The labels of a name, one behind the other. *)
LEMMA LabelFacts ==
  ASSUME NEW labels \in Seq(Seq(Nat))
  PROVE  /\ Len(labels) \in Nat /\ LabelEnds(labels) \in [0..Len(labels) -> Nat] /\ LabelEnds(labels)[0] = 0
         /\ \A n \in 1..Len(labels) :
              /\ labels[n] \in Seq(Nat) /\ Len(labels[n]) \in Nat
              /\ LabelEnds(labels)[n] = LabelEnds(labels)[n - 1] + 1 + Len(labels[n])
         /\ \A i \in 0..Len(labels) : \A j \in i..Len(labels) : LabelEnds(labels)[i] <= LabelEnds(labels)[j]
<1>1. Len(labels) \in Nat /\ \A n \in 1..Len(labels) : labels[n] \in Seq(Nat)
  OBVIOUS
<1>2. \A n \in 1..Len(labels) : Len(labels[n]) \in Nat
  BY <1>1
<1>3. PICK sizes : sizes = [i \in 1..Len(labels) |-> 1 + Len(labels[i])]
  OBVIOUS
<1>4. sizes \in Seq(Nat) /\ Len(sizes) = Len(labels)
  BY <1>1, <1>2, <1>3
<1>5. LabelEnds(labels) = Ends(sizes)
  BY <1>3 DEF LabelEnds
<1>6. /\ Ends(sizes) \in [0..Len(sizes) -> Nat] /\ Ends(sizes)[0] = 0
      /\ \A n \in 1..Len(sizes) : Ends(sizes)[n] = Ends(sizes)[n - 1] + sizes[n]
  BY <1>4, EndsValue
<1>7. \A n \in 1..Len(labels) : LabelEnds(labels)[n] = LabelEnds(labels)[n - 1] + 1 + Len(labels[n])
  <2> SUFFICES ASSUME NEW n \in 1..Len(labels)
               PROVE  LabelEnds(labels)[n] = LabelEnds(labels)[n - 1] + 1 + Len(labels[n])
    OBVIOUS
  <2>1. n - 1 \in 0..Len(sizes) /\ n \in 1..Len(sizes)
    BY <1>1, <1>4
  <2>2. Ends(sizes)[n - 1] \in Nat /\ sizes[n] = 1 + Len(labels[n]) /\ Len(labels[n]) \in Nat
    BY <1>2, <1>3, <1>6, <2>1
  <2>3. Ends(sizes)[n] = Ends(sizes)[n - 1] + sizes[n]
    BY <1>6, <2>1
  <2>4. PICK x \in Nat, y \in Nat : /\ x = Ends(sizes)[n - 1] /\ y = Len(labels[n])
                                    /\ Ends(sizes)[n] = x + (1 + y)
    BY <2>2, <2>3
  <2>5. Ends(sizes)[n] = x + 1 + y
    <3>1. x + (1 + y) = x + 1 + y
      BY Assoc
    <3> QED
      BY <2>4, <3>1
  <2> QED
    BY <1>5, <2>4, <2>5
<1>8. \A i \in 0..Len(labels) : \A j \in i..Len(labels) : LabelEnds(labels)[i] <= LabelEnds(labels)[j]
  BY <1>4, <1>5, EndsGrow
<1> QED
  BY <1>1, <1>2, <1>4, <1>5, <1>6, <1>7, <1>8

IsBytes(f, labels) ==
  f = [n \in 0..Len(labels) |-> IF n = 0 THEN <<>> ELSE f[n - 1] \o (<<Len(labels[n])>> \o labels[n])]

(* What the recursive definition of LabelBytes computes. *)
LEMMA BytesValue ==
  ASSUME NEW labels \in Seq(Seq(Nat))
  PROVE  /\ LabelBytes(labels) \in [0..Len(labels) -> Seq(Nat)] /\ LabelBytes(labels)[0] = <<>>
         /\ \A n \in 1..Len(labels) :
              LabelBytes(labels)[n] = LabelBytes(labels)[n - 1] \o (<<Len(labels[n])>> \o labels[n])
<1> DEFINE S == Seq(Nat)
<1> DEFINE L == Len(labels)
<1>0. L \in Nat /\ \A i \in 1..L : labels[i] \in S /\ Len(labels[i]) \in Nat
  BY LabelFacts
<1>1. PICK w : w = [i \in 1..L |-> <<Len(labels[i])>> \o labels[i]]
  OBVIOUS
<1>2. \A i \in 1..L : w[i] \in S
  BY <1>0, <1>1
<1> DEFINE F == [i \in 1..L |-> [x \in S |-> x \o w[i]]]
<1>3. PICK f : Steps(f, S, <<>>, F, L)
  <2>1. F \in [1..L -> [S -> S]]
    BY <1>2
  <2>2. <<>> \in S
    OBVIOUS
  <2> HIDE DEF F, S, L
  <2> QED
    BY <1>0, <2>1, <2>2, StepsExist
<1>4. f \in [0..L -> S] /\ f[0] = <<>> /\ \A i \in 1..L : f[i] = F[i][f[i - 1]]
  <2> HIDE DEF F, S, L
  <2> QED
    BY <1>3 DEF Steps
<1>5. \A i \in 1..L : f[i] = f[i - 1] \o w[i]
  <2> SUFFICES ASSUME NEW i \in 1..L PROVE f[i] = f[i - 1] \o w[i]
    OBVIOUS
  <2>1. i - 1 \in 0..L
    BY <1>0
  <2>2. f[i - 1] \in S /\ f[i] = F[i][f[i - 1]]
    BY <1>4, <2>1
  <2>3. F[i] = [x \in S |-> x \o w[i]]
    OBVIOUS
  <2> HIDE DEF S, F
  <2> QED
    BY <2>2, <2>3
<1>6. IsBytes(f, labels)
  <2>1. \A i \in 1..L : f[i] = f[i - 1] \o (<<Len(labels[i])>> \o labels[i])
    BY <1>1, <1>5
  <2>2. f = [i \in 0..L |-> f[i]]
    BY <1>4
  <2>3. \A i \in 0..L : i # 0 => i \in 1..L
    BY <1>0
  <2>4. \A i \in 0..L : f[i] = IF i = 0 THEN <<>> ELSE f[i - 1] \o (<<Len(labels[i])>> \o labels[i])
    BY <1>4, <2>1, <2>3
  <2> QED
    BY <2>2, <2>4, Zenon DEF IsBytes
<1>7. PICK g : g = CHOOSE h : IsBytes(h, labels)
  OBVIOUS
<1>8. IsBytes(g, labels)
  BY <1>6, <1>7
<1>9. LabelBytes(labels) = g
  BY <1>7 DEF LabelBytes, IsBytes
<1>10. g[0] = <<>> /\ \A n \in 1..L : g[n] = g[n - 1] \o w[n]
  <2>1. g[0] = <<>>
    BY <1>0, <1>8 DEF IsBytes
  <2>2. ASSUME NEW n \in 1..L PROVE g[n] = g[n - 1] \o w[n]
    <3>1. n \in 0..L /\ n # 0
      BY <1>0
    <3> QED
      BY <1>1, <1>8, <3>1 DEF IsBytes
  <2> QED
    BY <2>1, <2>2
<1>11. g \in [0..L -> S]
  <2> DEFINE G == {n \in 0..L : g[n] \in S}
  <2>1. 0 \in G
    <3>1. 0 \in 0..L /\ <<>> \in S
      BY <1>0
    <3> QED
      BY <1>10, <3>1
  <2>2. ASSUME NEW i \in 1..L, i - 1 \in G PROVE i \in G
    <3>1. g[i - 1] \in S /\ w[i] \in S /\ i \in 0..L
      BY <1>0, <1>2, <2>2
    <3>2. g[i - 1] \o w[i] \in S
      BY <3>1
    <3> QED
      BY <1>10, <3>1, <3>2
  <2>3. \A i \in 0..L : i \in G
    <3> HIDE DEF G
    <3> QED
      BY <1>0, <2>1, <2>2, UpTo
  <2>4. \A i \in 0..L : g[i] \in S
    BY <2>3
  <2>5. g = [i \in 0..L |-> g[i]]
    BY <1>8 DEF IsBytes
  <2> QED
    BY <2>4, <2>5
<1> QED
  BY <1>1, <1>9, <1>10, <1>11

(* Sequences put together. *)
LEMMA Concat ==
  ASSUME NEW S, NEW s \in Seq(S), NEW t \in Seq(S)
  PROVE  /\ s \o t \in Seq(S) /\ Len(s \o t) = Len(s) + Len(t) /\ Len(s) \in Nat /\ Len(t) \in Nat
         /\ \A k \in 1..Len(s) : (s \o t)[k] = s[k]
         /\ \A k \in 1..Len(t) : (s \o t)[Len(s) + k] = t[k]
OBVIOUS

LEMMA Single ==
  ASSUME NEW S, NEW x \in S
  PROVE  <<x>> \in Seq(S) /\ Len(<<x>>) = 1 /\ <<x>>[1] = x
OBVIOUS

(* A label's bytes. *)
LEMMA LabelAt ==
  ASSUME NEW l \in Seq(Nat)
  PROVE  LET w == <<Len(l)>> \o l IN
           /\ w \in Seq(Nat) /\ Len(w) = 1 + Len(l) /\ w[1] = Len(l)
           /\ \A i \in 1..Len(l) : w[1 + i] = l[i]
<1>1. <<Len(l)>> \in Seq(Nat) /\ Len(<<Len(l)>>) = 1 /\ <<Len(l)>>[1] = Len(l)
  BY Single
<1> QED
  BY <1>1, Concat

(* As many bytes as the labels take. *)
LEMMA BytesLen ==
  ASSUME NEW labels \in Seq(Seq(Nat))
  PROVE  \A n \in 0..Len(labels) : Len(LabelBytes(labels)[n]) = LabelEnds(labels)[n]
<1> DEFINE L == Len(labels)
<1> DEFINE B == LabelBytes(labels)
<1> DEFINE E == LabelEnds(labels)
<1> DEFINE G == {n \in 0..L : Len(B[n]) = E[n]}
<1>0. /\ L \in Nat /\ E \in [0..L -> Nat] /\ E[0] = 0 /\ B \in [0..L -> Seq(Nat)] /\ B[0] = <<>>
      /\ \A n \in 1..L : /\ labels[n] \in Seq(Nat) /\ Len(labels[n]) \in Nat /\ E[n] = E[n - 1] + 1 + Len(labels[n])
                         /\ B[n] = B[n - 1] \o (<<Len(labels[n])>> \o labels[n])
  BY LabelFacts, BytesValue
<1> HIDE DEF B, E, L
<1>1. 0 \in G
  BY <1>0
<1>2. ASSUME NEW i \in 1..L, i - 1 \in G PROVE i \in G
  <2>1. i - 1 \in 0..L /\ i \in 0..L
    BY <1>0
  <2>2. PICK w : w = <<Len(labels[i])>> \o labels[i] /\ w \in Seq(Nat) /\ Len(w) = 1 + Len(labels[i])
    BY <1>0, LabelAt
  <2>3. B[i - 1] \in Seq(Nat) /\ Len(B[i - 1]) = E[i - 1] /\ E[i - 1] \in Nat /\ Len(labels[i]) \in Nat
    BY <1>0, <1>2, <2>1
  <2>4. Len(B[i]) = Len(B[i - 1]) + Len(w)
    <3>1. B[i] = B[i - 1] \o w
      BY <1>0, <2>2
    <3>2. Len(B[i - 1] \o w) = Len(B[i - 1]) + Len(w)
      BY <2>2, <2>3, Concat, ZenonT(60)
    <3> QED
      BY <3>1, <3>2
  <2>5. Len(B[i]) = E[i - 1] + (1 + Len(labels[i])) /\ E[i] = E[i - 1] + 1 + Len(labels[i])
    BY <1>0, <2>2, <2>3, <2>4
  <2>6. Len(B[i]) = E[i]
    BY <2>3, <2>5, Assoc
  <2> QED
    BY <2>1, <2>6
<1>3. \A i \in 0..L : i \in G
  <2> HIDE DEF G
  <2> QED
    BY <1>0, <1>1, <1>2, UpTo
<1> QED
  BY <1>3 DEF L, B, E

(* More labels leave the bytes of the first ones as they are. *)
LEMMA BytesKept ==
  ASSUME NEW labels \in Seq(Seq(Nat)), NEW i \in 0..Len(labels), NEW j \in i..Len(labels),
         NEW k \in 1..LabelEnds(labels)[i]
  PROVE  LabelBytes(labels)[j][k] = LabelBytes(labels)[i][k]
<1> DEFINE L == Len(labels)
<1> DEFINE B == LabelBytes(labels)
<1> DEFINE E == LabelEnds(labels)
<1> DEFINE G == {d \in 0..(L - i) : B[i + d][k] = B[i][k]}
<1>0. /\ L \in Nat /\ E \in [0..L -> Nat] /\ B \in [0..L -> Seq(Nat)]
      /\ \A n \in 1..L : /\ labels[n] \in Seq(Nat)
                         /\ B[n] = B[n - 1] \o (<<Len(labels[n])>> \o labels[n])
      /\ \A n \in 0..L : Len(B[n]) = E[n]
      /\ \A m \in 0..L : \A n \in m..L : E[m] <= E[n]
      /\ i \in 0..L /\ j \in i..L /\ k \in 1..E[i]
  BY LabelFacts, BytesValue, BytesLen
<1> HIDE DEF B, E, L
<1>1. 0 \in G
  <2>1. i + 0 = i /\ 0 \in 0..(L - i)
    BY <1>0
  <2> QED
    BY <2>1
<1>2. ASSUME NEW d \in 1..(L - i), d - 1 \in G PROVE d \in G
  <2>1. /\ i + d \in 1..L /\ (i + d) - 1 = i + (d - 1) /\ i + (d - 1) \in i..L /\ i + (d - 1) \in 0..L
        /\ d \in 0..(L - i)
    BY <1>0
  <2>2. PICK n : n = i + d
    OBVIOUS
  <2>3. n \in 1..L /\ n - 1 \in i..L /\ n - 1 \in 0..L /\ B[n - 1][k] = B[i][k]
    BY <1>2, <2>1, <2>2
  <2>4. PICK w : w = <<Len(labels[n])>> \o labels[n] /\ w \in Seq(Nat)
    BY <1>0, <2>3, LabelAt
  <2>5. B[n - 1] \in Seq(Nat) /\ B[n] = B[n - 1] \o w
    BY <1>0, <2>3, <2>4
  <2>6. k \in 1..Len(B[n - 1])
    <3>1. E[i] <= E[n - 1] /\ Len(B[n - 1]) = E[n - 1] /\ E[i] \in Nat /\ E[n - 1] \in Nat
      BY <1>0, <2>3
    <3>2. k \in Nat /\ 1 <= k /\ k <= E[i]
      BY <1>0, <3>1
    <3>3. k <= E[n - 1]
      BY <3>1, <3>2
    <3> QED
      BY <3>1, <3>2, <3>3
  <2>7. B[n][k] = B[n - 1][k]
    <3>1. PICK u : u = B[n - 1] /\ u \in Seq(Nat) /\ w \in Seq(Nat) /\ k \in 1..Len(u)
      BY <2>4, <2>5, <2>6
    <3>2. (u \o w)[k] = u[k]
      BY <3>1, Concat
    <3> QED
      BY <2>5, <3>1, <3>2
  <2> QED
    BY <2>1, <2>2, <2>3, <2>7
<1>3. \A d \in 0..(L - i) : d \in G
  <2>1. L - i \in Nat
    BY <1>0
  <2> HIDE DEF G
  <2> QED
    BY <1>1, <1>2, <2>1, UpTo
<1>4. j - i \in 0..(L - i) /\ i + (j - i) = j
  BY <1>0
<1>5. B[j][k] = B[i][k]
  BY <1>3, <1>4, SMTT(40)
<1> QED
  BY <1>5 DEF B

(* The labels of a name on the wire. *)
LEMMA NameLabels ==
  ASSUME NEW b, IsName(b)
  PROVE  /\ b.labels \in Seq(Seq(Nat)) /\ b.end \in Nat
         /\ \A n \in 1..Len(b.labels) : b.labels[n] \in Seq(Nat \ {NUL}) /\ Len(b.labels[n]) \in 1..191
<1>1. /\ b.labels \in Seq(Seq(Nat \ {NUL})) /\ b.end \in Nat
      /\ \A i \in DOMAIN b.labels : Len(b.labels[i]) \in 1..191
  <2>1. b.end = 0 \/ b.end \in 192..255
    BY DEF IsName
  <2>2. b.end \in Nat
    BY <2>1, ByteRanges
  <2> QED
    BY <2>2 DEF IsName
<1>2. PICK l, T : l = b.labels /\ T = Nat \ {NUL} /\ l \in Seq(Seq(T))
  BY <1>1
<1>3. Len(l) \in Nat /\ DOMAIN l = 1..Len(l) /\ \A n \in 1..Len(l) : l[n] \in Seq(T)
  BY <1>2
<1>4. \A s \in Seq(T) : s \in Seq(Nat)
  BY <1>2
<1>5. l = [i \in 1..Len(l) |-> l[i]]
  BY <1>2
<1>6. l \in Seq(Seq(Nat))
  BY <1>3, <1>4, <1>5
<1> QED
  BY <1>1, <1>2, <1>3, <1>6, SMTT(40)

(* A label's length and its characters in the bytes of a name, and what    *)
(* comes after the last label.                                             *)
LEMMA NameAt ==
  ASSUME NEW b, IsName(b)
  PROVE  /\ \A n \in 1..Len(b.labels) :
              /\ NameBytes(b)[LabelEnds(b.labels)[n - 1] + 1] = Len(b.labels[n])
              /\ \A i \in 1..Len(b.labels[n]) :
                   NameBytes(b)[LabelEnds(b.labels)[n - 1] + 1 + i] = b.labels[n][i]
         /\ NameBytes(b)[LabelEnds(b.labels)[Len(b.labels)] + 1] = b.end
<1> DEFINE l == b.labels
<1> DEFINE L == Len(l)
<1> DEFINE B == LabelBytes(l)
<1> DEFINE E == LabelEnds(l)
<1> DEFINE N == NameBytes(b)
<1>0. l \in Seq(Seq(Nat)) /\ b.end \in Nat
  BY NameLabels
<1>1. /\ L \in Nat /\ E \in [0..L -> Nat] /\ B \in [0..L -> Seq(Nat)]
      /\ \A n \in 1..L : /\ l[n] \in Seq(Nat) /\ Len(l[n]) \in Nat /\ E[n] = E[n - 1] + 1 + Len(l[n])
                         /\ B[n] = B[n - 1] \o (<<Len(l[n])>> \o l[n])
      /\ \A n \in 0..L : Len(B[n]) = E[n]
      /\ \A m \in 0..L : \A n \in m..L : E[m] <= E[n]
  BY <1>0, LabelFacts, BytesValue, BytesLen
<1>2. \A i \in 0..L : \A j \in i..L : \A k \in 1..E[i] : B[j][k] = B[i][k]
  BY <1>0, BytesKept
<1>3. N = B[L] \o <<b.end>>
  BY DEF NameBytes
<1> HIDE DEF N, B, E, L, l
<1>4. L \in 0..L /\ B[L] \in Seq(Nat) /\ Len(B[L]) = E[L] /\ E[L] \in Nat
  <2>1. L \in 0..L
    BY <1>1
  <2> QED
    BY <1>1, <2>1
<1>5. (\A k \in 1..E[L] : N[k] = B[L][k]) /\ N[E[L] + 1] = b.end
  <2>1. PICK u, w : /\ u = B[L] /\ w = <<b.end>> /\ u \in Seq(Nat) /\ w \in Seq(Nat) /\ Len(u) = E[L]
                    /\ Len(w) = 1 /\ w[1] = b.end
    BY <1>0, <1>4, Single
  <2>2. \A k \in 1..Len(u) : (u \o w)[k] = u[k]
    BY <2>1, Concat
  <2>3. 1 \in 1..Len(w)
    BY <2>1
  <2>4. (u \o w)[Len(u) + 1] = w[1]
    BY <2>1, <2>3, Concat
  <2>5. N = u \o w
    BY <1>3, <2>1
  <2> QED
    BY <2>1, <2>2, <2>4, <2>5
<1>6. ASSUME NEW n \in 1..L
      PROVE  N[E[n - 1] + 1] = Len(l[n]) /\ \A i \in 1..Len(l[n]) : N[E[n - 1] + 1 + i] = l[n][i]
  <2>1. n - 1 \in 0..L /\ n \in 0..L /\ L \in n..L
    BY <1>1
  <2>2. PICK u, w : /\ u = B[n - 1] /\ w = <<Len(l[n])>> \o l[n] /\ u \in Seq(Nat) /\ w \in Seq(Nat)
                    /\ Len(w) = 1 + Len(l[n]) /\ w[1] = Len(l[n])
                    /\ \A i \in 1..Len(l[n]) : w[1 + i] = l[n][i]
    <3>1. l[n] \in Seq(Nat) /\ B[n - 1] \in Seq(Nat)
      BY <1>1, <2>1
    <3>2. PICK m : m = l[n] /\ m \in Seq(Nat)
      BY <3>1
    <3>3. PICK w : w = <<Len(m)>> \o m
      OBVIOUS
    <3>4. /\ w \in Seq(Nat) /\ Len(w) = 1 + Len(m) /\ w[1] = Len(m)
          /\ \A i \in 1..Len(m) : w[1 + i] = m[i]
      BY <3>2, <3>3, LabelAt
    <3> WITNESS B[n - 1], w
    <3> QED
      BY <3>1, <3>2, <3>3, <3>4
  <2>3. B[n] = u \o w
    BY <1>1, <2>2
  <2>4. Len(u) = E[n - 1] /\ E[n - 1] \in Nat /\ Len(l[n]) \in Nat /\ E[n] \in Nat /\ E[n] = E[n - 1] + 1 + Len(l[n])
    BY <1>1, <2>1, <2>2
  <2>5. \A k \in 1..Len(w) : (u \o w)[Len(u) + k] = w[k]
    <3>1. u \in Seq(Nat) /\ w \in Seq(Nat)
      BY <2>2
    <3> QED
      BY <3>1, Concat
  <2>6. E[n] <= E[L]
    BY <1>1, <2>1
  <2>7. \A k \in 1..E[n] : N[k] = (u \o w)[k]
    <3> SUFFICES ASSUME NEW k \in 1..E[n] PROVE N[k] = (u \o w)[k]
      OBVIOUS
    <3>1. k \in 1..E[L]
      BY <1>4, <2>4, <2>6
    <3>2. N[k] = B[L][k] /\ B[L][k] = B[n][k]
      BY <1>2, <1>5, <2>1, <3>1
    <3> QED
      BY <2>3, <3>2
  <2>8. \A k \in 1..Len(w) : N[E[n - 1] + k] = w[k]
    <3> SUFFICES ASSUME NEW k \in 1..Len(w) PROVE N[E[n - 1] + k] = w[k]
      OBVIOUS
    <3>1. E[n - 1] + k \in 1..E[n]
      BY <2>2, <2>4, SMTT(40)
    <3>2. N[E[n - 1] + k] = (u \o w)[E[n - 1] + k]
      BY <2>7, <3>1
    <3>3. (u \o w)[E[n - 1] + k] = w[k]
      BY <2>4, <2>5
    <3> QED
      BY <3>2, <3>3
  <2>9. N[E[n - 1] + 1] = Len(l[n])
    <3>1. 1 \in 1..Len(w)
      BY <2>2, <2>4
    <3> QED
      BY <2>2, <2>8, <3>1
  <2>10. ASSUME NEW i \in 1..Len(l[n]) PROVE N[E[n - 1] + 1 + i] = l[n][i]
    <3>0. PICK x \in Nat, y \in Nat : x = E[n - 1] /\ y = Len(l[n]) /\ Len(w) = 1 + y /\ i \in 1..y
      BY <2>2, <2>4
    <3>1. 1 + i \in 1..Len(w) /\ E[n - 1] + (1 + i) = E[n - 1] + 1 + i
      <4>1. i \in Nat /\ i >= 1 /\ i <= y
        BY <3>0
      <4>2. 1 + i \in 1..(1 + y) /\ x + (1 + i) = x + 1 + i
        BY <4>1
      <4> QED
        BY <3>0, <4>2
    <3>2. N[E[n - 1] + (1 + i)] = w[1 + i]
      BY <2>8, <3>1
    <3> QED
      BY <2>2, <3>1, <3>2
  <2> QED
    BY <2>9, <2>10
<1> QED
  BY <1>5, <1>6 DEF N, E, L, l

-----------------------------------------------------------------------------
(* Labels joined with dots.                                                *)

IsJoined(f, labels) ==
  f = [n \in 0..Len(labels) |->
         IF n = 0 THEN <<>> ELSE (IF n = 1 THEN <<>> ELSE f[n - 1] \o <<DOT>>) \o labels[n]]

(* What the recursive definition of Joined computes. *)
LEMMA JoinedValue ==
  ASSUME NEW T, DOT \in T, NEW labels \in Seq(Seq(T))
  PROVE  /\ Joined(labels) \in [0..Len(labels) -> Seq(T)] /\ Joined(labels)[0] = <<>>
         /\ \A n \in 1..Len(labels) :
              Joined(labels)[n] = (IF n = 1 THEN <<>> ELSE Joined(labels)[n - 1] \o <<DOT>>) \o labels[n]
<1> DEFINE S == Seq(T)
<1> DEFINE L == Len(labels)
<1>0. L \in Nat /\ \A i \in 1..L : labels[i] \in S
  OBVIOUS
<1>1. \A x \in S, i \in 1..L : (IF i = 1 THEN <<>> ELSE x \o <<DOT>>) \o labels[i] \in S
  <2> SUFFICES ASSUME NEW x \in S, NEW i \in 1..L
               PROVE  (IF i = 1 THEN <<>> ELSE x \o <<DOT>>) \o labels[i] \in S
    OBVIOUS
  <2>1. PICK y \in Seq(T) : y = IF i = 1 THEN <<>> ELSE x \o <<DOT>>
    <3>1. <<>> \in Seq(T) /\ x \o <<DOT>> \in Seq(T)
      BY Single, Concat
    <3> QED
      BY <3>1
  <2>2. PICK z \in Seq(T) : z = labels[i]
    BY <1>0
  <2>3. y \o z \in Seq(T)
    BY Concat
  <2> QED
    BY <2>1, <2>2, <2>3
<1> DEFINE F == [i \in 1..L |-> [x \in S |-> (IF i = 1 THEN <<>> ELSE x \o <<DOT>>) \o labels[i]]]
<1>3. PICK f : Steps(f, S, <<>>, F, L)
  <2>1. F \in [1..L -> [S -> S]]
    <3> HIDE DEF S, L
    <3> QED
      BY <1>1
  <2>2. <<>> \in S
    OBVIOUS
  <2> HIDE DEF F, S, L
  <2> QED
    BY <1>0, <2>1, <2>2, StepsExist
<1>4. f \in [0..L -> S] /\ f[0] = <<>> /\ \A i \in 1..L : f[i] = F[i][f[i - 1]]
  <2> HIDE DEF F, S, L
  <2> QED
    BY <1>3 DEF Steps
<1>5. \A i \in 1..L : f[i] = (IF i = 1 THEN <<>> ELSE f[i - 1] \o <<DOT>>) \o labels[i]
  <2> SUFFICES ASSUME NEW i \in 1..L PROVE f[i] = (IF i = 1 THEN <<>> ELSE f[i - 1] \o <<DOT>>) \o labels[i]
    OBVIOUS
  <2>1. i - 1 \in 0..L
    BY <1>0
  <2>2. f[i - 1] \in S /\ f[i] = F[i][f[i - 1]]
    BY <1>4, <2>1
  <2>3. F[i] = [x \in S |-> (IF i = 1 THEN <<>> ELSE x \o <<DOT>>) \o labels[i]]
    OBVIOUS
  <2> HIDE DEF S, F
  <2> QED
    BY <2>2, <2>3
<1>6. IsJoined(f, labels)
  <2>2. f = [i \in 0..L |-> f[i]]
    BY <1>4
  <2>3. \A i \in 0..L : i # 0 => i \in 1..L
    BY <1>0
  <2>4. \A i \in 0..L : f[i] = IF i = 0 THEN <<>> ELSE (IF i = 1 THEN <<>> ELSE f[i - 1] \o <<DOT>>) \o labels[i]
    BY <1>4, <1>5, <2>3, Zenon
  <2> QED
    BY <2>2, <2>4, Zenon DEF IsJoined
<1>7. PICK g : g = CHOOSE h : IsJoined(h, labels)
  OBVIOUS
<1>8. IsJoined(g, labels)
  BY <1>6, <1>7
<1>9. Joined(labels) = g
  BY <1>7 DEF Joined, IsJoined
<1>10. g[0] = <<>> /\ \A n \in 1..L : g[n] = (IF n = 1 THEN <<>> ELSE g[n - 1] \o <<DOT>>) \o labels[n]
  <2>1. g[0] = <<>>
    BY <1>0, <1>8 DEF IsJoined
  <2>2. ASSUME NEW n \in 1..L PROVE g[n] = (IF n = 1 THEN <<>> ELSE g[n - 1] \o <<DOT>>) \o labels[n]
    <3>1. n \in 0..L /\ n # 0
      BY <1>0
    <3> QED
      BY <1>8, <3>1 DEF IsJoined
  <2> QED
    BY <2>1, <2>2
<1>11. g \in [0..L -> S]
  <2> DEFINE G == {n \in 0..L : g[n] \in S}
  <2>1. 0 \in G
    <3>1. 0 \in 0..L /\ <<>> \in S
      BY <1>0
    <3> QED
      BY <1>10, <3>1
  <2>2. ASSUME NEW i \in 1..L, i - 1 \in G PROVE i \in G
    <3>1. g[i - 1] \in S /\ i \in 0..L
      BY <1>0, <2>2
    <3>2. (IF i = 1 THEN <<>> ELSE g[i - 1] \o <<DOT>>) \o labels[i] \in S
      <4> HIDE DEF S
      <4> QED
        BY <1>1, <3>1
    <3> QED
      BY <1>10, <3>1, <3>2
  <2>3. \A i \in 0..L : i \in G
    <3> HIDE DEF G
    <3> QED
      BY <1>0, <2>1, <2>2, UpTo
  <2>4. \A i \in 0..L : g[i] \in S
    BY <2>3
  <2>5. g = [i \in 0..L |-> g[i]]
    BY <1>8 DEF IsJoined
  <2> QED
    BY <2>4, <2>5
<1> QED
  BY <1>9, <1>10, <1>11

LEMMA OneMore == \A n, c \in Nat : n >= 1 => /\ (n - 1) * (c + 1) + (c + 1) = n * (c + 1)
                                            /\ n * (c + 1) \in Nat /\ (n - 1) * (c + 1) \in Nat
BY Z3

(* The labels, each of at most c characters, and the dots between them. *)
LEMMA JoinedLen ==
  ASSUME NEW T, DOT \in T, NEW labels \in Seq(Seq(T)), NEW c \in Nat,
         \A i \in 1..Len(labels) : Len(labels[i]) <= c
  PROVE  \A n \in 1..Len(labels) : Len(Joined(labels)[n]) + 1 <= n * (c + 1)
<1> DEFINE L == Len(labels)
<1> DEFINE J == Joined(labels)
<1>0. /\ L \in Nat /\ \A i \in 1..L : labels[i] \in Seq(T) /\ Len(labels[i]) \in Nat /\ Len(labels[i]) <= c
      /\ J \in [0..L -> Seq(T)] /\ J[0] = <<>>
      /\ \A n \in 1..L : J[n] = (IF n = 1 THEN <<>> ELSE J[n - 1] \o <<DOT>>) \o labels[n]
  <2>1. L \in Nat /\ \A i \in 1..L : labels[i] \in Seq(T)
    OBVIOUS
  <2>2. \A i \in 1..L : Len(labels[i]) \in Nat
    BY <2>1
  <2> QED
    BY <2>1, <2>2, JoinedValue
<1> HIDE DEF J, L
<1> DEFINE G == {n \in 0..L : n = 0 \/ Len(J[n]) + 1 <= n * (c + 1)}
<1>1. 0 \in G
  BY <1>0
<1>2. ASSUME NEW i \in 1..L, i - 1 \in G PROVE i \in G
  <2>0. i \in Nat /\ i >= 1 /\ i \in 0..L /\ i - 1 \in 0..L
    BY <1>0
  <2>1. PICK l : l = labels[i] /\ l \in Seq(T) /\ Len(l) \in Nat /\ Len(l) <= c
    BY <1>0
  <2>2. CASE i = 1
    <3>1. J[1] = <<>> \o l
      BY <1>0, <2>1, <2>2
    <3>2. <<>> \o l = l
      BY <2>1
    <3>3. Len(J[1]) + 1 <= c + 1
      BY <2>1, <3>1, <3>2
    <3>4. 1 * (c + 1) = c + 1
      BY Z3
    <3> QED
      BY <2>0, <2>2, <3>3, <3>4
  <2>3. CASE i # 1
    <3>1. PICK u : u = J[i - 1] /\ u \in Seq(T) /\ Len(u) \in Nat /\ Len(u) + 1 <= (i - 1) * (c + 1)
      <4>1. i - 1 # 0
        BY <2>0, <2>3
      <4>2. J[i - 1] \in Seq(T)
        BY <1>0, <2>0
      <4>3. Len(J[i - 1]) \in Nat
        BY <4>2
      <4> QED
        BY <1>2, <4>1, <4>2, <4>3
    <3>2. PICK v : v = u \o <<DOT>> /\ v \in Seq(T) /\ Len(v) = Len(u) + 1
      <4>1. PICK d : d = <<DOT>> /\ d \in Seq(T) /\ Len(d) = 1
        BY Single
      <4>2. u \in Seq(T)
        BY <3>1
      <4>3. u \o d \in Seq(T) /\ Len(u \o d) = Len(u) + Len(d)
        BY <4>1, <4>2, Concat
      <4> QED
        BY <4>1, <4>3
    <3>3. J[i] = v \o l
      BY <1>0, <2>1, <2>3, <3>1, <3>2
    <3>4. Len(v \o l) = Len(v) + Len(l)
      BY <2>1, <3>2, Concat
    <3>5. /\ (i - 1) * (c + 1) + (c + 1) = i * (c + 1)
          /\ i * (c + 1) \in Nat /\ (i - 1) * (c + 1) \in Nat
      BY <2>0, OneMore
    <3>6. PICK x \in Nat, y \in Nat : x = (i - 1) * (c + 1) /\ y = i * (c + 1) /\ x + (c + 1) = y
      BY <3>5
    <3>7. Len(J[i]) + 1 <= y
      <4>1. Len(u) \in Nat /\ Len(u) + 1 <= x /\ Len(l) \in Nat /\ Len(l) <= c
        BY <2>1, <3>1, <3>6
      <4>2. Len(J[i]) = Len(u) + 1 + Len(l)
        BY <3>2, <3>3, <3>4
      <4> QED
        BY <3>6, <4>1, <4>2
    <3> QED
      BY <2>0, <3>6, <3>7
  <2> QED
    BY <2>2, <2>3
<1>3. \A i \in 0..L : i \in G
  <2> HIDE DEF G
  <2> QED
    BY <1>0, <1>1, <1>2, UpTo
<1>4. \A i \in 1..L : i \in 0..L /\ i # 0
  BY <1>0
<1> QED
  BY <1>3, <1>4 DEF J, L

-----------------------------------------------------------------------------
(* The turns of parse_dns_name.                                            *)

IsTurns(f, p, n) ==
  f = [i \in 0..n |-> IF i = 0 THEN [pos |-> payload_off(p) + 12, out |-> <<>>, done |-> FALSE]
                      ELSE DnsLabel(p, f[i - 1], i - 1)]

(* The function that DnsText defines recursively exists. *)
LEMMA TurnsExist ==
  ASSUME NEW p, NEW n \in Nat
  PROVE  \E f : IsTurns(f, p, n)
<1> DEFINE G == {i \in 0..n : \E f : IsTurns(f, p, i)}
<1> DEFINE s0 == [pos |-> payload_off(p) + 12, out |-> <<>>, done |-> FALSE]
<1>1. 0 \in G
  <2>1. PICK f : f = [i \in 0..0 |-> s0]
    OBVIOUS
  <2>2. IsTurns(f, p, 0)
    BY <2>1 DEF IsTurns
  <2> QED
    BY <2>2
<1>2. ASSUME NEW i \in 1..n, i - 1 \in G PROVE i \in G
  <2>1. PICK f : IsTurns(f, p, i - 1)
    BY <1>2
  <2>2. PICK x : x = DnsLabel(p, f[i - 1], i - 1)
    OBVIOUS
  <2>3. PICK g : g = [j \in 0..i |-> IF j = i THEN x ELSE f[j]]
    OBVIOUS
  <2>4. \A j \in 0..(i - 1) : f[j] = IF j = 0 THEN s0 ELSE DnsLabel(p, f[j - 1], j - 1)
    BY <2>1 DEF IsTurns
  <2>5. \A j \in 0..i : g[j] = IF j = 0 THEN s0 ELSE DnsLabel(p, g[j - 1], j - 1)
    <3> SUFFICES ASSUME NEW j \in 0..i
                 PROVE  g[j] = IF j = 0 THEN s0 ELSE DnsLabel(p, g[j - 1], j - 1)
      OBVIOUS
    <3> HIDE DEF s0
    <3>1. CASE j = 0
      BY <2>3, <2>4, <3>1
    <3>2. CASE j # 0
      <4>1. g[j - 1] = f[j - 1]
        BY <2>3, <3>2
      <4>2. CASE j = i
        BY <2>2, <2>3, <3>2, <4>1, <4>2
      <4>3. CASE j # i
        BY <2>3, <2>4, <3>2, <4>1, <4>3
      <4> QED
        BY <4>2, <4>3
    <3> QED
      BY <3>1, <3>2
  <2>6. IsTurns(g, p, i)
    BY <2>3, <2>5 DEF IsTurns
  <2> QED
    BY <2>6
<1>3. \A i \in 0..n : i \in G
  <2> HIDE DEF G
  <2> QED
    BY <1>1, <1>2, UpTo
<1> QED
  BY <1>3

(* The first m labels are in the packet, the next one is not. *)
Stopped(p, m) ==
  LET end == LabelEnds(p.body.labels) IN
    /\ m = 0 \/ payload_off(p) + 12 + end[m] <= p.len
    /\ m = Len(p.body.labels) \/ ~(payload_off(p) + 12 + end[m + 1] <= p.len)

(* After n turns: still on the way, or stopped behind m labels. *)
Turned(p, s, n) ==
  LET labels == p.body.labels
      text == Joined(Shown(labels))
  IN \/ /\ ~s.done /\ n <= Len(labels) /\ s.pos = payload_off(p) + 12 + LabelEnds(labels)[n]
        /\ n = 0 \/ s.pos <= p.len
        /\ s.out = text[n]
     \/ /\ s.done
        /\ \E m \in 0..Len(labels) : /\ Stopped(p, m) /\ m < n
                                     /\ s.out = text[m] \o (IF Begun(p, m) THEN <<DOT>> ELSE <<>>)

LEMMA IsSequence ==
  ASSUME NEW U, NEW n \in Nat, NEW f \in [1..n -> U]
  PROVE  f \in Seq(U) /\ Len(f) = n
OBVIOUS

(* What is kept of the labels. *)
LEMMA ShownFacts ==
  ASSUME NEW b, IsName(b)
  PROVE  /\ Shown(b.labels) \in Seq(Seq(Nat \ {NUL})) /\ Len(Shown(b.labels)) = Len(b.labels)
         /\ \A n \in 1..Len(b.labels) :
              LET k == Min({Len(b.labels[n]), LABEL_CHARS}) IN
                /\ k \in Nat /\ k <= Len(b.labels[n]) /\ k <= LABEL_CHARS
                /\ Len(Shown(b.labels)[n]) = k
                /\ Shown(b.labels)[n] = [i \in 1..k |-> b.labels[n][i]]
<1> DEFINE T == Nat \ {NUL}
<1>0. PICK l : /\ l = b.labels /\ Len(l) \in Nat
               /\ \A n \in 1..Len(l) : l[n] \in Seq(T) /\ Len(l[n]) \in Nat
  <2>1. Len(b.labels) \in Nat
    BY NameLabels, LabelFacts
  <2>2. \A n \in 1..Len(b.labels) : b.labels[n] \in Seq(T) /\ Len(b.labels[n]) \in Nat
    BY NameLabels, LabelFacts
  <2> QED
    BY <2>1, <2>2
<1>1. LABEL_CHARS \in Nat
  BY ProgramAssumption
<1>2. PICK sh : sh = Shown(l) /\ sh = [i \in 1..Len(l) |-> SubSeq(l[i], 1, Min({Len(l[i]), LABEL_CHARS}))]
  BY DEF Shown
<1>3. ASSUME NEW n \in 1..Len(l)
      PROVE  LET k == Min({Len(l[n]), LABEL_CHARS}) IN
               /\ k \in Nat /\ k <= Len(l[n]) /\ k <= LABEL_CHARS
               /\ Len(sh[n]) = k /\ sh[n] \in Seq(T) /\ sh[n] = [i \in 1..k |-> l[n][i]]
  <2>1. PICK w : w = l[n] /\ w \in Seq(T) /\ Len(w) \in Nat
    BY <1>0
  <2>2. PICK k \in Nat : k = Min({Len(w), LABEL_CHARS}) /\ k <= Len(w) /\ k <= LABEL_CHARS
    <3>1. Min({Len(w), LABEL_CHARS}) = IF Len(w) <= LABEL_CHARS THEN Len(w) ELSE LABEL_CHARS
      BY <1>1, <2>1, MinOfTwo
    <3> QED
      BY <1>1, <2>1, <3>1
  <2>3. PICK v : v = SubSeq(w, 1, k) /\ v \in Seq(T) /\ Len(v) = k /\ \A j \in 1..k : v[j] = w[j]
    <3> HIDE DEF T
    <3>1. /\ SubSeq(w, 1, k) \in Seq(T) /\ Len(SubSeq(w, 1, k)) = k
          /\ \A j \in 1..k : SubSeq(w, 1, k)[j] = w[j]
      BY <2>1, <2>2, FirstOf, ZenonT(60)
    <3> QED
      BY <3>1
  <2>4. v = [i \in 1..k |-> w[i]]
    BY <2>3
  <2>5. sh[n] = v
    BY <1>2, <2>1, <2>2, <2>3
  <2> QED
    BY <2>1, <2>2, <2>3, <2>4, <2>5
<1>4. sh \in Seq(Seq(T)) /\ Len(sh) = Len(l)
  <2>1. \A n \in 1..Len(l) : sh[n] \in Seq(T)
    BY <1>3
  <2>2. sh = [i \in 1..Len(l) |-> sh[i]]
    BY <1>2
  <2>3. sh \in [1..Len(l) -> Seq(T)]
    BY <2>1, <2>2
  <2> HIDE DEF T
  <2> QED
    BY <1>0, <2>3, IsSequence
<1> QED
  BY <1>0, <1>2, <1>3, <1>4, ZenonT(60)

(* The two ways to be Turned. *)
LEMMA TurnedOn ==
  ASSUME NEW p, NEW s, NEW n, ~s.done, n <= Len(p.body.labels),
         s.pos = payload_off(p) + 12 + LabelEnds(p.body.labels)[n], s.pos <= p.len,
         s.out = Joined(Shown(p.body.labels))[n]
  PROVE  Turned(p, s, n)
BY Zenon DEF Turned

LEMMA TurnedDone ==
  ASSUME NEW p, NEW s, NEW n, NEW m \in 0..Len(p.body.labels), s.done, Stopped(p, m), m < n,
         s.out = Joined(Shown(p.body.labels))[m] \o (IF Begun(p, m) THEN <<DOT>> ELSE <<>>)
  PROVE  Turned(p, s, n)
BY Zenon DEF Turned

(* From the end of a label, e, to that of the next one. *)
LEMMA NextLabel ==
  ASSUME NEW base \in Nat, NEW e \in Nat, NEW e2 \in Nat, NEW len \in Nat, NEW end \in Nat, NEW pos,
         pos = base + e, e2 = e + 1 + len
  PROVE  /\ pos + 1 > end => ~(base + e + 1 <= end) /\ ~(base + e2 <= end)
         /\ pos + 1 + len = base + e2 /\ (pos + 1 + len > end <=> ~(base + e2 <= end))
OBVIOUS

LEMMA NoMore == ASSUME NEW S, NEW s \in Seq(S) PROVE s \o <<>> = s /\ <<>> \o s = s
OBVIOUS

LEMMA Appended == ASSUME NEW S, NEW s \in Seq(S), NEW x \in S PROVE Append(s, x) = s \o <<x>>
OBVIOUS

(* One turn: the label is kept, or it is cut off or there is none. *)
LEMMA TurnStep ==
  ASSUME NEW p, IsPacket(p), IsName(p.body), NEW n \in 1..DNS_LABELS,
         NEW s, s = [pos |-> s.pos, out |-> s.out, done |-> s.done], s.done \in BOOLEAN,
         Turned(p, s, n - 1)
  PROVE  LET t == DnsLabel(p, s, n - 1) IN
           Turned(p, t, n) /\ t = [pos |-> t.pos, out |-> t.out, done |-> t.done] /\ t.done \in BOOLEAN
<1> DEFINE labels == p.body.labels
<1> DEFINE L == Len(labels)
<1> DEFINE E == LabelEnds(labels)
<1> DEFINE J == Joined(Shown(labels))
<1> DEFINE base == payload_off(p) + 12
<1> DEFINE T == Nat \ {NUL}
<1>0. /\ L \in Nat /\ E \in [0..L -> Nat] /\ base \in Nat /\ p.len \in Nat
      /\ \A k \in 1..L : Len(labels[k]) \in 1..191 /\ E[k] = E[k - 1] + 1 + Len(labels[k])
      /\ \A i \in 0..L : \A j \in i..L : E[i] <= E[j]
  <2>1. labels \in Seq(Seq(Nat)) /\ \A k \in 1..L : Len(labels[k]) \in 1..191
    BY NameLabels, SMTT(40)
  <2>2. payload_off(p) \in Nat /\ p.len \in Nat
    BY Headers
  <2>3. base \in Nat
    BY <2>2
  <2>4. /\ L \in Nat /\ E \in [0..L -> Nat]
        /\ \A k \in 1..L : E[k] = E[k - 1] + 1 + Len(labels[k])
        /\ \A i \in 0..L : \A j \in i..L : E[i] <= E[j]
    BY <2>1, LabelFacts
  <2> HIDE DEF base, E, L, labels
  <2> QED
    BY <2>1, <2>2, <2>3, <2>4, SMTT(40)
<1>1. /\ J \in [0..L -> Seq(T)]
      /\ \A k \in 1..L : J[k] = (IF k = 1 THEN <<>> ELSE J[k - 1] \o <<DOT>>) \o Shown(labels)[k]
      /\ J[0] = <<>>
  <2>1. Shown(labels) \in Seq(Seq(T)) /\ Len(Shown(labels)) = L /\ DOT \in T
    BY ShownFacts DEF DOT, NUL
  <2> HIDE DEF T
  <2> QED
    BY <2>1, JoinedValue
<1>2. DNS_LABELS \in Nat /\ n \in Nat /\ n >= 1
  BY ProgramAssumption
<1>3. CASE s.done
  <2>1. DnsLabel(p, s, n - 1) = [s EXCEPT !.done = TRUE]
    BY <1>3 DEF DnsLabel
  <2>2. DnsLabel(p, s, n - 1) = s
    BY <1>3, <2>1
  <2>3. PICK m \in 0..L : /\ Stopped(p, m) /\ m < n - 1
                          /\ s.out = J[m] \o (IF Begun(p, m) THEN <<DOT>> ELSE <<>>)
    BY <1>3 DEF Turned
  <2>4. m < n
    BY <1>2, <2>3, SMTT(40)
  <2>5. Turned(p, s, n)
    BY <1>3, <2>3, <2>4 DEF Turned
  <2> QED
    BY <2>2, <2>5
<1>4. CASE ~s.done
  <2>1. n - 1 <= L /\ s.pos = base + E[n - 1] /\ (n - 1 = 0 \/ s.pos <= p.len) /\ s.out = J[n - 1]
    BY <1>4 DEF Turned
  <2>2. n - 1 \in 0..L /\ E[n - 1] \in Nat /\ s.pos \in Nat /\ J[n - 1] \in Seq(T)
    <3> HIDE DEF E, J, L, T, base
    <3>0. L \in Nat /\ base \in Nat /\ n - 1 <= L
      BY <1>0, <2>1, Zenon
    <3>1. n - 1 \in 0..L
      BY <1>2, <3>0
    <3>2. E \in [0..L -> Nat] /\ J \in [0..L -> Seq(T)]
      BY <1>0, <1>1, Zenon
    <3>3. E[n - 1] \in Nat /\ J[n - 1] \in Seq(T)
      BY <3>1, <3>2
    <3>4. s.pos = base + E[n - 1]
      BY <2>1, Zenon
    <3> QED
      BY <3>0, <3>1, <3>3, <3>4
  <2>3. PICK N, q : N = NameBytes(p.body) /\ q = s.pos - base + 1 /\ q = E[n - 1] + 1
    <3> HIDE DEF E, base
    <3>0. base \in Nat /\ E[n - 1] \in Nat /\ s.pos = base + E[n - 1]
      BY <1>0, <2>1, <2>2, Zenon
    <3>1. s.pos - base + 1 = E[n - 1] + 1
      BY <3>0
    <3> QED
      BY <3>1
  <2>4. PICK dotted : dotted = IF n - 1 > 0 THEN Append(s.out, DOT) ELSE s.out
    OBVIOUS
  <2>5. DnsLabel(p, s, n - 1) =
           IF s.done \/ s.pos + 1 > p.len \/ N[q] = 0 \/ N[q] >= 192
             THEN [s EXCEPT !.done = TRUE]
           ELSE IF s.pos + 1 + N[q] > p.len
             THEN [s EXCEPT !.out = dotted, !.done = TRUE]
           ELSE [pos |-> s.pos + 1 + N[q],
                 out |-> dotted \o [i \in 1..Min({N[q], LABEL_CHARS}) |-> N[q + i]],
                 done |-> FALSE]
    <3>1. N = NameBytes(p.body) /\ q = s.pos - (payload_off(p) + 12) + 1
      BY <2>3
    <3> QED
      BY <2>4, <3>1, Zenon DEF DnsLabel
  <2>6. dotted = IF n = 1 THEN <<>> ELSE J[n - 1] \o <<DOT>>
    <3>1. CASE n = 1
      BY <1>1, <2>1, <2>4, <3>1
    <3>2. CASE n # 1
      <4>1. n - 1 > 0 /\ DOT \in T
        BY <1>2, <3>2 DEF DOT, NUL
      <4>2. dotted = Append(J[n - 1], DOT)
        BY <2>1, <2>4, <4>1
      <4> HIDE DEF T
      <4> QED
        BY <2>2, <3>2, <4>1, <4>2, Appended
    <3> QED
      BY <3>1, <3>2
  (* The loop ends behind the labels so far. *)
  <2>7. ASSUME DnsLabel(p, s, n - 1) = [s EXCEPT !.done = TRUE], Stopped(p, n - 1), ~Begun(p, n - 1)
        PROVE  LET t == DnsLabel(p, s, n - 1) IN
                 Turned(p, t, n) /\ t = [pos |-> t.pos, out |-> t.out, done |-> t.done] /\ t.done \in BOOLEAN
    <3>1. PICK t : t = [pos |-> s.pos, out |-> s.out, done |-> TRUE]
      OBVIOUS
    <3>2. DnsLabel(p, s, n - 1) = t
      BY <2>7, <3>1
    <3>3. t.out = J[n - 1] \o (IF Begun(p, n - 1) THEN <<DOT>> ELSE <<>>)
      <4> HIDE DEF T
      <4> QED
        BY <2>1, <2>2, <2>7, <3>1, NoMore
    <3>4. n - 1 < n
      BY <1>2
    <3>5. Turned(p, t, n)
      <4>1. t.done
        BY <3>1
      <4> QED
        BY <2>2, <2>7, <3>3, <3>4, <4>1, TurnedDone
    <3>6. t = [pos |-> t.pos, out |-> t.out, done |-> t.done] /\ t.done \in BOOLEAN
      BY <3>1
    <3> QED
      BY <3>2, <3>5, <3>6, Zenon
  <2>8. CASE n - 1 = L
    <3>1. N[q] = p.body.end
      BY <2>3, <2>8, NameAt
    <3>2. N[q] = 0 \/ N[q] >= 192
      <4>1. p.body.end = 0 \/ p.body.end \in 192..255
        BY DEF IsName
      <4> QED
        BY <3>1, <4>1, ByteRanges, ZenonT(60)
    <3>3. DnsLabel(p, s, n - 1) = [s EXCEPT !.done = TRUE]
      BY <2>5, <3>2
    <3>4. Stopped(p, n - 1)
      BY <2>1, <2>8, SMTT(40) DEF Stopped
    <3>5. ~Begun(p, n - 1)
      BY <1>0, <2>8, SMTT(40) DEF Begun
    <3> QED
      BY <2>7, <3>3, <3>4, <3>5
  <2>9. CASE n - 1 # L
    <3>1. n \in 1..L /\ n \in 0..L
      <4> HIDE DEF L
      <4>1. L \in Nat /\ n - 1 \in 0..L
        BY <1>0, <2>2, Zenon
      <4> QED
        BY <1>2, <2>9, <4>1
    <3>2. PICK len \in Nat : /\ len = Len(labels[n]) /\ N[q] = len /\ E[n] = E[n - 1] + 1 + len /\ E[n] \in Nat
                             /\ len >= 1 /\ len <= 191
      <4>1. Len(labels[n]) \in 1..191
        BY <1>0, <3>1, ZenonT(60)
      <4>2. Len(labels[n]) \in Nat /\ Len(labels[n]) >= 1 /\ Len(labels[n]) <= 191
        BY <4>1, ByteRanges
      <4>3. N[q] = Len(labels[n])
        BY <2>3, <3>1, NameAt
      <4>4. E[n] = E[n - 1] + 1 + Len(labels[n]) /\ E[n] \in Nat
        BY <1>0, <3>1
      <4> QED
        BY <4>2, <4>3, <4>4
    <3>3. (n - 1) + 1 = n
      BY <1>2
    <3>4. Stopped(p, n - 1) <=> ~(base + E[n] <= p.len)
      BY <2>1, <2>9, <3>3 DEF Stopped
    <3>5. Begun(p, n - 1) <=> n # 1 /\ base + E[n - 1] + 1 <= p.len
      <4>1. n - 1 < L /\ (n - 1 > 0 <=> n # 1)
        BY <1>0, <1>2, <2>2, <2>9, SMTT(40)
      <4> QED
        BY <4>1, SMTT(40) DEF Begun
    <3> HIDE DEF base, E, J, L
    <3>6. base \in Nat /\ E[n - 1] \in Nat /\ p.len \in Nat /\ s.pos = base + E[n - 1] /\ E[n] = E[n - 1] + 1 + len
      BY <1>0, <2>1, <2>2, <3>2
    <3>7. /\ s.pos + 1 > p.len => ~(base + E[n - 1] + 1 <= p.len) /\ ~(base + E[n] <= p.len)
          /\ s.pos + 1 + len = base + E[n] /\ (s.pos + 1 + len > p.len <=> ~(base + E[n] <= p.len))
      BY <3>6, NextLabel
    <3>8. CASE s.pos + 1 > p.len
      <4>1. DnsLabel(p, s, n - 1) = [s EXCEPT !.done = TRUE]
        BY <2>5, <3>8
      <4> QED
        BY <2>7, <3>4, <3>5, <3>7, <3>8, <4>1
    <3>9. CASE ~(s.pos + 1 > p.len) /\ s.pos + 1 + len > p.len
      <4>1. DnsLabel(p, s, n - 1) = [s EXCEPT !.out = dotted, !.done = TRUE]
        BY <1>4, <2>5, <3>2, <3>9
      <4>2. PICK t : t = [pos |-> s.pos, out |-> dotted, done |-> TRUE]
        OBVIOUS
      <4>3. DnsLabel(p, s, n - 1) = t
        BY <4>1, <4>2
      <4>4. base + E[n - 1] + 1 <= p.len
        BY <1>0, <2>1, <2>2, <3>9, SMTT(40)
      <4>5. dotted = J[n - 1] \o (IF Begun(p, n - 1) THEN <<DOT>> ELSE <<>>)
        <5>1. CASE n = 1
          <6>1. <<>> \o <<>> = <<>> /\ n - 1 = 0
            BY <5>1
          <6> QED
            BY <1>1, <2>6, <3>5, <5>1, <6>1
        <5>2. CASE n # 1
          BY <2>6, <3>5, <4>4, <5>2
        <5> QED
          BY <5>1, <5>2
      <4>6. n - 1 < n /\ Stopped(p, n - 1)
        BY <1>2, <3>4, <3>7, <3>9
      <4>7. Turned(p, t, n)
        <5>1. t.done /\ t.out = dotted
          BY <4>2
        <5> QED
          BY <2>2, <4>5, <4>6, <5>1, TurnedDone DEF J, L
      <4>8. t = [pos |-> t.pos, out |-> t.out, done |-> t.done] /\ t.done \in BOOLEAN
        BY <4>2
      <4> QED
        BY <4>3, <4>7, <4>8, Zenon
    <3>10. CASE ~(s.pos + 1 > p.len) /\ ~(s.pos + 1 + len > p.len)
      <4>1. PICK text : text = [i \in 1..Min({len, LABEL_CHARS}) |-> N[q + i]]
        OBVIOUS
      <4>2. PICK t : t = [pos |-> s.pos + 1 + len, out |-> dotted \o text, done |-> FALSE]
        OBVIOUS
      <4>3. DnsLabel(p, s, n - 1) = t
        <5>1. ~(N[q] = 0 \/ N[q] >= 192)
          BY <3>2
        <5> QED
          BY <1>4, <2>5, <3>2, <3>10, <4>1, <4>2, <5>1
      <4>4. text = Shown(labels)[n]
        <5>1. PICK k \in Nat : /\ k = Min({len, LABEL_CHARS}) /\ k <= len
                               /\ Shown(labels)[n] = [i \in 1..k |-> labels[n][i]]
          <6>1. LET k == Min({Len(labels[n]), LABEL_CHARS}) IN
                  /\ k \in Nat /\ k <= Len(labels[n])
                  /\ Shown(labels)[n] = [i \in 1..k |-> labels[n][i]]
            BY <3>1, ShownFacts, ZenonT(60) DEF L
          <6> QED
            BY <3>2, <6>1
        <5>2. \A i \in 1..k : N[q + i] = labels[n][i]
          <6> SUFFICES ASSUME NEW i \in 1..k PROVE N[q + i] = labels[n][i]
            OBVIOUS
          <6>1. i \in 1..len
            BY <5>1
          <6>2. NameBytes(p.body)[LabelEnds(labels)[n - 1] + 1 + i] = labels[n][i]
            BY <3>1, <3>2, <6>1, NameAt, SMTT(40) DEF L
          <6> QED
            BY <2>3, <6>2 DEF E
        <5> QED
          BY <4>1, <5>1, <5>2
      <4>5. t.out = J[n]
        BY <1>1, <2>6, <3>1, <4>2, <4>4
      <4>6. t.pos = base + E[n] /\ t.pos <= p.len
        BY <1>0, <3>2, <3>7, <3>10, <4>2, SMTT(40)
      <4>7. n <= L
        BY <1>0, <3>1
      <4>8. Turned(p, t, n)
        <5>1. ~t.done
          BY <4>2
        <5> QED
          BY <4>5, <4>6, <4>7, <5>1, TurnedOn DEF J, L, E, base
      <4>9. t = [pos |-> t.pos, out |-> t.out, done |-> t.done] /\ t.done \in BOOLEAN
        BY <4>2
      <4> QED
        BY <4>3, <4>8, <4>9, Zenon
    <3> QED
      BY <3>8, <3>9, <3>10
  <2> QED
    BY <2>8, <2>9
<1> QED
  BY <1>3, <1>4

(* How many labels are whole, when the loop stops behind m of them. *)
LEMMA WholeIs ==
  ASSUME NEW p, IsPacket(p), IsName(p.body), NEW n \in Nat, NEW m \in 0..Len(p.body.labels), m <= n,
         m = 0 \/ payload_off(p) + 12 + LabelEnds(p.body.labels)[m] <= p.len,
         m = n \/ Stopped(p, m)
  PROVE  Whole(p, n) = m
<1> DEFINE labels == p.body.labels
<1> DEFINE L == Len(labels)
<1> DEFINE E == LabelEnds(labels)
<1> DEFINE base == payload_off(p) + 12
<1> DEFINE S == {k \in 0..Min({n, L}) : k = 0 \/ base + E[k] <= p.len}
<1>0. /\ L \in Nat /\ E \in [0..L -> Nat] /\ \A i \in 0..L : \A j \in i..L : E[i] <= E[j]
  BY NameLabels, LabelFacts
<1>1. base \in Nat /\ p.len \in Nat
  BY Headers
<1>2. PICK c \in Nat : c = Min({n, L}) /\ c <= n /\ c <= L /\ (c = n \/ c = L)
  <2>1. Min({n, L}) = IF n <= L THEN n ELSE L
    BY <1>0, MinOfTwo
  <2> QED
    BY <1>0, <2>1
<1>3. Whole(p, n) = Max(S)
  BY DEF Whole
<1>4. S = {k \in 0..c : k = 0 \/ base + E[k] <= p.len}
  BY <1>2
<1>5. m \in S
  <2>1. m \in 0..c
    BY <1>0, <1>2
  <2> QED
    BY <1>4, <2>1
<1>6. ASSUME NEW k \in S PROVE k <= m
  <2>1. k \in 0..c /\ (k = 0 \/ base + E[k] <= p.len)
    BY <1>4
  <2>2. CASE m = n
    BY <1>0, <1>2, <2>1, <2>2
  <2>3. CASE m # n /\ m = L
    BY <1>0, <1>2, <2>1, <2>3
  <2>4. CASE m # n /\ m # L
    <3>1. ~(base + E[m + 1] <= p.len)
      BY <2>4 DEF Stopped
    <3> SUFFICES ASSUME k > m PROVE FALSE
      BY <2>1
    <3>2. k \in (m + 1)..L /\ m + 1 \in 0..L /\ k \in 0..L /\ k # 0
      BY <1>0, <1>2, <2>1
    <3>3. E[m + 1] <= E[k] /\ E[m + 1] \in Nat /\ E[k] \in Nat
      BY <1>0, <3>2
    <3>4. base + E[k] <= p.len
      BY <2>1, <3>2
    <3> HIDE DEF base, E
    <3> QED
      BY <1>1, <3>1, <3>3, <3>4
  <2> QED
    BY <2>2, <2>3, <2>4
<1>7. S \in SUBSET Int
  BY <1>4
<1> HIDE DEF S
<1> QED
  BY <1>3, <1>5, <1>6, <1>7, MaxIs

(* Products are in the order of their first factors. *)
LEMMA Products ==
  \A m, n, c \in Nat : /\ m * (c + 1) \in Nat
                       /\ m <= n => m * (c + 1) <= n * (c + 1)
                       /\ m < n => m * (c + 1) + 1 <= n * (c + 1)
<1>1. \A m, d, c \in Nat : /\ (m + d) * (c + 1) = m * (c + 1) + d * (c + 1) /\ m * (c + 1) \in Nat
  BY Z3
<1>2. \A d, c \in Nat : d * (c + 1) \in Nat /\ (d >= 1 => d * (c + 1) >= 1)
  BY Z3
<1> SUFFICES ASSUME NEW m \in Nat, NEW n \in Nat, NEW c \in Nat
             PROVE  /\ m * (c + 1) \in Nat
                    /\ m <= n => m * (c + 1) <= n * (c + 1)
                    /\ m < n => m * (c + 1) + 1 <= n * (c + 1)
  OBVIOUS
<1>3. CASE m <= n
  <2>1. PICK d \in Nat : n = m + d /\ d = n - m
    BY <1>3
  <2>2. PICK x \in Nat, y \in Nat, z \in Nat : x = m * (c + 1) /\ y = d * (c + 1) /\ z = n * (c + 1) /\ z = x + y
                                              /\ (d >= 1 => y >= 1)
    BY <1>1, <1>2, <2>1
  <2>3. x <= z /\ (m < n => x + 1 <= z)
    BY <2>1, <2>2
  <2> QED
    BY <2>2, <2>3
<1>4. CASE ~(m <= n)
  BY <1>1, <1>4
<1> QED
  BY <1>3, <1>4

(* parse_dns_name finds what ought to be shown, and it fits. *)
LEMMA DnsValue ==
  ASSUME NEW p, IsPacket(p), IsName(p.body)
  PROVE  /\ DnsText(p) = DnsExpected(p) /\ DnsText(p) \in Seq(Nat \ {NUL})
         /\ Len(DnsText(p)) + 1 <= MAX_DNS_NAME
<1> DEFINE labels == p.body.labels
<1> DEFINE L == Len(labels)
<1> DEFINE J == Joined(Shown(labels))
<1> DEFINE T == Nat \ {NUL}
<1> DEFINE D == DNS_LABELS
<1> DEFINE C == LABEL_CHARS
<1>0. D \in Nat /\ D >= 1 /\ C \in Nat /\ MAX_DNS_NAME \in Nat /\ D * (C + 1) <= MAX_DNS_NAME
  BY ProgramAssumption
<1>1. L \in Nat
  BY NameLabels, LabelFacts
<1>2. /\ J \in [0..L -> Seq(T)] /\ J[0] = <<>>
      /\ \A n \in 1..L : Len(J[n]) + 1 <= n * (C + 1)
  <2>1. Shown(labels) \in Seq(Seq(T)) /\ Len(Shown(labels)) = L /\ DOT \in T
    BY ShownFacts DEF DOT, NUL
  <2>2. \A i \in 1..Len(Shown(labels)) : Len(Shown(labels)[i]) <= C
    <3> SUFFICES ASSUME NEW i \in 1..L PROVE Len(Shown(labels)[i]) <= C
      BY <2>1
    <3>1. LET k == Min({Len(labels[i]), C}) IN k <= C /\ Len(Shown(labels)[i]) = k
      BY ShownFacts
    <3> QED
      BY <3>1
  <2> HIDE DEF T
  <2> QED
    BY <1>0, <2>1, <2>2, JoinedValue, JoinedLen
<1>3. PICK f : f = CHOOSE g : IsTurns(g, p, D)
  OBVIOUS
<1>4. IsTurns(f, p, D)
  BY <1>0, <1>3, TurnsExist
<1>5. DnsText(p) = f[D].out
  BY <1>3 DEF DnsText, IsTurns
<1>6. Turned(p, f[D], D)
  <2> DEFINE ok(s) == s = [pos |-> s.pos, out |-> s.out, done |-> s.done] /\ s.done \in BOOLEAN
  <2> DEFINE G == {i \in 0..D : Turned(p, f[i], i) /\ ok(f[i])}
  <2>1. 0 \in G
    <3>1. f[0] = [pos |-> payload_off(p) + 12, out |-> <<>>, done |-> FALSE] /\ 0 \in 0..D
      BY <1>0, <1>4 DEF IsTurns
    <3>2. LabelEnds(labels)[0] = 0 /\ payload_off(p) \in Nat
      BY NameLabels, LabelFacts, Headers
    <3>3. f[0].pos = payload_off(p) + 12 + LabelEnds(labels)[0] /\ 0 <= L /\ ~f[0].done /\ f[0].out = J[0]
      BY <1>1, <1>2, <3>1, <3>2
    <3>4. Turned(p, f[0], 0)
      BY <3>3, Zenon DEF Turned
    <3>5. ok(f[0])
      BY <3>1
    <3> HIDE DEF ok
    <3> QED
      BY <3>1, <3>4, <3>5
  <2>2. ASSUME NEW i \in 1..D, i - 1 \in G PROVE i \in G
    <3>1. f[i] = DnsLabel(p, f[i - 1], i - 1) /\ i \in 0..D
      <4>1. i \in 0..D /\ i # 0
        BY <1>0
      <4> QED
        BY <1>4, <4>1 DEF IsTurns
    <3>2. Turned(p, DnsLabel(p, f[i - 1], i - 1), i) /\ ok(DnsLabel(p, f[i - 1], i - 1))
      BY <2>2, TurnStep
    <3> HIDE DEF ok
    <3> QED
      BY <3>1, <3>2
  <2>3. \A i \in 0..D : i \in G
    <3> HIDE DEF G
    <3> QED
      BY <1>0, <2>1, <2>2, UpTo
  <2>4. D \in G
    BY <1>0, <2>3
  <2> HIDE DEF ok
  <2> QED
    BY <2>4
<1>7. CASE ~f[D].done
  <2>1. /\ D <= L /\ payload_off(p) + 12 + LabelEnds(labels)[D] <= p.len /\ f[D].out = J[D]
    <3>1. D # 0
      BY <1>0
    <3>2. PICK s : s = f[D] /\ ~s.done /\ Turned(p, s, D)
      BY <1>6, <1>7
    <3>3. /\ D <= L /\ s.pos = payload_off(p) + 12 + LabelEnds(labels)[D] /\ (D = 0 \/ s.pos <= p.len)
          /\ s.out = J[D]
      BY <3>2, Zenon DEF Turned
    <3> QED
      BY <3>1, <3>2, <3>3
  <2>2. D \in 0..L /\ D \in 1..L
    BY <1>0, <1>1, <2>1
  <2>3. Whole(p, D) = D
    <3>1. D \in Nat /\ D <= D
      BY <1>0
    <3> QED
      BY <2>1, <2>2, <3>1, WholeIs
  <2>4. J[D] \in Seq(T) /\ ~(D < D)
    <3>1. ~(D < D)
      BY <1>0
    <3>2. J[D] \in Seq(T)
      <4> HIDE DEF J, T, D, L
      <4> QED
        BY <1>2, <2>2
    <3> QED
      BY <3>1, <3>2
  <2>5. DnsExpected(p) = J[D] \o <<>>
    BY <2>3, <2>4 DEF DnsExpected
  <2>6. J[D] \o <<>> = J[D]
    <3> HIDE DEF T
    <3> QED
      BY <2>4, NoMore
  <2>7. Len(J[D]) + 1 <= MAX_DNS_NAME
    <3>1. Len(J[D]) + 1 <= D * (C + 1)
      BY <1>2, <2>2
    <3>2. PICK x \in Nat : x = D * (C + 1)
      BY <1>0, Products
    <3>3. Len(J[D]) \in Nat
      BY <2>4
    <3> HIDE DEF D, C, J
    <3> QED
      BY <1>0, <3>1, <3>2, <3>3
  <2> QED
    BY <1>5, <2>1, <2>4, <2>5, <2>6, <2>7
<1>8. CASE f[D].done
  <2>1. PICK m \in 0..L : /\ Stopped(p, m) /\ m < D
                          /\ f[D].out = J[m] \o (IF Begun(p, m) THEN <<DOT>> ELSE <<>>)
    BY <1>6, <1>8 DEF Turned
  <2>2. Whole(p, D) = m
    <3>1. m = 0 \/ payload_off(p) + 12 + LabelEnds(labels)[m] <= p.len
      BY <2>1 DEF Stopped
    <3>2. m <= D
      BY <1>0, <1>1, <2>1
    <3> QED
      BY <1>0, <2>1, <3>1, <3>2, WholeIs
  <2>3. DnsExpected(p) = J[m] \o (IF Begun(p, m) THEN <<DOT>> ELSE <<>>)
    BY <2>1, <2>2 DEF DnsExpected
  <2>4. J[m] \in Seq(T) /\ Len(J[m]) \in Nat /\ DOT \in T
    <3>1. J[m] \in Seq(T)
      BY <1>2
    <3> QED
      BY <3>1 DEF DOT, NUL
  <2>5. m \in Nat /\ (m # 0 => m \in 1..L)
    BY <1>1
  <2>6. CASE Begun(p, m)
    <3>1. m # 0
      BY <2>6 DEF Begun
    <3>2. J[m] \o <<DOT>> \in Seq(T) /\ Len(J[m] \o <<DOT>>) = Len(J[m]) + 1
      <4>1. PICK d : d = <<DOT>> /\ d \in Seq(T) /\ Len(d) = 1
        <5> HIDE DEF T
        <5> QED
          BY <2>4, Single
      <4>2. PICK u : u = J[m] /\ u \in Seq(T)
        BY <2>4
      <4>3. u \o d \in Seq(T) /\ Len(u \o d) = Len(u) + Len(d)
        <5> HIDE DEF T
        <5> QED
          BY <4>1, <4>2, Concat
      <4> QED
        BY <4>1, <4>2, <4>3
    <3>3. Len(J[m]) + 1 <= m * (C + 1)
      BY <1>2, <2>5, <3>1
    <3>4. PICK x \in Nat, y \in Nat : x = m * (C + 1) /\ y = D * (C + 1) /\ x + 1 <= y
      BY <1>0, <2>1, <2>5, Products
    <3>5. Len(J[m]) + 1 + 1 <= MAX_DNS_NAME
      <4> HIDE DEF D, C, J
      <4> QED
        BY <1>0, <2>4, <3>3, <3>4, SMTT(40)
    <3>6. DnsText(p) = J[m] \o <<DOT>> /\ DnsExpected(p) = J[m] \o <<DOT>>
      BY <1>5, <2>1, <2>3, <2>6
    <3> HIDE DEF J
    <3> QED
      BY <3>2, <3>5, <3>6
  <2>7. CASE ~Begun(p, m)
    <3>1. J[m] \o <<>> = J[m]
      <4> HIDE DEF T
      <4> QED
        BY <2>4, NoMore
    <3>2. DnsText(p) = J[m] /\ DnsExpected(p) = J[m]
      BY <1>5, <2>1, <2>3, <2>7, <3>1
    <3>3. Len(J[m]) + 1 <= MAX_DNS_NAME
      <4>1. PICK x \in Nat, y \in Nat : x = m * (C + 1) /\ y = D * (C + 1) /\ x + 1 <= y
        BY <1>0, <2>1, <2>5, Products
      <4>2. CASE m = 0
        <5>1. Len(J[m]) = 0
          BY <1>2, <4>2
        <5> HIDE DEF D, C, J
        <5> QED
          BY <1>0, <4>1, <5>1
      <4>3. CASE m # 0
        <5>1. Len(J[m]) + 1 <= m * (C + 1)
          BY <1>2, <2>5, <4>3
        <5> HIDE DEF D, C, J
        <5> QED
          BY <1>0, <2>4, <4>1, <5>1
      <4> QED
        BY <4>2, <4>3
    <3> HIDE DEF J
    <3> QED
      BY <2>4, <3>2, <3>3
  <2> QED
    BY <2>6, <2>7
<1> QED
  BY <1>7, <1>8

(* The string parse_dns_name leaves, whatever was in the array. *)
LEMMA DnsShown ==
  ASSUME NEW p, IsPacket(p), IsName(p.body), NEW a, IsArray(a, MAX_DNS_NAME)
  PROVE  CString(parse_dns_name(p, a)) = DnsExpected(p)
<1> DEFINE T == Nat \ {NUL}
<1>0. MAX_DNS_NAME \in Nat
  BY ProgramAssumption
<1>1. PICK t : t = DnsText(p) /\ t = DnsExpected(p) /\ t \in Seq(T) /\ Len(t) + 1 <= MAX_DNS_NAME
  BY DnsValue
<1>2. Len(t) \in Nat /\ \A i \in 1..Len(t) : t[i] # NUL
  BY <1>1
<1>3. PICK u : u = Append(t, NUL) /\ Len(u) = Len(t) + 1 /\ u[Len(t) + 1] = NUL /\ \A i \in 1..Len(t) : u[i] = t[i]
  <2>1. t \in Seq(Nat) /\ NUL \in Nat
    BY <1>1 DEF NUL
  <2>2. PICK w : w = Append(t, NUL)
    OBVIOUS
  <2>3. Len(w) = Len(t) + 1 /\ w[Len(t) + 1] = NUL /\ \A i \in 1..Len(t) : w[i] = t[i]
    BY <2>1, <2>2
  <2> QED
    BY <2>2, <2>3
<1>4. PICK r : r = parse_dns_name(p, a)
  OBVIOUS
<1>5. r = [i \in 0..(MAX_DNS_NAME - 1) |-> IF i < Len(u) THEN u[i + 1] ELSE a[i]]
  <2>1. DOMAIN a = 0..(MAX_DNS_NAME - 1)
    BY DEF IsArray
  <2> QED
    BY <1>1, <1>3, <1>4, <2>1 DEF parse_dns_name, Copied
<1>6. IsArray(r, MAX_DNS_NAME)
  BY <1>5 DEF IsArray
<1>7. PICK m \in Nat : m = Len(t) /\ m + 1 <= MAX_DNS_NAME /\ Len(u) = m + 1 /\ u[m + 1] = NUL
  BY <1>1, <1>2, <1>3
<1>8. m \in 0..(MAX_DNS_NAME - 1) /\ r[m] = NUL
  <2>1. m \in 0..(MAX_DNS_NAME - 1) /\ m < Len(u)
    BY <1>0, <1>7
  <2> QED
    BY <1>5, <1>7, <2>1
<1>9. \A j \in 0..(m - 1) : r[j] = t[j + 1] /\ r[j] # NUL
  <2> SUFFICES ASSUME NEW j \in 0..(m - 1) PROVE r[j] = t[j + 1] /\ r[j] # NUL
    OBVIOUS
  <2>1. j \in 0..(MAX_DNS_NAME - 1) /\ j < Len(u) /\ j + 1 \in 1..Len(t)
    BY <1>0, <1>7
  <2>2. r[j] = u[j + 1] /\ u[j + 1] = t[j + 1]
    BY <1>3, <1>5, <2>1
  <2> QED
    BY <1>2, <2>1, <2>2
<1>10. CString(r) = [i \in 1..m |-> r[i - 1]]
  BY <1>0, <1>6, <1>8, <1>9, CStringTo
<1>11. \A i \in 1..m : r[i - 1] = t[i]
  <2> SUFFICES ASSUME NEW i \in 1..m PROVE r[i - 1] = t[i]
    OBVIOUS
  <2>1. i - 1 \in 0..(m - 1) /\ (i - 1) + 1 = i
    OBVIOUS
  <2> QED
    BY <1>9, <2>1
<1>12. [i \in 1..m |-> r[i - 1]] = [i \in 1..m |-> t[i]]
  BY <1>11
<1>13. t = [i \in 1..m |-> t[i]]
  BY <1>1, <1>7
<1> QED
  BY <1>1, <1>4, <1>10, <1>12, <1>13

(* Only UDP on port 53 is read as DNS. *)
LEMMA DnsTag ==
  ASSUME NEW p, IsPacket(p), Capturable(p), app_tag(p) = "dns"
  PROVE  IsName(p.body)
<1>1. p.eth # "arp" /\ p.proto = "udp" /\ Port(p, 53)
  <2>1. CASE p.eth = "arp"
    BY <2>1 DEF app_tag
  <2>2. CASE p.eth # "arp" /\ p.proto = "udp" /\ Port(p, 53)
    BY <2>2
  <2>3. CASE p.eth # "arp" /\ ~(p.proto = "udp" /\ Port(p, 53))
    <3>1. CASE p.proto = "icmp"
      BY <2>3, <3>1 DEF app_tag
    <3>2. CASE p.proto = "udp"
      BY <2>3, <3>2 DEF app_tag
    <3>3. CASE p.proto = "tcp"
      BY <2>3, <3>3 DEF app_tag
    <3>4. CASE p.proto \notin {"icmp", "udp", "tcp"}
      BY <2>3, <3>4 DEF app_tag
    <3> QED
      BY <3>1, <3>2, <3>3, <3>4
  <2> QED
    BY <2>1, <2>2, <2>3
<1>2. p.eth = "ip"
  BY <1>1, Headers
<1> QED
  BY <1>1, <1>2 DEF IsPacket

(* parse_dns_name and parse_http_info show the line of the packet itself,  *)
(* and of its name the beginnings of the labels that are in it, or         *)
(* nothing, whatever the packets are and whatever the CPU's scratch event  *)
(* held.                                                                   *)
THEOREM HintsCorrect == ToolsSpec => []HintsAreOwn
<1>1. ASSUME ProgramInv, NEW e \in events
      PROVE  /\ CString(e.dns_name) = IF e.app_tag = "dns" THEN DnsExpected(e.pkt) ELSE <<>>
             /\ e.http_info = IF e.app_tag = "http" /\ payload_off(e.pkt) + MAX_HTTP_INFO - 1 <= e.pkt.len
                                THEN e.pkt.body.line ELSE <<>>
  <2>0. Made(e)
    BY <1>1 DEF ProgramInv
  <2>1. PICK p, a :
           /\ p \in Packets /\ e.pkt = p /\ Capturable(p) /\ e.app_tag = app_tag(p)
           /\ IsArray(a, MAX_DNS_NAME) /\ a[0] = NUL
           /\ e.dns_name = IF app_tag(p) = "dns" THEN parse_dns_name(p, a) ELSE a
           /\ e.http_info = IF app_tag(p) = "http" THEN parse_http_info(p) ELSE <<>>
    BY <2>0, MadeStrings
  <2>2. IsPacket(p)
    BY <2>1, PacketsAssumption
  <2>3. CString(e.dns_name) = IF app_tag(p) = "dns" THEN DnsExpected(p) ELSE <<>>
    <3>1. CASE app_tag(p) = "dns"
      BY <2>1, <2>2, <3>1, DnsTag, DnsShown
    <3>2. CASE app_tag(p) # "dns"
      BY <2>1, <3>2, NameRoom, CStringEmpty
    <3> QED
      BY <3>1, <3>2
  <2>4. e.http_info = IF app_tag(p) = "http" /\ payload_off(p) + MAX_HTTP_INFO - 1 <= p.len
                        THEN p.body.line ELSE <<>>
    <3>1. payload_off(p) \in Nat /\ p.len \in Nat /\ MAX_HTTP_INFO \in Nat
      BY <2>2, Headers, ProgramAssumption
    <3>2. payload_off(p) + MAX_HTTP_INFO - 1 > p.len <=> ~(payload_off(p) + MAX_HTTP_INFO - 1 <= p.len)
      BY <3>1
    <3> QED
      BY <2>1, <3>2 DEF parse_http_info
  <2> QED
    BY <2>1, <2>3, <2>4
<1>2. ProgramInv => HintsAreOwn
  BY <1>1 DEF HintsAreOwn
<1> QED
  BY <1>2, ToolsInv, PTL

-----------------------------------------------------------------------------
(* The filters of the runs of pktrace and pksniff (TcTools).               *)

USE TcAssumption

Agree ==
  /\ \A r \in Runs, d \in Dirs : d \in attached[r] <=> slot[d] = r
  /\ \A r \in Runs : pc[r] = "exit" => attached[r] = {}
  /\ \A r \in Runs : pc[r] = "destroy" => attached[r] # {}
  /\ \A r \in Runs : pc[r] = "attach" => hook = "present"

LEMMA DirType ==
  ASSUME TypeOK, NEW r \in Runs
  PROVE  Dir(r) \in Dirs /\ Len(Wanted(r)) \in {1, 2}
<1>1. CASE Tool[r] = "pktrace"
  <2>1. Wanted(r) = <<"in">>
    BY <1>1 DEF Wanted
  <2>2. Len(Wanted(r)) = 1
    BY <2>1
  <2>3. step[r] = 1
    BY <1>1 DEF TypeOK
  <2> QED
    BY <2>1, <2>2, <2>3 DEF Dir, Dirs
<1>2. CASE Tool[r] # "pktrace"
  <2>1. Wanted(r) = <<"in", "eg">> /\ step[r] \in {1, 2}
    BY <1>2 DEF Wanted, TypeOK
  <2> QED
    BY <2>1 DEF Dir, Dirs
<1> QED
  BY <1>1, <1>2

LEMMA CleanType ==
  ASSUME TypeOK, NEW r \in Runs, attached[r] # {}
  PROVE  ToClean(r) \in Dirs /\ ToClean(r) \in attached[r]
BY DEF ToClean, TypeOK, Dirs

(* The steps of a run that only move its program counter. *)
Plain(r) ==
  /\ pc' = [pc EXCEPT ![r] = pc'[r]]
  /\ pc'[r] \in {"start", "hook", "ring", "run", "cleanup", "killed"}
  /\ UNCHANGED <<step, attached, tcVars>>

LEMMA PlainSteps ==
  ASSUME TypeOK, NEW r \in Runs,
         Load(r) \/ NewRingBuffer(r) \/ StartFails(r) \/ LeaveLoop(r) \/ Start(r) \/ Kill(r)
  PROVE  Plain(r)
BY DEF Plain, TypeOK, Goto, Load, NewRingBuffer, StartFails, LeaveLoop, Start, Kill

-----------------------------------------------------------------------------
LEMMA PlainKeeps ==
  ASSUME TypeOK, Agree, NEW r \in Runs, Plain(r)
  PROVE  TypeOK' /\ Agree'
BY DEF Plain, TypeOK, Agree, tcVars

LEMMA CreateHookKeeps ==
  ASSUME TypeOK, Agree, NEW r \in Runs, CreateHook(r)
  PROVE  TypeOK' /\ Agree'
BY DEF CreateHook, Goto, TypeOK, Agree

LEMMA AttachKeeps ==
  ASSUME TypeOK, Agree, NEW r \in Runs, Attach(r)
  PROVE  TypeOK' /\ Agree'
<1>1. Dir(r) \in Dirs /\ Len(Wanted(r)) \in {1, 2}
  BY DirType
<1>2. /\ slot' = [slot EXCEPT ![Dir(r)] = r] /\ slot[Dir(r)] = None
      /\ attached' = [attached EXCEPT ![r] = @ \cup {Dir(r)}]
      /\ hook' = hook /\ foreign' = foreign /\ hook = "present"
  BY DEF Attach, Agree
<1>3. slot' \in [Dirs -> Runs \cup {None}] /\ attached' \in [Runs -> SUBSET Dirs]
  BY <1>1, <1>2 DEF TypeOK
<1>4. step' \in [Runs -> {1, 2}] /\ \A q \in Runs : Tool[q] = "pktrace" => step'[q] = 1
  <2>1. CASE step[r] < Len(Wanted(r))
    <3>1. Len(Wanted(r)) = 2 /\ step[r] = 1 /\ Tool[r] # "pktrace"
      BY <1>1, <2>1 DEF TypeOK, Wanted
    <3>2. step' = [step EXCEPT ![r] = 2]
      BY <2>1, <3>1 DEF Attach
    <3> QED
      BY <3>1, <3>2 DEF TypeOK
  <2>2. CASE ~(step[r] < Len(Wanted(r)))
    BY <2>2 DEF Attach, TypeOK
  <2> QED
    BY <2>1, <2>2
<1>5. pc' = [pc EXCEPT ![r] = pc'[r]] /\ pc'[r] \in {"hook", "ring"}
  BY DEF Attach, Goto, TypeOK
<1>6. TypeOK'
  BY <1>2, <1>3, <1>4, <1>5 DEF TypeOK
<1>7. \A q \in Runs, d \in Dirs : d \in attached'[q] <=> slot'[d] = q
  <2> SUFFICES ASSUME NEW q \in Runs, NEW d \in Dirs PROVE d \in attached'[q] <=> slot'[d] = q
    OBVIOUS
  <2>1. CASE q = r
    BY <1>1, <1>2, <2>1 DEF TypeOK, Agree
  <2>2. CASE q # r
    BY <1>1, <1>2, <2>2 DEF TypeOK, Agree
  <2> QED
    BY <2>1, <2>2
<1>8. \A q \in Runs : pc'[q] = "exit" => attached'[q] = {}
  BY <1>2, <1>5 DEF TypeOK, Agree
<1>9. \A q \in Runs : pc'[q] = "destroy" => attached'[q] # {}
  BY <1>2, <1>5 DEF TypeOK, Agree
<1> QED
  BY <1>2, <1>6, <1>7, <1>8, <1>9 DEF Agree

LEMMA DetachKeeps ==
  ASSUME TypeOK, Agree, NEW r \in Runs, Detach(r) \/ Exit(r)
  PROVE  TypeOK' /\ Agree'
BY DEF Detach, Exit, Goto, TypeOK, Agree, tcVars

(* The flush takes the run's own filter and no other run's: the place that *)
(* it empties was its own.                                                 *)
LEMMA HookDestroyKeeps ==
  ASSUME TypeOK, Agree, NEW r \in Runs, HookDestroy(r)
  PROVE  TypeOK' /\ Agree'
<1> DEFINE d0 == ToClean(r)
<1>1. d0 \in Dirs /\ d0 \in attached[r]
  BY CleanType DEF HookDestroy, Agree
<1>2. slot[d0] = r
  BY <1>1 DEF Agree
<1>3. /\ slot' = [slot EXCEPT ![d0] = None] /\ attached' = [attached EXCEPT ![r] = @ \ {d0}]
      /\ foreign' \subseteq foreign /\ hook' = hook /\ step' = step
      /\ pc' = [pc EXCEPT ![r] = "cleanup"]
  BY DEF HookDestroy, Goto
<1> HIDE DEF d0
<1>4. TypeOK'
  BY <1>1, <1>3 DEF TypeOK
<1>5. \A q \in Runs, d \in Dirs : d \in attached'[q] <=> slot'[d] = q
  <2> SUFFICES ASSUME NEW q \in Runs, NEW d \in Dirs PROVE d \in attached'[q] <=> slot'[d] = q
    OBVIOUS
  <2>1. CASE q = r
    BY <1>1, <1>2, <1>3, <2>1 DEF TypeOK, Agree
  <2>2. CASE q # r
    BY <1>1, <1>2, <1>3, <2>2 DEF TypeOK, Agree
  <2> QED
    BY <2>1, <2>2
<1>6. \A q \in Runs : /\ pc'[q] = "exit" => attached'[q] = {}
                      /\ pc'[q] = "destroy" => attached'[q] # {}
                      /\ pc'[q] = "attach" => hook' = "present"
  BY <1>3 DEF TypeOK, Agree
<1> QED
  BY <1>4, <1>5, <1>6 DEF Agree

LEMMA ForeignKeeps ==
  ASSUME TypeOK, Agree, NEW d \in Dirs, ForeignAdd(d)
  PROVE  TypeOK' /\ Agree'
BY DEF ForeignAdd, TypeOK, Agree

LEMMA InvInit == Init => TypeOK /\ Agree
<1> SUFFICES ASSUME Init PROVE TypeOK /\ Agree
  OBVIOUS
<1>2. TypeOK
  BY DEF Init, TypeOK
<1>3. Agree
  BY DEF Init, Agree
<1> QED
  BY <1>2, <1>3

LEMMA InvStep == TypeOK /\ Agree /\ [Next]_vars => TypeOK' /\ Agree'
<1> SUFFICES ASSUME TypeOK, Agree, [Next]_vars PROVE TypeOK' /\ Agree'
  OBVIOUS
<1>1. ASSUME NEW r \in Runs, Main(r) PROVE TypeOK' /\ Agree'
  <2>1. CASE Load(r) \/ NewRingBuffer(r) \/ StartFails(r) \/ LeaveLoop(r)
    BY <2>1, PlainSteps, PlainKeeps
  <2>2. CASE CreateHook(r)
    BY <2>2, CreateHookKeeps
  <2>3. CASE Attach(r)
    BY <2>3, AttachKeeps
  <2>4. CASE Detach(r) \/ Exit(r)
    BY <2>4, DetachKeeps
  <2>5. CASE HookDestroy(r)
    BY <2>5, HookDestroyKeeps
  <2> QED
    BY <1>1, <2>1, <2>2, <2>3, <2>4, <2>5 DEF Main
<1>2. ASSUME NEW r \in Runs, Start(r) \/ Kill(r) PROVE TypeOK' /\ Agree'
  BY <1>2, PlainSteps, PlainKeeps
<1>3. ASSUME NEW d \in Dirs, ForeignAdd(d) PROVE TypeOK' /\ Agree'
  BY <1>3, ForeignKeeps
<1>4. CASE UNCHANGED vars
  BY <1>4 DEF vars, TypeOK, Agree
<1> QED
  BY <1>1, <1>2, <1>3, <1>4 DEF Next

-----------------------------------------------------------------------------
(* The inductive invariant: what the runs believe of the hook agrees with  *)
(* what the kernel holds.                                                  *)
THEOREM InvHolds == Spec => [](TypeOK /\ Agree)
<1> QED
  BY InvInit, InvStep, PTL DEF Spec

(* Type correctness; a place is taken only while the hook exists. *)
THEOREM TypeCorrect == Spec => []TypeOK
<1> QED
  BY InvHolds, PTL

(* No run loses its filter to another one, however many there are: the     *)
(* flush of bpf_tc_hook_destroy only ever empties a place of its caller.   *)
THEOREM FilterKept == Spec => []OwnFilterStays
<1>1. Agree => OwnFilterStays
  BY DEF Agree, OwnFilterStays
<1> QED
  BY <1>1, InvHolds, PTL

(* Every orderly exit, also after a start that failed half way, gives back *)
(* both directions.                                                        *)
THEOREM NothingLeft == Spec => []CleanExit
<1>1. Agree => CleanExit
  BY DEF Agree, CleanExit
<1> QED
  BY <1>1, InvHolds, PTL

(* A filter left by a killed run is never removed or replaced: until       *)
(* somebody else deletes it, no later run attaches in that direction.      *)
THEOREM OrphanForever == Spec => OrphanBlocks
<1> DEFINE Stays == \A d \in Dirs : slot[d] # None /\ pc[slot[d]] = "killed" => slot'[d] = slot[d]
<1>1. TypeOK /\ Agree /\ [Next]_vars => [Stays]_vars
  <2> SUFFICES ASSUME TypeOK, Agree, Next, NEW d \in Dirs, slot[d] # None, pc[slot[d]] = "killed"
               PROVE  slot'[d] = slot[d]
    BY DEF vars
  <2>1. ASSUME NEW r \in Runs, Attach(r) PROVE slot'[d] = slot[d]
    BY <2>1, DirType DEF Attach, TypeOK
  <2>2. ASSUME NEW r \in Runs, HookDestroy(r) PROVE slot'[d] = slot[d]
    <3>1. ToClean(r) \in Dirs /\ slot[ToClean(r)] = r /\ pc[r] = "destroy"
      BY <2>2, CleanType DEF HookDestroy, Agree
    <3> QED
      BY <2>2, <3>1 DEF HookDestroy, TypeOK
  <2>3. ASSUME NEW r \in Runs,
               Load(r) \/ CreateHook(r) \/ NewRingBuffer(r) \/ StartFails(r) \/ LeaveLoop(r)
               \/ Detach(r) \/ Exit(r) \/ Start(r) \/ Kill(r)
        PROVE  slot' = slot
    BY <2>3 DEF Load, CreateHook, NewRingBuffer, StartFails, LeaveLoop, Detach, Exit, Start,
                Kill, tcVars
  <2>4. ASSUME NEW e \in Dirs, ForeignAdd(e) PROVE slot' = slot
    BY <2>4 DEF ForeignAdd
  <2> QED
    BY <2>1, <2>2, <2>3, <2>4 DEF Next, Main
<1> QED
  BY <1>1, InvHolds, PTL DEF Spec, OrphanBlocks
=============================================================================
