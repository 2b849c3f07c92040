--------------------------- MODULE PacketProgram ---------------------------
(***************************************************************************)
(* pksniff's kernel side (pksniff/Pksniff.bpf.c): process_packet, the      *)
(* parsers of application hints it calls, and the scratch event they fill. *)
(*                                                                         *)
(* The scratch event lives in a per-CPU map and is never cleared as a      *)
(* whole: what one packet leaves there, the next packet of the same CPU    *)
(* finds.  A program is not interrupted by another one on its CPU (TC      *)
(* programs run with bottom halves disabled), so a packet is one step.     *)
(* The ring buffer the events go to is that of module ProbeTool.           *)
(*                                                                         *)
(* A packet carries what the program reads of it: the sizes of its headers *)
(* as the headers state them, the linear bytes (data .. data_end), the     *)
(* length with the paged bytes (skb->len) and the structure of its         *)
(* payload, cut off at len: the labels of a DNS name, the parts of a TLS   *)
(* ClientHello, or the text of an HTTP line.  Addresses, ttl and the TCP   *)
(* flags are copied and left out.                                          *)
(***************************************************************************)
EXTENDS Integers, Sequences, SequencesExt, FiniteSetsExt

CONSTANTS
  CPUs,
  Packets,         \* what may arrive
  DNS_LABELS,      \* labels of a name that are looked at, 8 in the code
  LABEL_CHARS,     \* characters kept of a label, 4 in the code
  MAX_DNS_NAME,
  MAX_EXTS,        \* TLS extensions that are looked at, 16 in the code
  SNI_CHARS,       \* characters kept of a server name, 16 in the code
  MAX_TLS_SNI,
  MAX_HTTP_INFO,
  MAX_CAPTURE_BYTES,
  MaxPackets       \* bound of the model: packets

(* With so few labels and characters no test of out_pos against out_max    *)
(* in parse_dns_name ever fails: 8 * 5 <= 64.                              *)
ASSUME ProgramAssumption ==
  /\ DNS_LABELS \in Nat \ {0} /\ LABEL_CHARS \in Nat \ {0} /\ MAX_DNS_NAME \in Nat
  /\ DNS_LABELS * (LABEL_CHARS + 1) <= MAX_DNS_NAME
  /\ MAX_EXTS \in Nat /\ SNI_CHARS \in Nat \ {0}
  /\ MAX_TLS_SNI \in Nat /\ SNI_CHARS <= MAX_TLS_SNI
  /\ MAX_HTTP_INFO \in Nat /\ MaxPackets \in Nat
  /\ MAX_CAPTURE_BYTES \in Nat /\ MAX_CAPTURE_BYTES % 16 = 0

VARIABLES
  scratch,         \* scratch_map: the strings of each CPU's event
  events,          \* the events submitted, with the packet of each
  discarded,       \* packets whose event was reserved and given up
  seen             \* number of packets so far

programVars == <<scratch, events, discarded, seen>>

NUL == 0
DOT == 46
ETH == 14          \* sizeof(struct ethhdr)

(* A C string: the characters before the first NUL. *)
CString(a) ==
  LET nuls == {i \in DOMAIN a : a[i] = NUL} IN
    [i \in 1..(IF nuls = {} THEN Cardinality(DOMAIN a) ELSE Min(nuls)) |-> a[i - 1]]

(* The array a with the characters of s put at its beginning. *)
Copied(a, s) == [i \in DOMAIN a |-> IF i < Len(s) THEN s[i + 1] ELSE a[i]]

(* Parts of these sizes lie one behind the other: where each of them ends. *)
Ends(sizes) ==
  LET end[n \in 0..Len(sizes)] == IF n = 0 THEN 0 ELSE end[n - 1] + sizes[n] IN end

-----------------------------------------------------------------------------
(* Headers.                                                                *)

l4_off(p) == IF p.eth = "arp" THEN ETH ELSE ETH + 4 * p.ihl

(* A TCP header is at least 20 bytes, whatever it says. *)
HeaderLen(p) ==
  CASE p.eth = "arp" -> 0
    [] p.eth # "arp" /\ p.proto = "tcp" -> Max({4 * p.doff, 20})
    [] p.eth # "arp" /\ p.proto = "udp" -> 8
    [] OTHER -> 0

payload_off(p) == l4_off(p) + HeaderLen(p)

(* ARP, or IPv4 with all its headers in the linear part. *)
Capturable(p) ==
  /\ p.linear >= ETH
  /\ \/ p.eth = "arp"
     \/ /\ p.eth = "ip"
        /\ p.linear >= ETH + 20 /\ p.ihl >= 5 /\ p.linear >= l4_off(p)
        /\ p.linear >= payload_off(p)

-----------------------------------------------------------------------------
(* parse_dns_name.                                                         *)

(* The bytes of the first labels: a length before each of them. *)
LabelBytes(labels) ==
  LET bytes[n \in 0..Len(labels)] ==
        IF n = 0 THEN <<>> ELSE bytes[n - 1] \o (<<Len(labels[n])>> \o labels[n])
  IN bytes

(* The bytes of a name: its labels and the end, a root label or a pointer. *)
NameBytes(b) == LabelBytes(b.labels)[Len(b.labels)] \o <<b.end>>

(* One turn of the loop, s being the position, the text so far and whether *)
(* the loop has ended: the length byte is read, and of a whole label that  *)
(* is in the packet the first characters are kept.                         *)
DnsLabel(p, s, label) ==
  LET byte == NameBytes(p.body)
      first == payload_off(p) + 12          \* past the DNS header
      len == byte[s.pos - first + 1]
      dotted == IF label > 0 THEN Append(s.out, DOT) ELSE s.out
      text == [i \in 1..Min({len, LABEL_CHARS}) |-> byte[s.pos - first + 1 + i]]
  IN IF s.done \/ s.pos + 1 > p.len \/ len = 0 \/ len >= 192
       THEN [s EXCEPT !.done = TRUE]
     ELSE IF s.pos + 1 + len > p.len
       THEN [s EXCEPT !.out = dotted, !.done = TRUE]
     ELSE [pos |-> s.pos + 1 + len, out |-> dotted \o text, done |-> FALSE]

DnsText(p) ==
  LET turn[n \in 0..DNS_LABELS] ==
        IF n = 0 THEN [pos |-> payload_off(p) + 12, out |-> <<>>, done |-> FALSE]
        ELSE DnsLabel(p, turn[n - 1], n - 1)
  IN turn[DNS_LABELS].out

parse_dns_name(p, out) == Copied(out, Append(DnsText(p), NUL))

-----------------------------------------------------------------------------
(* parse_tls_sni.                                                          *)

(* The positions of a ClientHello's parts: the lengths that are read, the  *)
(* first extension, and the end of the extensions.                         *)
SidAt(p) == payload_off(p) + 5 + 4 + 2 + 32
CiphersAt(p) == SidAt(p) + 1 + p.body.sid_len
MethodsAt(p) == CiphersAt(p) + 2 + p.body.cs_len
ExtsAt(p) == MethodsAt(p) + 1 + p.body.cm_len

ExtLen(x) == IF x.type = "sni" THEN 5 + Len(x.name) ELSE x.len

ExtEnds(b) == Ends([i \in 1..Len(b.exts) |-> 4 + ExtLen(b.exts[i])])

ext_end(p) == Min({ExtsAt(p) + 2 + ExtEnds(p.body)[Len(p.body.exts)], p.len})

(* One turn of the walk: an extension is skipped, or it is the server name *)
(* and, if all of it is there, its characters are found.                   *)
Extension(p, s, i) ==
  LET x == p.body.exts[i]
      name_len == Min({Len(x.name), MAX_TLS_SNI - 1})
  IN IF s.done \/ s.pos + 4 > ext_end(p) THEN [s EXCEPT !.done = TRUE]
     ELSE IF x.type # "sni" THEN [s EXCEPT !.pos = @ + 4 + ExtLen(x)]
     ELSE IF s.pos + 4 + 5 + name_len > ext_end(p) THEN [s EXCEPT !.done = TRUE]
     ELSE [s EXCEPT !.done = TRUE, !.name = SubSeq(x.name, 1, Min({name_len, SNI_CHARS}))]

(* What is found of the name; empty when the walk breaks off. *)
SniText(p) ==
  LET walk[n \in 0..MAX_EXTS] ==
        IF n = 0 THEN [pos |-> ExtsAt(p) + 2, name |-> <<>>, done |-> FALSE]
        ELSE Extension(p, walk[n - 1], n)
  IN IF /\ SidAt(p) + 1 <= p.len /\ CiphersAt(p) + 2 <= p.len
        /\ MethodsAt(p) + 1 <= p.len /\ ExtsAt(p) + 2 <= p.len
       THEN walk[MAX_EXTS].name ELSE <<>>

(* The characters are written one by one and the last of them is made NUL; *)
(* nothing is written behind a shorter name.                               *)
parse_tls_sni(p, out) ==
  IF p.body.kind # "hello" \/ SniText(p) = <<>> THEN out
  ELSE [Copied(out, SniText(p)) EXCEPT ![SNI_CHARS - 1] = NUL]

-----------------------------------------------------------------------------
(* is_http, parse_http_info and the choice of the parser.                  *)

is_http(p) == p.body.kind = "http" /\ payload_off(p) + 8 <= p.len

(* A fixed number of bytes is loaded, which fails in a shorter packet. *)
parse_http_info(p) ==
  IF payload_off(p) + MAX_HTTP_INFO - 1 > p.len THEN <<>> ELSE p.body.line

Port(p, n) == p.src_port = n \/ p.dst_port = n

app_tag(p) ==
  CASE p.eth = "arp" -> "none"
    [] p.eth # "arp" /\ p.proto = "icmp" -> "icmp"
    [] p.eth # "arp" /\ p.proto = "udp" /\ Port(p, 53) -> "dns"
    [] p.eth # "arp" /\ p.proto = "tcp" /\ Port(p, 443) -> "tls"
    [] p.eth # "arp" /\ p.proto = "tcp" /\ ~Port(p, 443) /\ is_http(p) -> "http"
    [] OTHER -> "none"

(* Only the client's side sends a ClientHello. *)
HelloExpected(p) == p.dir = "egress" \/ p.dst_port = 443

-----------------------------------------------------------------------------
(* The packets.                                                            *)

(* Of a name on the wire: a length byte is below 192 before a label and 0  *)
(* or a pointer, from 192 on, at the end.                                  *)
IsName(b) ==
  /\ b.labels \in Seq(Seq(Nat \ {NUL}))
  /\ \A i \in DOMAIN b.labels : Len(b.labels[i]) \in 1..191
  /\ b.end = 0 \/ b.end \in 192..255

IsExtension(x) == IF x.type = "sni" THEN x.name \in Seq(Nat \ {NUL}) ELSE x.len \in Nat

IsHello(b) ==
  /\ b.sid_len \in Nat /\ b.cs_len \in Nat /\ b.cm_len \in Nat
  /\ Len(b.exts) \in Nat /\ DOMAIN b.exts = 1..Len(b.exts)
  /\ \A i \in DOMAIN b.exts : IsExtension(b.exts[i])

(* The linear bytes are part of the packet; the total length in an IP      *)
(* header has 16 bits.  What comes on port 53 is read as a name.           *)
IsPacket(p) ==
  /\ p.ihl \in Nat /\ p.doff \in Nat /\ p.linear \in Nat /\ p.len \in Nat
  /\ p.linear <= p.len
  /\ p.eth = "ip" => p.len <= ETH + 65535
  /\ p.eth = "ip" /\ p.proto = "udp" /\ Port(p, 53) => IsName(p.body)
  /\ p.body.kind = "hello" => IsHello(p.body)

ASSUME PacketsAssumption == \A p \in Packets : IsPacket(p)

-----------------------------------------------------------------------------
(* process_packet.                                                         *)

(* Fault: the strings keep what they were. *)
ClearedNot(s) == [s EXCEPT !.http_info = <<>>, !.tls_sni[0] = NUL]

(* Fault: the server name keeps what it was. *)
ClearedNoSni(s) == [s EXCEPT !.dns_name[0] = NUL, !.http_info = <<>>]

(* The strings are made empty by their first character. *)
Cleared(s) ==
  [dns_name  |-> [s.dns_name EXCEPT ![0] = NUL],
   tls_sni   |-> [s.tls_sni EXCEPT ![0] = NUL],
   http_info |-> <<>>]

Hinted(s, p) ==
  LET tag == app_tag(p) IN
    [dns_name  |-> IF tag = "dns" THEN parse_dns_name(p, s.dns_name) ELSE s.dns_name,
     tls_sni   |-> IF tag = "tls" /\ HelloExpected(p) THEN parse_tls_sni(p, s.tls_sni)
                   ELSE s.tls_sni,
     http_info |-> IF tag = "http" THEN parse_http_info(p) ELSE s.http_info]

(* Fault: the length is not rounded. *)
CapLenExact(p) == Min({p.len, MAX_CAPTURE_BYTES})

(* Rounded down to a multiple of 16. *)
CapLen(p) == LET n == Min({p.len, MAX_CAPTURE_BYTES}) IN n - (n % 16)

(* The chunks of 16 bytes that are loaded all lie in the packet. *)
ChunksLoad(p) ==
  \A k \in 0..(MAX_CAPTURE_BYTES \div 16 - 1) : 16 * k < CapLen(p) => 16 * k + 16 <= p.len

Event(p, s) ==
  [pkt |-> p, app_tag |-> app_tag(p), l4_off |-> l4_off(p), payload_off |-> payload_off(p),
   payload_len |-> IF p.eth = "ip" /\ p.len > payload_off(p)
                     THEN (p.len - payload_off(p)) % 65536 ELSE 0,
   packet_len |-> p.len, cap_len |-> CapLen(p),
   dns_name |-> s.dns_name, tls_sni |-> s.tls_sni, http_info |-> s.http_info]

(* The packet is of no interest, or too short for its headers. *)
Skip(c, p) ==
  /\ seen < MaxPackets /\ seen' = seen + 1
  /\ ~Capturable(p)
  /\ scratch' = IF p.linear >= ETH THEN [scratch EXCEPT ![c] = Cleared(@)] ELSE scratch
  /\ UNCHANGED <<events, discarded>>

(* The scratch event is copied to the ring buffer. *)
Capture(c, p) ==
  /\ seen < MaxPackets /\ seen' = seen + 1
  /\ Capturable(p)
  /\ scratch' = [scratch EXCEPT ![c] = Hinted(Cleared(@), p)]
  /\ IF ChunksLoad(p)
       THEN events' = events \cup {Event(p, scratch'[c])} /\ UNCHANGED discarded
       ELSE discarded' = discarded \cup {p} /\ UNCHANGED events

(* No room in the ring buffer; the scratch event is filled all the same. *)
NoRoom(c, p) ==
  /\ seen < MaxPackets /\ seen' = seen + 1
  /\ Capturable(p)
  /\ scratch' = [scratch EXCEPT ![c] = Hinted(Cleared(@), p)]
  /\ UNCHANGED <<events, discarded>>

Blank == [dns_name |-> [i \in 0..(MAX_DNS_NAME - 1) |-> NUL],
          tls_sni |-> [i \in 0..(MAX_TLS_SNI - 1) |-> NUL],
          http_info |-> <<>>]

ProgramInit ==
  /\ scratch = [c \in CPUs |-> Blank]
  /\ events = {} /\ discarded = {} /\ seen = 0

process_packet(c, p) == Skip(c, p) \/ Capture(c, p) \/ NoRoom(c, p)

-----------------------------------------------------------------------------
(* Properties.                                                             *)

(* process_packet: the payload an event describes begins behind the        *)
(* headers the program has read and ends where the packet ends, no more    *)
(* bytes are captured than the packet has, and no chunk of 16 bytes that   *)
(* capture_bytes loads reaches beyond it, which would give up the event.   *)
OffsetsInside ==
  /\ discarded = {}
  /\ \A e \in events :
       /\ ETH <= e.l4_off /\ e.l4_off <= e.payload_off /\ e.payload_off <= e.pkt.linear
       /\ e.pkt.eth = "ip" => e.payload_off + e.payload_len = e.packet_len
       /\ e.cap_len <= e.packet_len
       /\ e.packet_len - e.cap_len < 16 \/ e.cap_len = MAX_CAPTURE_BYTES

(* What can be shown of a DNS name: the labels that are in the packet      *)
(* (at most DNS_LABELS of them), cut and joined with dots, and a last dot  *)
(* when a label begins that is cut off.                                    *)
Joined(labels) ==
  LET text[n \in 0..Len(labels)] ==
        IF n = 0 THEN <<>> ELSE (IF n = 1 THEN <<>> ELSE text[n - 1] \o <<DOT>>) \o labels[n]
  IN text

Shown(labels) == [i \in 1..Len(labels) |-> SubSeq(labels[i], 1, Min({Len(labels[i]), LABEL_CHARS}))]

LabelEnds(labels) == Ends([i \in 1..Len(labels) |-> 1 + Len(labels[i])])

(* How many labels are all there, of the first n. *)
Whole(p, n) ==
  Max({k \in 0..Min({n, Len(p.body.labels)}) :
         k = 0 \/ payload_off(p) + 12 + LabelEnds(p.body.labels)[k] <= p.len})

(* After k whole labels another one begins. *)
Begun(p, k) ==
  k > 0 /\ k < Len(p.body.labels) /\ payload_off(p) + 12 + LabelEnds(p.body.labels)[k] + 1 <= p.len

(* What parse_dns_name makes of a name: not the name, which the comment    *)
(* above it (lines 110-112) promises dot-joined and only as long as the    *)
(* buffer, but its first DNS_LABELS labels, of each of them the first      *)
(* LABEL_CHARS characters (www.google.com becomes www.goog.com), and a dot *)
(* at the end where the packet is cut off in the next label.               *)
DnsExpected(p) ==
  LET whole == Whole(p, DNS_LABELS) IN
    Joined(Shown(p.body.labels))[whole]
      \o (IF whole < DNS_LABELS /\ Begun(p, whole) THEN <<DOT>> ELSE <<>>)

(* parse_dns_name and parse_http_info: an event's HTTP line, and what is   *)
(* left of its DNS name (DnsExpected: shortened labels, cut at the end of  *)
(* the packet), are those of its own packet, or empty; nothing of an       *)
(* earlier packet of the CPU shows.                                        *)
HintsAreOwn ==
  \A e \in events :
    /\ CString(e.dns_name) = IF e.app_tag = "dns" THEN DnsExpected(e.pkt) ELSE <<>>
    /\ e.http_info = IF e.app_tag = "http" /\ payload_off(e.pkt) + MAX_HTTP_INFO - 1 <= e.pkt.len
                       THEN e.pkt.body.line ELSE <<>>

(* The server name that is in the packet, behind at most MAX_EXTS - 1      *)
(* other extensions.                                                       *)
SniExpected(p) ==
  LET sni == {i \in DOMAIN p.body.exts : p.body.exts[i].type = "sni"}
      i == Min(sni)
      before == ExtEnds(p.body)[i - 1]
      name == p.body.exts[i].name
  IN IF p.body.kind = "hello" /\ sni # {} /\ HelloExpected(p)
       THEN IF i <= MAX_EXTS
               /\ ExtsAt(p) + 2 + before + 9 + Min({Len(name), MAX_TLS_SNI - 1}) <= p.len
              THEN SubSeq(name, 1, Min({Len(name), SNI_CHARS - 1})) ELSE <<>>
       ELSE <<>>

(* parse_tls_sni: the server name an event shows begins with the name in   *)
(* its packet, and is empty if the packet has none, is not a ClientHello   *)
(* of the client, or ends before the name does.                            *)
SniFound ==
  \A e \in events :
    LET text == CString(e.tls_sni)
        name == IF e.app_tag = "tls" THEN SniExpected(e.pkt) ELSE <<>>
    IN IF name = <<>> THEN text = <<>> ELSE IsPrefix(name, text)

(* Pksniff.h:71-74: the application snippets are "NUL-terminated strings", *)
(* and tls_sni the "TLS SNI hostname": of a name that fits, it is all that *)
(* is shown.                                                               *)
SniIsHostname ==
  \A e \in events :
    e.app_tag = "tls" => CString(e.tls_sni) = SniExpected(e.pkt)
=============================================================================
