--------------------------- MODULE MCPacketTools ---------------------------
(* Packets for TLC: each kind of header and of payload, whole and cut off  *)
(* at the places where a test of the program changes its mind.             *)
EXTENDS PacketTools, TLC

None == [kind |-> "none"]
Http == [kind |-> "http", line |-> <<71>>]

Pkt(eth, proto, dst, len, body) ==
  [dir |-> "egress", eth |-> eth, linear |-> len, len |-> len, ihl |-> 5, proto |-> proto,
   doff |-> 5, src_port |-> 999, dst_port |-> dst, body |-> body]

(* A DNS name's bytes begin at 54: ethernet 14, IP 20, UDP 8, DNS 12. *)
Dns(labels, end, len) == Pkt("ip", "udp", 53, len, [kind |-> "dns", labels |-> labels, end |-> end])

DnsPackets ==
  {Dns(<<<<1, 2, 3>>, <<4>>>>, 0, len) : len \in {54, 55, 57, 58, 59, 60, 61}}
    \cup {Dns(<<<<5>>, <<6>>, <<7>>>>, 0, 61), Dns(<<<<8>>>>, 192, 58)}

(* A ClientHello's extensions begin at 14 + 20 + 20 + 43 + 1 + 4 + 2 = 104. *)
Sni(name) == [type |-> "sni", name |-> name]
Ext(len) == [type |-> "other", len |-> len]

Hello(exts, len) ==
  Pkt("ip", "tcp", 443, len, [kind |-> "hello", sid_len |-> 0, cs_len |-> 2, cm_len |-> 0, exts |-> exts])

TlsPackets ==
  {Hello(<<Ext(1), Sni(<<1, 2>>)>>, len) : len \in {97, 103, 104, 117, 119, 120}}
    \cup {Hello(<<Sni(<<3, 4, 5, 6>>)>>, 120), Hello(<<Sni([i \in 1..7 |-> 10 + i])>>, 118),
          Pkt("ip", "tcp", 443, 160, None), Hello(<<Ext(0), Ext(0), Sni(<<7>>)>>, 160),
          [Hello(<<Sni(<<8>>)>>, 120) EXCEPT !.dir = "ingress"],
          [Hello(<<Sni(<<8>>)>>, 120) EXCEPT !.dir = "ingress", !.src_port = 443, !.dst_port = 999]}

HeaderPackets ==
  {Pkt("arp", "none", 0, 42, None), Pkt("other", "none", 0, 60, None), Pkt("ip", "icmp", 0, 47, None),
   Pkt("ip", "other", 0, 48, None), Pkt("ip", "tcp", 80, 62, Http), Pkt("ip", "tcp", 999, 101, Http),
   Pkt("ip", "tcp", 8080, 61, Http), Pkt("ip", "udp", 999, 300, None),
   [Pkt("ip", "tcp", 22, 300, None) EXCEPT !.linear = 60, !.doff = 7],
   [Pkt("ip", "tcp", 22, 300, None) EXCEPT !.linear = 62, !.doff = 7],
   [Pkt("ip", "tcp", 22, 300, None) EXCEPT !.linear = 54, !.doff = 2],
   [Pkt("ip", "udp", 22, 100, None) EXCEPT !.linear = 41],
   [Pkt("ip", "udp", 22, 100, None) EXCEPT !.linear = 42, !.ihl = 6],
   [Pkt("ip", "udp", 22, 100, None) EXCEPT !.linear = 46, !.ihl = 6],
   [Pkt("ip", "tcp", 22, 140, None) EXCEPT !.ihl = 15, !.doff = 15],
   [Pkt("ip", "tcp", 22, 54, None) EXCEPT !.dir = "ingress"],
   [Pkt("ip", "icmp", 0, 100, None) EXCEPT !.ihl = 4],
   [Pkt("ip", "icmp", 0, 100, None) EXCEPT !.linear = 13]}

AllPackets == DnsPackets \cup TlsPackets \cup HeaderPackets

CPUSymmetry == Permutations(CPUs)
=============================================================================
