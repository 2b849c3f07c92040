----------------------------- MODULE MCPksniff -----------------------------
(* Small worlds for pksniff: two hosts of one network that differ in their *)
(* last octet, two hosts of other networks, and packets without IP layer.  *)
EXTENDS Pksniff

HostA == <<1, 5>>
HostB == <<1, 6>>
HostC == <<2, 5>>
HostD == <<3, 7>>
NoHost == <<0, 0>>

MCAddrs == {HostA, HostB, HostC, HostD, NoHost}

TcpIn  == [src |-> HostA, dst |-> HostC, sport |-> 443, dport |-> 50, proto |-> 6,
           app |-> 3, dir |-> 0, len |-> 2]
TcpIn2 == [src |-> HostB, dst |-> HostC, sport |-> 443, dport |-> 50, proto |-> 6,
           app |-> 0, dir |-> 0, len |-> 1]
DnsOut == [src |-> HostC, dst |-> HostA, sport |-> 50, dport |-> 53, proto |-> 17,
           app |-> 1, dir |-> 1, len |-> 3]
IcmpIn == [src |-> HostD, dst |-> HostC, sport |-> 0, dport |-> 0, proto |-> 1,
           app |-> 4, dir |-> 0, len |-> 2]
Arp    == [src |-> NoHost, dst |-> NoHost, sport |-> 0, dport |-> 0, proto |-> 0,
           app |-> 0, dir |-> 0, len |-> 1]

FourHosts == {TcpIn, TcpIn2, DnsOut, IcmpIn}
TwoKinds == {DnsOut, Arp}

(* ip:2.   dir:in *)
MCTokens == {[k |-> "ip", v |-> {HostC}], [k |-> "dir", v |-> 0]}

CaptureKeys == {"q", "p", "d"}
ViewKeys == {"q", "f", "r", "s", "move", "resize", "esc", "enter", "edit"}
=============================================================================
