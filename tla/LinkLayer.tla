------------------------------ MODULE LinkLayer ------------------------------
(****************************************************************************)
(* Where the IP header of an Ethernet frame is (ethernet_get_header_ip and  *)
(* skip_tunnel_ip_header, src/pcapsipdump_lib.cpp), and what main makes of  *)
(* it in lines 490-543: a later fragment, a UDP datagram or neither.        *)
(*                                                                          *)
(* w is the frame behind the two MAC addresses, as 16-bit words, of which   *)
(* w[1] is the first ethertype.  A header is                                *)
(* [version, proto, next, src, dst, id, offset, more, df, whole], next being*)
(* the protocol in an IPv6 fragment header and whole whether the packet was *)
(* captured as far as the UDP header is looked for.                         *)
(****************************************************************************)
EXTENDS Integers, Sequences

IPv4 == "0800"
IPv6 == "86dd"
PPPoE == "8864"
VlanTags == {"8100", "9100", "88a8"}

NoIp == 0

-----------------------------------------------------------------------------
(* The position of the IP header in w, or NoIp.                             *)
PppoeIp(w, i) ==
  IF w[i] = PPPoE /\ w[i + 1] = "1100" /\ w[i + 4] \in {"0021", "0057"}
  THEN i + 5 ELSE NoIp

QinQIp(w) ==
  IF w[3] = "8100" /\ w[5] = IPv4 THEN 6 ELSE NoIp

EthIpInnerUnread(w) ==  \* mutant: what follows the second tag is not looked at
  CASE w[1] \in {IPv4, IPv6} -> 2
    [] w[1] = "8100" /\ w[3] \in {IPv4, IPv6} -> 4
    [] w[1] = "8100" /\ w[3] = PPPoE -> PppoeIp(w, 3)
    [] w[1] \in VlanTags /\ w[3] = "8100" -> 6
    [] w[1] = PPPoE -> PppoeIp(w, 1)
    [] OTHER -> NoIp

EthIp(w) ==
  CASE w[1] \in {IPv4, IPv6} -> 2
    [] w[1] = "8100" /\ w[3] \in {IPv4, IPv6} -> 4
    [] w[1] = "8100" /\ w[3] = PPPoE -> PppoeIp(w, 3)
    [] w[1] = "8100" /\ w[3] \notin {IPv4, IPv6, PPPoE} -> QinQIp(w)
    [] w[1] \in VlanTags \ {"8100"} -> QinQIp(w)
    [] w[1] = PPPoE -> PppoeIp(w, 1)
    [] OTHER -> NoIp

(* Of an IPv4 packet in IPv6 the inner header counts.                       *)
SkipTunnel(headers) ==
  IF headers[1].version = 6 /\ headers[1].proto = "ipip" THEN headers[2] ELSE headers[1]

-----------------------------------------------------------------------------
(* Fragments.  In IPv6 only those whose fragment header says UDP; in IPv4   *)
(* of any protocol.                                                         *)
HasFragmentHeader(h) == h.version = 6 /\ h.proto = "fragment"

IsLaterFragment(h) ==
  /\ h.offset > 0
  /\ h.version = 4 \/ (HasFragmentHeader(h) /\ h.next = "udp")

(* Of a first fragment only an IPv4 one whose other flag bits are clear.    *)
IsFirstFragment(h) ==
  \/ h.version = 4 /\ h.more /\ ~h.df /\ h.offset = 0
  \/ HasFragmentHeader(h)

IsUdp(h) ==
  /\ h.whole
  /\ h.version \in {4, 6}
  /\ h.proto = "udp" \/ (HasFragmentHeader(h) /\ h.next = "udp")

(* hsaddr, hdaddr: an IPv6 address is folded into 32 bits.                  *)
Folded(h, a, Fold) == IF h.version = 4 THEN a ELSE Fold[a]

(* The 32-bit id of an IPv6 fragment header is loaded in network order and  *)
(* cast to uint16_t: on a little-endian machine its upper half is kept.     *)
FragmentId(h) == IF h.version = 4 THEN h.id ELSE h.id \div 65536

AddrAddrIdOf(h, Fold, id) ==
  [src |-> Folded(h, h.src, Fold), dst |-> Folded(h, h.dst, Fold), id |-> id]

AddrAddrIdOneSided(h, Fold) ==  \* mutant: operator< compares daddr and id alone
  [AddrAddrIdOf(h, Fold, FragmentId(h)) EXCEPT !.src = 0]

AddrAddrId(h, Fold) == AddrAddrIdOf(h, Fold, FragmentId(h))
=============================================================================
