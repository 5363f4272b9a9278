------------------------------ MODULE MCCapture ------------------------------
(****************************************************************************)
(* A small instance of Capture: two calls whose INVITEs come in fragments,  *)
(* in different encapsulations, and what else a link carries.               *)
(****************************************************************************)
EXTENDS MCPacketLoop, Capture

CONSTANTS v6a, v6b

(* IP headers.  The IPv6 hosts v6a and v6b fold into q and r.               *)
Hosts == [h \in {v6a, v6b} |-> IF h = v6a THEN q ELSE r]

V4(src, dst, id, offset, more) ==
  [version |-> 4, proto |-> "udp", next |-> "none", src |-> src, dst |-> dst,
   id |-> id, offset |-> offset, more |-> more, df |-> FALSE, whole |-> TRUE]
V6(src, dst, proto) ==
  [version |-> 6, proto |-> proto, next |-> "none", src |-> src, dst |-> dst,
   id |-> 0, offset |-> 0, more |-> FALSE, df |-> FALSE, whole |-> TRUE]
V6Fragment(src, dst, id, offset, more) ==
  [V6(src, dst, "fragment") EXCEPT !.next = "udp", !.id = id, !.offset = offset, !.more = more]

(* Ethernet headers: bare, in a VLAN, and PPPoE in a VLAN.                  *)
Pad == <<"xxxx", "xxxx", "xxxx", "xxxx", "xxxx">>
Bare(type)  == <<type>> \o Pad \o Pad
InVlan      == <<"8100", "xxxx", IPv6>> \o Pad \o Pad
InPppoe     == <<"8100", "xxxx", PPPoE, "1100", "xxxx", "xxxx", "0021">> \o Pad

Wired(words, headers, udp) ==
  [link |-> "ethernet", words |-> words, headers |-> headers, udp |-> udp]
Cooked(headers, udp) ==
  [link |-> "sll", words |-> << >>, headers |-> headers, udp |-> udp]

(* Payloads.                                                                *)
SdpLine(tag, n) == [tag |-> tag, n |-> n]
VideoToo == <<SdpLine("c=", p), SdpLine("m=image", 20000), SdpLine("m=audio", 10000),
              SdpLine("a=rtpmap", NotAnEvent)>>
Invite(id, ctype, sdp) ==
  [sport |-> 5060, dport |-> 5060, word4 |-> 0, word8 |-> 0, byte1 |-> 0,
   sip |-> [callid |-> id, method |-> "INVITE", number |-> TRUE, ctype |-> ctype, sdp |-> sdp]]
Rtp(sport, dport, word4, word8) ==
  [sport |-> sport, dport |-> dport, word4 |-> word4, word8 |-> word8, byte1 |-> 0, sip |-> NULL]

AliceInvites == Invite(Alice, "application/sdp", VideoToo)
BobInvites   == Invite(Bob, "application/sdp; charset=utf-8", VideoToo)

(* The two calls' datagrams have the same destination and IP id.            *)
Mixed ==
  {Wired(Bare(IPv4), <<V4(p, r, 7, 0, TRUE)>>, AliceInvites),
   Cooked(<<V4(q, r, 7, 0, TRUE)>>, BobInvites),
   Wired(InVlan, <<V6Fragment(v6a, v6b, 65536 * 9, 0, TRUE)>>, BobInvites),
   Wired(Bare("0806"), << V4(p, r, 7, 0, TRUE) >>, NULL),
   Wired(Bare(IPv4), <<[V4(p, r, 7, 0, FALSE) EXCEPT !.proto = "tcp"]>>, NULL),
   Wired(InPppoe, <<V4(q, p, 8, 0, FALSE)>>, Rtp(20000, 10000, 5, 1)),
   Wired(Bare(IPv6), <<V6(v6a, v6b, "ipip"), V4(q, p, 8, 0, FALSE)>>, Rtp(20001, 10001, 1, 5))}
  \cup
  {Wired(Bare(IPv4), <<V4(src, r, 7, 1480, more)>>, NULL) : src \in {p, q}, more \in BOOLEAN}
  \cup
  {Wired(InVlan, <<V6Fragment(v6a, v6b, 65536 * 9, 1480, more)>>, NULL) : more \in BOOLEAN}

(* Two IPv6 datagrams between two hosts, one right after the other.         *)
Consecutive ==
  {Wired(InVlan, <<V6Fragment(v6a, v6b, id, 0, TRUE)>>, AliceInvites) : id \in {1, 2}}
  \cup
  {Wired(InVlan, <<V6Fragment(v6a, v6b, id, 1480, TRUE)>>, NULL) : id \in {1, 2}}

IsFragmentFrame(f) == IsLaterFragment(SkipTunnel(f.headers))
Later(fs) == {f \in fs : Decode(f) # NULL /\ IsFragmentFrame(f)}
Whole(fs) == {f \in fs : Decode(f) # NULL /\ ~IsFragmentFrame(f)}

DecodedFragments == {Decode(f) : f \in Later(Frames)}
DecodedDatagrams == {Decode(f) : f \in Whole(Frames)}
DecodedTuples    == {g.id : g \in DecodedFragments}

CaptureAddresses ==
  {[ip |-> ip, port |-> port] : ip \in {p, q, r, Broadcast},
                                port \in {5060, 10000, 10001, 20000, 20001}}
=============================================================================
