---------------------------- MODULE MCPacketLoop ----------------------------
(****************************************************************************)
(* Small instances of PacketLoop.  Each set of datagrams below is one       *)
(* question; the .cfg files put them together with options and timestamps.  *)
(****************************************************************************)
EXTENDS PacketLoopProperties, TLC

CONSTANTS a, p, q, r, h1, h2, f1, f2

-----------------------------------------------------------------------------
(* Three Call-IDs with the same first 32 bytes: one of another length, and  *)
(* two that differ only after byte 32 and are one call to the table.        *)
Alice == [len |-> 33, head |-> a, tail |-> p]
Bob   == [len |-> 40, head |-> a, tail |-> p]
Rob   == [len |-> 40, head |-> a, tail |-> q]

TwoCalls   == {Alice, Bob}
ThreeCalls == {Alice, Bob, Rob}
TwoDumpers == {h1, h2}
OneDumper  == {h1}
DumpersAreAlike == Permutations(TwoDumpers)
TwoTuples  == {f1, f2}
OneTuple   == {f1}

(* Media addresses: an even port, the odd port above it, and another host.  *)
Even  == [ip |-> p, port |-> 10000]
Odd   == [ip |-> p, port |-> 10001]
Far   == [ip |-> q, port |-> 20000]
Proxy == [ip |-> r, port |-> 5060]
Addresses == {Even, Odd, Far, Proxy}

(* Timestamps, in seconds since the epoch.  15 and 300 second limits are    *)
(* crossed, met and missed by one, forwards and backwards.                  *)
Start == 1700000000
Clock(offsets) == {Start + d : d \in offsets}
Crossing  == Clock({0, 15, 300, 316})
Stepping  == Clock({0, 290, 310})
Brief     == Clock({0, 16, 330})
EarlyLate == Clock({0, 301})
Backward  == Clock({0, 5, 20})
Year2038  == {2147483547}

LastInt32 == 2147483647
DefaultFilter == {"INVITE", "OPTIONS", "REGISTER"}

-----------------------------------------------------------------------------
(* Packets.                                                                 *)
NoSdp          == NULL
Audio(at)      == [at |-> at, event |-> 0, t38 |-> FALSE]
Dtmf(at, pt)   == [at |-> at, event |-> pt, t38 |-> FALSE]
Fax(at)        == [at |-> at, event |-> 0, t38 |-> TRUE]

Message(id, method, sdp) ==
  [callid |-> id, method |-> method, number |-> TRUE, sdp |-> sdp, frag |-> NULL]
Unmatched(m)   == [m EXCEPT !.number = FALSE]
FirstOf(f, m)  == [m EXCEPT !.frag = f]

Carry(m) ==
  [src |-> Proxy, dst |-> Proxy, ssrc |-> 0, byte1 |-> 0, sip |-> m]
MediaPacket(src, dst, ssrc) ==
  [src |-> src, dst |-> dst, ssrc |-> ssrc, byte1 |-> 0, sip |-> NULL]
Payload(d, byte1) == [d EXCEPT !.byte1 = byte1]

(* Calls come and go: new calls, a response first, a BYE first, Call-IDs    *)
(* that agree in what is kept of them, a number -n does not let through; an *)
(* INVITE in fragments.                                                     *)
LifeCycle ==
  {Carry(FirstOf(f1, Message(Alice, "INVITE", Audio(Even)))),
   Carry(Message(Alice, "BYE", NoSdp)),
   Carry(Message(Bob, "INVITE", NoSdp)),
   Carry(Message(Rob, "", NoSdp)),
   Carry(Unmatched(Message(Rob, "INVITE", NoSdp))),
   Carry([Message(Rob, "OPTIONS", NoSdp) EXCEPT !.callid = NULL]),
   MediaPacket(Far, Even, 1)}

(* Two calls one after the other, or at once, at one address; one switches  *)
(* to T.38 and back, and the other offers it when its flows may be used up. *)
MediaCalls ==
  {Carry(Message(Alice, "INVITE", Audio(Even))),
   Carry(Message(Alice, "", Fax(Far))),
   Carry(Message(Alice, "BYE", NoSdp)),
   Carry(Message(Bob, "INVITE", Fax(NULL))),
   Carry(Message(Bob, "", Audio(Even))),
   Carry(Message(Bob, "", Audio(Far))),
   Carry(Message(Bob, "", Audio(Odd))),
   Carry(Message(Bob, "BYE", NoSdp)),
   MediaPacket(Far, Even, 1),
   MediaPacket(Proxy, Even, 2),
   MediaPacket(Even, Proxy, 1),
   MediaPacket(Odd, Odd, 2)}

(* Datagrams in fragments, for a recorded call and one that is not.         *)
Fragmented ==
  {Carry(FirstOf(f1, Message(Alice, "INVITE", NoSdp))),
   Carry(FirstOf(f1, Message(Bob, "INVITE", NoSdp))),
   Carry(FirstOf(f2, Message(Bob, "", NoSdp)))}

LaterFragments == [id : TwoTuples, last : BOOLEAN]
OneLaterFragment == {[id |-> f1, last |-> FALSE]}
NoFragments == {}

(* A call whose T.38 offer has no port that can be read.                    *)
FaxCalls ==
  {Carry(Message(Alice, "INVITE", Audio(Even))),
   Carry(Message(Bob, "INVITE", Fax(NULL)))}

(* An announced odd port, and DTMF with and without the marker bit (payload *)
(* type 101, as char: 101 and -27).                                         *)
OddPort ==
  {Carry(Message(Alice, "INVITE", Audio(Odd))), MediaPacket(Far, Odd, 1)}

DtmfCalls ==
  {Carry(Message(Alice, "INVITE", Dtmf(Even, 101))),
   Payload(MediaPacket(Far, Even, 1), 101),
   Payload(MediaPacket(Far, Even, 1), -27)}

OneCall ==
  {Carry(Message(Alice, "INVITE", NoSdp)), Carry(Message(Alice, "", NoSdp))}
=============================================================================
