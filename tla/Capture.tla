------------------------------- MODULE Capture -------------------------------
(****************************************************************************)
(* The main loop fed with frames: PacketLoop, whose packets are what lines  *)
(* 480-578 and 611-633 of src/pcapsipdump.cpp make of a frame with the      *)
(* algorithms of LinkLayer and SipText.                                     *)
(*                                                                          *)
(* A frame is [link, words, headers, udp]: the link type; for Ethernet the  *)
(* words behind the MAC addresses; the IP headers; and the UDP datagram,    *)
(* NULL in a later fragment, [sport, dport, word4, word8, byte1, sip], with *)
(* the 32-bit words at offsets 4 and 8 of the payload, its second byte, and *)
(* NULL or the SIP message [callid, method, number, ctype, sdp], of which   *)
(* ctype is the value of Content-Type and sdp the lines behind the header.  *)
(****************************************************************************)
EXTENDS PacketLoopProperties, LinkLayer, SipText

CONSTANTS
  Frames,
  Fold     \* what hsaddr and hdaddr make of an IPv6 address

VARIABLES
  frame,   \* the frame in hand
  origin   \* the datagram whose first fragment made each entry of ipfrags

captureVars == <<vars, frame, origin>>

-----------------------------------------------------------------------------
(* strncasecmp(s, "application/sdp", l), and the same for multipart, where  *)
(* l is what the message has: a shorter value will do, a parameter will not,*)
(* nor will a space before "boundary".                                      *)
HasSdp(ctype) ==
  ctype \in {"application/sdp", "application", "multipart/mixed;boundary=x", "multipart/mixed"}

SdpOf(m) ==
  IF ~HasSdp(m.ctype) THEN NULL
  ELSE [at    |-> IF SdpPort(m.sdp) = 0 THEN NULL
                  ELSE [ip |-> SdpAddress(m.sdp), port |-> SdpPort(m.sdp)],
        event |-> RtpmapEvent(m.sdp),
        t38   |-> Lines(m.sdp, "udptl t38") # {}]

SipOf(m, h) ==
  IF m = NULL THEN NULL
  ELSE [callid |-> m.callid, method |-> m.method, number |-> m.number,
        sdp |-> SdpOf(m),
        frag |-> IF IsFirstFragment(h) THEN AddrAddrId(h, Fold) ELSE NULL]

IsRtcp(u) == RtpSave = "rtp+rtcp" /\ u.sport % 2 = 1 /\ u.dport % 2 = 1

DatagramOf(u, h) ==
  [src   |-> [ip |-> Folded(h, h.src, Fold), port |-> u.sport],
   dst   |-> [ip |-> Folded(h, h.dst, Fold), port |-> u.dport],
   ssrc  |-> IF IsRtcp(u) THEN u.word4 ELSE u.word8,
   byte1 |-> u.byte1,
   sip   |-> SipOf(u.sip, h)]

(* The packet PacketLoop takes, or NULL.                                    *)
Decode(f) ==
  LET h == SkipTunnel(f.headers)
      hasIp == f.link = "ethernet" => EthIp(f.words) # NoIp
  IN  CASE hasIp /\ IsLaterFragment(h) -> [id |-> AddrAddrId(h, Fold), last |-> ~h.more]
        [] hasIp /\ ~IsLaterFragment(h) /\ IsUdp(h) -> DatagramOf(f.udp, h)
        [] OTHER -> NULL

(* The packets PacketLoop expects are those of the frames, the lines of an  *)
(* SDP have numbers, and ports are uint16_t.                                *)
ASSUME FramesAssumption ==
  \A f \in Frames :
    /\ Decode(f) \in Datagrams \cup Fragments \cup {NULL}
    /\ Decode(f) \in Datagrams /\ f.udp.sip # NULL => DOMAIN f.udp.sip.sdp \subseteq Nat

ASSUME AddressesAssumption ==
  \A at \in MediaAddrs : at = [ip |-> at.ip, port |-> at.port] /\ at.port \in Nat /\ at.port < 65536

-----------------------------------------------------------------------------
(* Two headers belong to one datagram if they have these in common.         *)
Identity(f) ==
  LET h == SkipTunnel(f.headers)
  IN  [version |-> h.version, src |-> h.src, dst |-> h.dst, id |-> h.id]

CaptureInit == Init /\ frame = NULL /\ origin = [t \in Tuples |-> NULL]

ReceiveFrame(ts, f) ==
  /\ Receive(ts, Decode(f))
  /\ frame' = f
  /\ UNCHANGED origin

Files(what) == \E e \in out' : e.what = what

DispatchFrame ==
  /\ Dispatch
  /\ origin' = IF pkt \in Datagrams /\ Files("sip") /\ pkt.sip.frag # NULL
               THEN [origin EXCEPT ![pkt.sip.frag] = Identity(frame)] ELSE origin
  /\ UNCHANGED frame

CaptureNext ==
  \/ \E ts \in Times, f \in Frames : ReceiveFrame(ts, f)
  \/ DispatchFrame
  \/ (EndOfCapture \/ Signal \/ Stopped) /\ UNCHANGED <<frame, origin>>

CaptureSpec == CaptureInit /\ [][CaptureNext]_captureVars

-----------------------------------------------------------------------------
(* A later fragment that is written to a file belongs to the datagram whose *)
(* first fragment named that file, not just to one with the same key in     *)
(* ipfrags ("into the file that owns this (src,dst,id) tuple",              *)
(* ARCHITECTURE.md 34-35), through tags and tunnels and whatever else is    *)
(* being reassembled.                                                       *)
FragmentsJoinTheirDatagram ==
  [][Files("fragment") => origin[pkt.id] = Identity(frame)]_captureVars

(* "The SDP body is parsed for the media address and port, which are        *)
(* registered as an RTP flow for that call" (ARCHITECTURE.md 81-82): a      *)
(* recorded message with one address and one audio port, whatever else      *)
(* it offers, makes its call track them if it has room, so that the         *)
(* audio is not lost on the way from the frame to the flow.                 *)
Offers(m, at) ==
  /\ m.ctype = "application/sdp"
  /\ at.port # 0
  /\ {m.sdp[i].n : i \in Lines(m.sdp, "c=")} = {at.ip}
  /\ {m.sdp[i].n : i \in Lines(m.sdp, "m=audio")} = {at.port}

OfferIsTracked ==
  [][pc = "dispatch" /\ Files("sip") =>
       \A at \in MediaAddrs : Offers(frame.udp.sip, at) =>
         \E i \in Used' :
           /\ table'[i].call_id = Key(pkt.sip.callid)
           /\ Tracks(table'[i], at) \/ Len(table'[i].flows) = MaxIpPerCall]_captureVars
=============================================================================
