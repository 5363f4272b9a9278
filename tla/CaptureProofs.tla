---------------------------- MODULE CaptureProofs ----------------------------
(****************************************************************************)
(* The loop fed with frames: proofs that what holds of the packet loop      *)
(* holds of it, that fragments of different datagrams meet only where their *)
(* keys do, and that an offer in a recorded message is tracked.             *)
(****************************************************************************)
EXTENDS Capture, EndingProofs, WellFoundedInduction

-----------------------------------------------------------------------------
(* Every step of Capture is one of PacketLoop, whose packets are those the  *)
(* frames decode to.                                                        *)
LEMMA StepOfLoop == [CaptureNext]_captureVars => [Next]_vars
<1>1. ASSUME NEW ts \in Times, NEW f \in Frames, ReceiveFrame(ts, f)
      PROVE  Next
  <2>1. Receive(ts, Decode(f)) /\ Decode(f) \in Datagrams \cup Fragments \cup {NULL}
    BY <1>1, FramesAssumption DEF ReceiveFrame
  <2>2. QED
    BY <2>1 DEF Next
<1>2. DispatchFrame => Next
  BY DEF DispatchFrame, Next
<1>3. (EndOfCapture \/ Signal \/ Stopped) => Next
  BY DEF Next
<1>4. UNCHANGED captureVars => UNCHANGED vars
  BY DEF captureVars
<1>5. QED
  BY <1>1, <1>2, <1>3, <1>4 DEF CaptureNext

(* The loop fed with frames is the packet loop (pcapsipdump.cpp 480-578 do  *)
(* nothing but choose its packet): every theorem about Spec is one about    *)
(* CaptureSpec.                                                             *)
THEOREM CaptureIsThePacketLoop == CaptureSpec => Spec
<1>1. CaptureInit => Init
  BY DEF CaptureInit
<1>2. QED
  BY <1>1, StepOfLoop, PTL DEF CaptureSpec, Spec

(* What FragmentEntriesAreTheirOwners says of the loop, of frames: an entry *)
(* of ipfrags leads to the open file of the call it was made for, as long   *)
(* as that call lasts (ARCHITECTURE.md 34-35).                              *)
THEOREM FragmentsOfFramesFollowTheirCall == CaptureSpec => []FragmentsFollowTheirCall
BY CaptureIsThePacketLoop, FragmentEntriesAreTheirOwners

-----------------------------------------------------------------------------
(* The frame in hand is the one the packet in hand was decoded from.        *)
FrameInHand == pc = "dispatch" => frame \in Frames /\ pkt = Decode(frame)

LEMMA NextFrame == FrameInHand /\ [CaptureNext]_captureVars => FrameInHand'
<1> SUFFICES ASSUME FrameInHand, [CaptureNext]_captureVars PROVE FrameInHand'
  OBVIOUS
<1>1. CASE \E ts \in Times, f \in Frames : ReceiveFrame(ts, f)
  BY <1>1 DEF ReceiveFrame, Receive, FrameInHand
<1>2. CASE DispatchFrame
  BY <1>2 DEF DispatchFrame, Dispatch, Handled, FragmentOfNoFile, FragmentDumped,
              FragmentToClosedDumper, MediaToDestination, MediaFromSource, SipOfKnownCall,
              SipOfUnwantedMethod, SipOfSkippedCall, SipOfRecordedCall, SipOfCallNotOpened,
              Ignored, FrameInHand
<1>3. CASE (EndOfCapture \/ Signal) /\ UNCHANGED <<frame, origin>>
  BY <1>3 DEF EndOfCapture, Signal, FrameInHand
<1>4. CASE (Stopped /\ UNCHANGED <<frame, origin>>) \/ UNCHANGED captureVars
  BY <1>4 DEF Stopped, vars, captureVars, FrameInHand
<1>5. QED
  BY <1>1, <1>2, <1>3, <1>4 DEF CaptureNext

-----------------------------------------------------------------------------
(* The way back from a packet to what its frame was.                        *)
FragmentKey(f) == AddrAddrId(SkipTunnel(f.headers), Fold)

IsPart(f) ==
  LET h == SkipTunnel(f.headers) IN IsFirstFragment(h) \/ IsLaterFragment(h)

LEMMA PacketKinds ==
  ASSUME NEW d, NEW g, d \in Datagrams, g \in Fragments
  PROVE  /\ d \in Datagram /\ g \in Fragment
         /\ d # g /\ d # NULL /\ g # NULL
BY PacketsAssumption

LEMMA DecodedFragment ==
  ASSUME NEW f \in Frames, Decode(f) \in Fragments
  PROVE  IsPart(f) /\ Decode(f).id = FragmentKey(f)
<1> DEFINE h == SkipTunnel(f.headers)
           hasIp == f.link = "ethernet" => EthIp(f.words) # NoIp
<1>1. Decode(f) \in Fragment /\ Decode(f) # NULL
  BY PacketsAssumption
<1>2. DatagramOf(f.udp, h) \notin Fragment
  BY DEF DatagramOf, Fragment
<1>3. hasIp /\ IsLaterFragment(h) /\ Decode(f) = [id |-> AddrAddrId(h, Fold), last |-> ~h.more]
  BY <1>1, <1>2 DEF Decode
<1>4. QED
  BY <1>3 DEF IsPart, FragmentKey

LEMMA DecodedDatagram ==
  ASSUME NEW f \in Frames, Decode(f) \in Datagrams
  PROVE  Decode(f) = DatagramOf(f.udp, SkipTunnel(f.headers))
<1> DEFINE h == SkipTunnel(f.headers)
           later == [id |-> AddrAddrId(h, Fold), last |-> ~h.more]
<1>1. Decode(f) \in Datagram /\ Decode(f) # NULL
  BY PacketsAssumption
<1>2. later \notin Datagram
  BY DEF Datagram
<1>3. QED
  BY <1>1, <1>2 DEF Decode

(* What a SIP packet says of itself, in terms of its frame.                 *)
LEMMA DecodedSip ==
  ASSUME FrameInHand, pc = "dispatch", pkt \in Datagrams, pkt.sip # NULL
  PROVE  LET m == frame.udp.sip
             h == SkipTunnel(frame.headers)
         IN  /\ frame \in Frames
             /\ m # NULL
             /\ pkt.sip \in Sip
             /\ pkt.sip.sdp = SdpOf(m)
             /\ pkt.sip.frag = IF IsFirstFragment(h) THEN FragmentKey(frame) ELSE NULL
<1> DEFINE m == frame.udp.sip
           h == SkipTunnel(frame.headers)
<1>1. frame \in Frames /\ pkt = DatagramOf(frame.udp, h)
  BY DecodedDatagram DEF FrameInHand
<1>2. pkt.sip = SipOf(m, h)
  BY <1>1 DEF DatagramOf
<1>3. m # NULL /\ pkt.sip = [callid |-> m.callid, method |-> m.method, number |-> m.number,
                             sdp |-> SdpOf(m),
                             frag |-> IF IsFirstFragment(h) THEN AddrAddrId(h, Fold) ELSE NULL]
  BY <1>2 DEF SipOf
<1>4. pkt.sip \in Sip
  BY PacketsAssumption DEF Datagram
<1>5. QED
  BY <1>1, <1>3, <1>4 DEF FragmentKey

-----------------------------------------------------------------------------
(* Which effects a step has on files.                                       *)
LEMMA EffectKind ==
  ASSUME NEW what, NEW key, NEW f
  PROVE  Effect(what, key, f).what = what
BY DEF Effect

LEMMA CleanupEffects ==
  ASSUME NEW c, DoCleanup(c)
  PROVE  ~Files("fragment") /\ ~Files("sip")
<1>1. out' = {Effect(HowItEnds(e), e.call_id, e.f_pcap) : e \in Ending(table, c)}
  BY DEF DoCleanup
<1>2. ASSUME NEW x, x \in out'
      PROVE  x.what \in {"unlink", "close trigger"}
  <2>1. PICK e : x = Effect(HowItEnds(e), e.call_id, e.f_pcap)
    BY <1>1, <1>2
  <2>2. x.what = HowItEnds(e)
    BY <2>1, EffectKind
  <2>3. QED
    BY <2>2 DEF HowItEnds
<1>3. QED
  BY <1>2 DEF Files

LEMMA MediaEffects ==
  ASSUME NEW at, Media(at)
  PROVE  ~Files("fragment") /\ ~Files("sip")
<1>1. PICK i, k : out' = IF Saves(table[i])
                         THEN {Effect("rtp", table[i].call_id, table[i].f_pcap)} ELSE {}
  BY DEF Media
<1>2. ASSUME NEW x, x \in out'
      PROVE  x.what = "rtp"
  <2>1. x = Effect("rtp", table[i].call_id, table[i].f_pcap)
    BY <1>1, <1>2
  <2>2. QED
    BY <2>1, EffectKind
<1>3. QED
  BY <1>2 DEF Files

LEMMA FiledEffects ==
  ASSUME NEW i, NEW e, NEW ds, NEW effects, Filing(i, e, ds, effects)
  PROVE  ~Files("fragment") /\ (Files("sip") <=> e.f_pcap # NULL)
<1> DEFINE sip == Effect("sip", Key(pkt.sip.callid), e.f_pcap)
<1>1. \A x \in effects : x.what \in {"open trigger", "open"}
  BY DEF Filing
<1>2. out' = effects \cup IF e.f_pcap # NULL THEN {sip} ELSE {}
  BY DEF Filing, FileMessage
<1>3. sip.what = "sip"
  BY EffectKind
<1> HIDE DEF sip
<1>4. \A x \in out' : x.what # "fragment" /\ (x.what = "sip" => e.f_pcap # NULL)
  BY <1>1, <1>2, <1>3
<1>5. e.f_pcap # NULL => \E x \in out' : x.what = "sip"
  BY <1>2, <1>3
<1>6. QED
  BY <1>4, <1>5 DEF Files

LEMMA FragmentEffects ==
  /\ FragmentOfNoFile \/ FragmentToClosedDumper => ~Files("fragment")
  /\ Ignored => ~(Files("fragment") \/ Files("sip"))
<1>1. FragmentOfNoFile \/ FragmentToClosedDumper \/ Ignored => out' = {}
  BY DEF FragmentOfNoFile, FragmentToClosedDumper, Ignored
<1>2. out' = {} => ~(Files("fragment") \/ Files("sip"))
  BY DEF Files
<1>3. QED
  BY <1>1, <1>2

-----------------------------------------------------------------------------
(* An entry of ipfrags that leads to a file was made by a first fragment    *)
(* with its key, and origin names the datagram of that fragment.            *)
MadeBy(t) ==
  \E f \in Frames : IsPart(f) /\ FragmentKey(f) = t /\ origin[t] = Identity(f)

EntriesHaveOrigins ==
  /\ DOMAIN origin = Tuples
  /\ \A t \in Tuples : t \in DOMAIN ipfrags /\ ipfrags[t] # NULL => MadeBy(t)

LEMMA SameOrigins ==
  ASSUME EntriesHaveOrigins, origin' = origin,
         \A t \in DOMAIN ipfrags' :
           ipfrags'[t] # NULL => t \in DOMAIN ipfrags /\ ipfrags[t] # NULL
  PROVE  EntriesHaveOrigins'
BY DEF EntriesHaveOrigins, MadeBy

LEMMA FiledOrigins ==
  ASSUME FilesInv, FrameInHand, EntriesHaveOrigins, SipFiled, DispatchFrame
  PROVE  EntriesHaveOrigins'
<1>1. IsSip /\ \E i, e, ds, effects : Filing(i, e, ds, effects)
  BY EveryMessageIsFiled
<1>2. PICK i, e, ds, effects : Filing(i, e, ds, effects)
  BY <1>1
<1>3. pc = "dispatch" /\ pkt \in Datagrams /\ pkt.sip # NULL
  BY <1>1 DEF IsSip, IsOther, SipFiled, SipOfKnownCall, SipOfUnwantedMethod,
              SipOfSkippedCall, SipOfRecordedCall, SipOfCallNotOpened, Handled
<1> DEFINE k == pkt.sip.frag
           h == e.f_pcap
<1>4. /\ frame \in Frames
      /\ k # NULL => k \in Tuples /\ IsPart(frame) /\ FragmentKey(frame) = k
  BY <1>3, DecodedSip DEF Sip, IsPart
<1>5. origin' = IF h # NULL /\ k # NULL THEN [origin EXCEPT ![k] = Identity(frame)] ELSE origin
  BY <1>2, <1>3, FiledEffects DEF DispatchFrame
<1>6. IF k = NULL THEN ipfrags' = ipfrags ELSE ipfrags' = AddIpFrag(ipfrags, k, h)
  BY <1>2 DEF Filing, FileMessage
<1>7. CASE k = NULL \/ h = NULL
  BY <1>5, <1>6, <1>7, SameOrigins DEF AddIpFrag
<1>8. CASE k # NULL /\ h # NULL
  <2>1. DOMAIN origin' = Tuples
    BY <1>5 DEF EntriesHaveOrigins
  <2>2. ASSUME NEW t \in Tuples, t \in DOMAIN ipfrags', ipfrags'[t] # NULL
        PROVE  MadeBy(t)'
    <3>1. CASE t = k
      <4>1. origin'[t] = Identity(frame)
        BY <3>1, <1>5, <1>8 DEF EntriesHaveOrigins
      <4>2. QED
        BY <4>1, <3>1, <1>4, <1>8 DEF MadeBy
    <3>2. CASE t # k
      <4>1. t \in DOMAIN ipfrags /\ ipfrags[t] # NULL /\ origin'[t] = origin[t]
        BY <3>2, <2>2, <1>5, <1>6, <1>8 DEF AddIpFrag, EntriesHaveOrigins
      <4>2. QED
        BY <4>1 DEF EntriesHaveOrigins, MadeBy
    <3>3. QED
      BY <3>1, <3>2
  <2>3. QED
    BY <2>1, <2>2 DEF EntriesHaveOrigins
<1>9. QED
  BY <1>7, <1>8

LEMMA NextOrigins ==
  ASSUME FilesInv, FrameInHand, EntriesHaveOrigins, [CaptureNext]_captureVars
  PROVE  EntriesHaveOrigins'
<1>1. ASSUME NEW ts \in Times, NEW f \in Frames, ReceiveFrame(ts, f)
      PROVE  EntriesHaveOrigins'
  <2>1. origin' = origin /\ ipfrags' = ipfrags
    BY <1>1 DEF ReceiveFrame, Receive, DoCleanup
  <2>2. QED
    BY <2>1, SameOrigins
<1>2. ASSUME DispatchFrame, FragmentOfNoFile \/ FragmentDumped \/ FragmentToClosedDumper
      PROVE  EntriesHaveOrigins'
  <2>1. pkt \in Fragments /\ pkt \notin Datagrams
    BY <1>2, PacketsAssumption
       DEF FragmentOfNoFile, FragmentDumped, FragmentToClosedDumper, FragmentHasDumper
  <2>2. origin' = origin
    BY <1>2, <2>1 DEF DispatchFrame
  <2>3. \/ ipfrags' = ipfrags
        \/ ipfrags' = GetIpFrag(ipfrags, pkt.id)
        \/ ipfrags' = DeleteIpFrag(ipfrags, pkt.id)
    BY <1>2 DEF FragmentOfNoFile, FragmentDumped, FragmentToClosedDumper, ForgetIfLast
  <2>4. \A t \in DOMAIN ipfrags' :
          ipfrags'[t] # NULL => t \in DOMAIN ipfrags /\ ipfrags[t] # NULL
    BY <2>3 DEF GetIpFrag, AddIpFrag, DeleteIpFrag
  <2>5. QED
    BY <2>2, <2>4, SameOrigins
<1>3. ASSUME DispatchFrame, MediaToDestination \/ MediaFromSource \/ Ignored
      PROVE  EntriesHaveOrigins'
  <2>1. ~Files("sip")
    BY <1>3, MediaEffects, FragmentEffects DEF MediaToDestination, MediaFromSource
  <2>2. origin' = origin /\ ipfrags' = ipfrags
    BY <1>3, <2>1 DEF DispatchFrame, MediaToDestination, MediaFromSource, Ignored
  <2>3. QED
    BY <2>2, SameOrigins
<1>4. CASE DispatchFrame
  BY <1>2, <1>3, <1>4, FiledOrigins DEF DispatchFrame, Dispatch, SipFiled
<1>5. CASE (EndOfCapture \/ Signal \/ Stopped) /\ UNCHANGED <<frame, origin>>
  <2>1. origin' = origin /\ ipfrags' = ipfrags
    BY <1>5 DEF EndOfCapture, Signal, Stopped, DoCleanup, vars
  <2>2. QED
    BY <2>1, SameOrigins
<1>6. CASE UNCHANGED captureVars
  BY <1>6, SameOrigins DEF captureVars, vars
<1>7. QED
  BY <1>1, <1>4, <1>5, <1>6 DEF CaptureNext

(* Each step of the kinds that matter, told by its effects.                 *)
LEMMA OnlyDumpedFragments ==
  ASSUME FilesInv, [CaptureNext]_captureVars, Files("fragment")
  PROVE  FragmentDumped \/ UNCHANGED captureVars
<1>1. ASSUME NEW ts \in Times, NEW f \in Frames, ReceiveFrame(ts, f)
      PROVE  FALSE
  <2>1. CASE CleanupDue(ts)
    BY <1>1, <2>1, CleanupEffects DEF ReceiveFrame, Receive
  <2>2. CASE ~CleanupDue(ts)
    BY <1>1, <2>2 DEF ReceiveFrame, Receive, Files
  <2>3. QED
    BY <2>1, <2>2
<1>2. MediaToDestination \/ MediaFromSource => FALSE
  BY MediaEffects DEF MediaToDestination, MediaFromSource
<1>3. FragmentOfNoFile \/ FragmentToClosedDumper \/ Ignored => FALSE
  BY FragmentEffects
<1>4. SipFiled => FALSE
  BY EveryMessageIsFiled, FiledEffects
<1>5. DispatchFrame => FragmentDumped
  BY <1>2, <1>3, <1>4 DEF DispatchFrame, Dispatch, SipFiled
<1>6. EndOfCapture \/ Signal => FALSE
  BY CleanupEffects DEF EndOfCapture, Signal
<1>7. Stopped /\ UNCHANGED <<frame, origin>> => UNCHANGED captureVars
  BY DEF Stopped, captureVars
<1>8. QED
  BY <1>1, <1>5, <1>6, <1>7 DEF CaptureNext

(* A fragment that is written goes to the file of its own datagram, as long *)
(* as different datagrams have different keys, whatever they are wrapped in *)
(* and however they are interleaved with calls that end and begin.          *)
(* FragmentIds is what happens when two do share a key, as the 16 bits kept *)
(* of an IPv6 id make likely (pcapsipdump.cpp 491-520, 702-709).            *)
THEOREM FragmentsAreNotMixed ==
  ASSUME \A f, g \in Frames :
           IsPart(f) /\ IsPart(g) /\ FragmentKey(f) = FragmentKey(g) => Identity(f) = Identity(g)
  PROVE  CaptureSpec => FragmentsJoinTheirDatagram
<1> DEFINE Inv == FilesInv /\ FrameInHand /\ EntriesHaveOrigins
<1>1. CaptureInit => Inv
  <2>1. CaptureInit => FilesInv
    BY InitFiles DEF CaptureInit
  <2>2. CaptureInit => FrameInHand /\ EntriesHaveOrigins
    BY DEF CaptureInit, Init, FrameInHand, EntriesHaveOrigins
  <2>3. QED
    BY <2>1, <2>2
<1>2. Inv /\ [CaptureNext]_captureVars => Inv'
  <2>1. FilesInv /\ [CaptureNext]_captureVars => FilesInv'
    BY StepOfLoop, NextFiles
  <2>2. QED
    BY <2>1, NextFrame, NextOrigins
<1>3. Inv /\ [CaptureNext]_captureVars =>
        [Files("fragment") => origin[pkt.id] = Identity(frame)]_captureVars
  <2> SUFFICES ASSUME Inv, [CaptureNext]_captureVars, Files("fragment"), FragmentDumped
               PROVE  origin[pkt.id] = Identity(frame)
    BY OnlyDumpedFragments
  <2>1. /\ pc = "dispatch" /\ pkt \in Fragments
        /\ pkt.id \in DOMAIN ipfrags /\ ipfrags[pkt.id] # NULL
    BY DEF FragmentDumped, FragmentHasDumper, Handled
  <2>2. /\ frame \in Frames /\ IsPart(frame) /\ pkt.id = FragmentKey(frame)
    BY <2>1, DecodedFragment DEF FrameInHand
  <2>3. pkt.id \in Tuples
    BY <2>1, PacketsAssumption DEF Fragment
  <2>4. PICK f \in Frames : /\ IsPart(f) /\ FragmentKey(f) = pkt.id
                            /\ origin[pkt.id] = Identity(f)
    BY <2>1, <2>3 DEF EntriesHaveOrigins, MadeBy
  <2>5. Identity(f) = Identity(frame)
    BY <2>2, <2>4
  <2>6. QED
    BY <2>4, <2>5
<1>4. QED
  BY <1>1, <1>2, <1>3, PTL DEF CaptureSpec, FragmentsJoinTheirDatagram

-----------------------------------------------------------------------------
(* The text of an offer.                                                    *)
LEMMA LeastOf ==
  ASSUME NEW S \in SUBSET Nat, S # {}
  PROVE  Min(S) \in S
<1>1. \E n \in S : \A m \in S : <<m, n>> \notin OpToRel(<, Nat)
  BY WFMin, NatLessThanWellFounded, Zenon
<1>2. PICK n \in S : \A m \in S : <<m, n>> \notin OpToRel(<, Nat)
  BY <1>1
<1>3. \A m \in S : ~(m < n)
  BY <1>2 DEF OpToRel
<1>4. \A m \in S : n <= m
  BY <1>3
<1>5. QED
  BY <1>4 DEF Min

LEMMA FirstLine ==
  ASSUME NEW sdp, DOMAIN sdp \subseteq Nat, NEW tag, NEW n,
         {sdp[i].n : i \in Lines(sdp, tag)} = {n}
  PROVE  Lines(sdp, tag) # {} /\ sdp[Min(Lines(sdp, tag))].n = n
<1>1. Lines(sdp, tag) \in SUBSET Nat /\ Lines(sdp, tag) # {}
  BY DEF Lines
<1>2. Min(Lines(sdp, tag)) \in Lines(sdp, tag)
  BY <1>1, LeastOf
<1>3. QED
  BY <1>1, <1>2

Uint16(n) == n % 65536

LEMMA OfferedPort ==
  ASSUME NEW sdp, DOMAIN sdp \subseteq Nat, NEW n,
         {sdp[i].n : i \in Lines(sdp, "m=audio")} = {n}
  PROVE  SdpPort(sdp) = Uint16(n)
<1>1. Lines(sdp, "m=audio") # {} /\ sdp[Min(Lines(sdp, "m=audio"))].n = n
  BY FirstLine
<1>2. QED
  BY <1>1 DEF SdpPort, Uint16

LEMMA OfferedHost ==
  ASSUME NEW sdp, DOMAIN sdp \subseteq Nat, NEW ip,
         {sdp[i].n : i \in Lines(sdp, "c=")} = {ip}
  PROVE  SdpAddress(sdp) = ip
<1>1. Lines(sdp, "c=") # {} /\ sdp[Min(Lines(sdp, "c="))].n = ip
  BY FirstLine
<1>2. QED
  BY <1>1 DEF SdpAddress

LEMMA OfferedAddress ==
  ASSUME NEW m, DOMAIN m.sdp \subseteq Nat, NEW at \in MediaAddrs, Offers(m, at)
  PROVE  /\ SdpOf(m) \in Sdp
         /\ SdpOf(m) # NULL
         /\ SdpOf(m).at = at
<1> DEFINE sdp == m.sdp
           t38 == Lines(sdp, "udptl t38") # {}
           event == RtpmapEvent(sdp)
           address == [ip |-> SdpAddress(sdp), port |-> SdpPort(sdp)]
<1>1. at = [ip |-> at.ip, port |-> at.port] /\ at.port \in Nat /\ at.port < 65536 /\ at.port # 0
  BY AddressesAssumption DEF Offers
<1>2. /\ m.ctype = "application/sdp"
      /\ {sdp[i].n : i \in Lines(sdp, "c=")} = {at.ip}
      /\ {sdp[i].n : i \in Lines(sdp, "m=audio")} = {at.port}
  BY DEF Offers
<1>3. SdpOf(m) = [at    |-> IF SdpPort(sdp) = 0 THEN NULL ELSE address,
                  event |-> event,
                  t38   |-> t38]
  BY <1>2 DEF SdpOf, HasSdp
<1>4. DOMAIN sdp \subseteq Nat
  OBVIOUS
<1>5. event \in Int /\ t38 \in BOOLEAN
  BY DEF RtpmapEvent
<1> HIDE DEF sdp, t38, event
<1>6. SdpAddress(sdp) = at.ip
  BY <1>2, <1>4, OfferedHost
<1>7. SdpPort(sdp) = Uint16(at.port)
  BY <1>2, <1>4, OfferedPort
<1>8. \A n \in Nat : n < 65536 => n % 65536 = n
  OBVIOUS
<1>9. SdpPort(sdp) = at.port
  BY <1>1, <1>7, <1>8 DEF Uint16
<1>10. address = at /\ SdpPort(sdp) # 0
  BY <1>1, <1>6, <1>9
<1> HIDE DEF address
<1>11. SdpOf(m) = [at |-> at, event |-> event, t38 |-> t38]
  BY <1>3, <1>10
<1>12. SdpOf(m) \in Sdp
  BY <1>5, <1>11 DEF Sdp
<1>13. QED
  BY <1>11, <1>12, PacketsAssumption

(* What add_ip_port leaves of a slot: the address in it, or no room.        *)
TracksOrIsFull(e, at) == Tracks(e, at) \/ Len(e.flows) = MaxIpPerCall

LEMMA AddTracks ==
  ASSUME NEW e \in CallElement, Len(e.flows) <= MaxIpPerCall, NEW at \in MediaAddrs
  PROVE  TracksOrIsFull(AddIpPort(e, at), at)
<1>1. e.flows \in Seq(Flow)
  BY DEF CallElement
<1>2. CASE Len(e.flows) >= MaxIpPerCall \/ Tracks(e, at)
  BY <1>1, <1>2, LimitsAssumption DEF AddIpPort, TracksOrIsFull
<1>3. CASE ~(Len(e.flows) >= MaxIpPerCall \/ Tracks(e, at))
  <2> DEFINE fl == Append(e.flows, [at |-> at, ssrc |-> 0])
  <2>1. AddIpPort(e, at) = [e EXCEPT !.flows = fl]
    BY <1>3 DEF AddIpPort
  <2>2. [e EXCEPT !.flows = fl].flows = fl
    BY DEF CallElement
  <2>3. Len(e.flows) + 1 \in DOMAIN fl /\ fl[Len(e.flows) + 1].at = at
    BY <1>1
  <2> HIDE DEF fl
  <2>4. QED
    BY <2>1, <2>2, <2>3 DEF TracksOrIsFull, Tracks
<1>4. QED
  BY <1>2, <1>3

LEMMA SignalledTracks ==
  ASSUME NEW e \in CallElement, Len(e.flows) <= MaxIpPerCall,
         NEW m \in Sip, m.sdp # NULL, NEW at \in MediaAddrs, m.sdp.at = at
  PROVE  TracksOrIsFull(Signalled(e, m), at)
<1> DEFINE b == [e EXCEPT !.had_bye = @ \/ m.method = "BYE"]
           f == AddIpPort(b, at)
           event == IF m.sdp.event # 0 THEN m.sdp.event ELSE f.rtpmap_event
           t38 == f.had_t38 \/ (T38Only /\ m.sdp.t38)
           g == [f EXCEPT !.rtpmap_event = event, !.had_t38 = t38]
<1>1. b \in CallElement /\ Len(b.flows) <= MaxIpPerCall
  BY DEF CallElement
<1>2. TracksOrIsFull(f, at)
  BY <1>1, AddTracks
<1>3. at # NULL
  BY NullAssumption
<1>4. Signalled(e, m) = g
  BY <1>3 DEF Signalled, ParseSdp
<1>5. g.flows = f.flows
  OBVIOUS
<1> HIDE DEF g, f
<1>6. QED
  BY <1>2, <1>4, <1>5 DEF TracksOrIsFull, Tracks

LEMMA OnlySignallingIsFiled ==
  ASSUME FilesInv, [CaptureNext]_captureVars, pc = "dispatch", Files("sip")
  PROVE  SipFiled \/ UNCHANGED captureVars
<1>1. ~(\E ts \in Times, f \in Frames : ReceiveFrame(ts, f))
  BY DEF ReceiveFrame, Receive
<1>2. MediaToDestination \/ MediaFromSource => FALSE
  BY MediaEffects DEF MediaToDestination, MediaFromSource
<1>3. FragmentOfNoFile \/ FragmentDumped \/ FragmentToClosedDumper \/ Ignored => FALSE
  <2>1. FragmentOfNoFile \/ FragmentToClosedDumper \/ Ignored => out' = {}
    BY DEF FragmentOfNoFile, FragmentToClosedDumper, Ignored
  <2>2. out' # {}
    BY DEF Files
  <2>3. ASSUME FragmentDumped PROVE FALSE
    <3>1. out' = {Effect("fragment", dumpers[ipfrags[pkt.id]].call, ipfrags[pkt.id])}
      BY <2>3 DEF FragmentDumped
    <3>2. \A x \in out' : x.what = "fragment"
      BY <3>1, EffectKind
    <3>3. QED
      BY <3>2 DEF Files
  <2>4. QED
    BY <2>1, <2>2, <2>3
<1>4. DispatchFrame => SipFiled
  BY <1>2, <1>3 DEF DispatchFrame, Dispatch, SipFiled
<1>5. EndOfCapture \/ Signal => FALSE
  BY CleanupEffects DEF EndOfCapture, Signal
<1>6. Stopped /\ UNCHANGED <<frame, origin>> => UNCHANGED captureVars
  BY DEF Stopped, captureVars
<1>7. QED
  BY <1>1, <1>4, <1>5, <1>6 DEF CaptureNext

(* Whatever a recorded message offers besides, and however it got here, its *)
(* one address and one audio port become a flow of the call it was filed    *)
(* with, or that call has all the flows it can have                         *)
(* (get_ip_port_from_sdp and add_ip_port; ARCHITECTURE.md 81-82).           *)
THEOREM OffersAreTracked == CaptureSpec => OfferIsTracked
<1> DEFINE Inv == FilesInv /\ FrameInHand
           Tracked ==
             pc = "dispatch" /\ Files("sip") =>
               \A at \in MediaAddrs : Offers(frame.udp.sip, at) =>
                 \E i \in Used' :
                   /\ table'[i].call_id = Key(pkt.sip.callid)
                   /\ Tracks(table'[i], at) \/ Len(table'[i].flows) = MaxIpPerCall
<1>1. CaptureInit => Inv
  <2>1. CaptureInit => FilesInv
    BY InitFiles DEF CaptureInit
  <2>2. CaptureInit => FrameInHand
    BY DEF CaptureInit, Init, FrameInHand
  <2>3. QED
    BY <2>1, <2>2
<1>2. Inv /\ [CaptureNext]_captureVars => Inv'
  BY StepOfLoop, NextFiles, NextFrame
<1>3. Inv /\ [CaptureNext]_captureVars => [Tracked]_captureVars
  <2> SUFFICES ASSUME Inv, SipFiled, pc = "dispatch",
                      NEW at \in MediaAddrs, Offers(frame.udp.sip, at)
               PROVE  \E i \in Used' :
                        /\ table'[i].call_id = Key(pkt.sip.callid)
                        /\ Tracks(table'[i], at) \/ Len(table'[i].flows) = MaxIpPerCall
    BY OnlySignallingIsFiled
  <2>1. IsSip /\ \E i, e, ds, effects : Filing(i, e, ds, effects)
    BY EveryMessageIsFiled
  <2>2. PICK i, e, ds, effects : Filing(i, e, ds, effects)
    BY <2>1
  <2>3. pkt \in Datagrams /\ pkt.sip # NULL
    BY <2>1 DEF IsSip, IsOther
  <2>4. /\ frame \in Frames /\ frame.udp.sip # NULL
        /\ pkt.sip \in Sip /\ pkt.sip.sdp = SdpOf(frame.udp.sip)
    BY <2>3, DecodedSip
  <2>5. DOMAIN frame.udp.sip.sdp \subseteq Nat
    BY <2>3, <2>4, FramesAssumption DEF FrameInHand
  <2>6. pkt.sip.sdp # NULL /\ pkt.sip.sdp.at = at
    BY <2>4, <2>5, OfferedAddress
  <2>7. /\ e \in CallElement /\ Len(e.flows) <= MaxIpPerCall
        /\ e.call_id = Key(pkt.sip.callid)
    BY <2>2 DEF Filing
  <2>8. table'[i] = Signalled(e, pkt.sip) /\ i \in Used'
    BY <2>1, <2>2, FiledSlots
  <2>9. Signalled(e, pkt.sip).call_id = e.call_id
    BY <2>4, <2>7, SignalledType
  <2>10. TracksOrIsFull(Signalled(e, pkt.sip), at)
    BY <2>4, <2>6, <2>7, SignalledTracks
  <2>11. QED
    BY <2>7, <2>8, <2>9, <2>10 DEF TracksOrIsFull
<1>4. QED
  BY <1>1, <1>2, <1>3, PTL DEF CaptureSpec, OfferIsTracked
=============================================================================
