-------------------------- MODULE PacketLoopProofs --------------------------
(****************************************************************************)
(* Theorems about the main loop for any calls, addresses, packets, times    *)
(* and options.                                                             *)
(****************************************************************************)
EXTENDS PacketLoopProperties, TLAPS

-----------------------------------------------------------------------------
(* What the operations of the call table return.                            *)

(* A slot written at an index of the vector or right after it.              *)
LEMMA PutType ==
  ASSUME NEW t \in Seq(CallElement), NEW i \in 1 .. Len(t) + 1,
         NEW e \in CallElement
  PROVE  Put(t, i, e) \in Seq(CallElement)
<1> DEFINE n == IF i = Len(t) + 1 THEN i ELSE Len(t)
<1>1. n \in Nat /\ DOMAIN t = 1 .. Len(t) /\ DOMAIN t \cup {i} = 1 .. n
  OBVIOUS
<1>2. Put(t, i, e) \in [1 .. n -> CallElement]
  BY <1>1 DEF Put
<1>3. QED
  BY <1>1, <1>2

(* do_cleanup neither grows nor shrinks the vector.                         *)
LEMMA CleanupType ==
  ASSUME NEW t \in Seq(CallElement), NEW c \in Int
  PROVE  /\ Cleanup(t, c) \in Seq(CallElement)
         /\ DOMAIN Cleanup(t, c) = DOMAIN t
         /\ Len(Cleanup(t, c)) = Len(t)
<1>1. Blank \in CallElement
  BY DEF Blank, CallElement
<1>2. Cleanup(t, c) \in [1 .. Len(t) -> CallElement]
  BY <1>1 DEF Cleanup
<1>3. QED
  BY <1>2 DEF Cleanup

(* parse_sdp and the rest of a known call's message change flows, had_bye,  *)
(* had_t38 and rtpmap_event of the slot, and never add a flow too many.     *)
LEMMA SignalledType ==
  ASSUME NEW e \in CallElement, Len(e.flows) <= MaxIpPerCall,
         NEW m \in Sip
  PROVE  LET s == Signalled(e, m)
         IN  /\ s \in CallElement
             /\ Len(s.flows) <= MaxIpPerCall
             /\ s.is_used = e.is_used
             /\ s.call_id = e.call_id
             /\ s.f_pcap = e.f_pcap
             /\ s.first_packet_time = e.first_packet_time
             /\ s.last_packet_time = e.last_packet_time
<1> DEFINE Same(s) == /\ s \in CallElement
                      /\ Len(s.flows) <= MaxIpPerCall
                      /\ s.is_used = e.is_used
                      /\ s.call_id = e.call_id
                      /\ s.f_pcap = e.f_pcap
                      /\ s.first_packet_time = e.first_packet_time
                      /\ s.last_packet_time = e.last_packet_time
<1> DEFINE b == [e EXCEPT !.had_bye = @ \/ m.method = "BYE"]
<1>1. Same(b)
  BY DEF CallElement
<1>2. ASSUME NEW at \in MediaAddrs PROVE Same(AddIpPort(b, at))
  <2>1. CASE Len(b.flows) >= MaxIpPerCall \/ Tracks(b, at)
    BY <1>1, <2>1 DEF AddIpPort
  <2>2. CASE ~(Len(b.flows) >= MaxIpPerCall \/ Tracks(b, at))
    <3> DEFINE fl == Append(b.flows, [at |-> at, ssrc |-> 0])
    <3>1. b.flows \in Seq(Flow) /\ [at |-> at, ssrc |-> 0] \in Flow
      BY <1>1 DEF CallElement, Flow
    <3>2. fl \in Seq(Flow) /\ Len(fl) = Len(b.flows) + 1
      BY <3>1
    <3>3. Len(fl) <= MaxIpPerCall
      BY <3>1, <3>2, <2>2, LimitsAssumption
    <3>4. AddIpPort(b, at) = [b EXCEPT !.flows = fl]
      BY <2>2 DEF AddIpPort
    <3> HIDE DEF fl
    <3>5. QED
      BY <3>2, <3>3, <3>4, <1>1 DEF CallElement
  <2>3. QED
    BY <2>1, <2>2
<1>3. ASSUME NEW sdp \in Sdp PROVE Same(ParseSdp(b, sdp))
  <2> DEFINE f == IF sdp.at = NULL THEN b ELSE AddIpPort(b, sdp.at)
  <2>1. Same(f)
    BY <1>1, <1>2 DEF Sdp
  <2>2. sdp.event \in Int /\ sdp.t38 \in BOOLEAN
    BY DEF Sdp
  <2> HIDE DEF f
  <2>3. Same([f EXCEPT !.rtpmap_event = IF sdp.event # 0 THEN sdp.event ELSE @,
                       !.had_t38      = @ \/ (T38Only /\ sdp.t38)])
    BY <2>1, <2>2, OptionsAssumption DEF CallElement
  <2>4. QED
    BY <2>3, <1>1 DEF ParseSdp, f
<1>4. m.sdp \in Sdp \cup {NULL}
  BY DEF Sip
<1> HIDE DEF b
<1>5. Same(Signalled(e, m))
  BY <1>1, <1>3, <1>4 DEF Signalled, b
<1>6. QED
  BY <1>5

(* The entries a clean-up leaves are those that have not run out.           *)
LEMMA CleanupKeeps ==
  ASSUME NEW t \in Seq(CallElement), NEW c \in Int, NEW i \in DOMAIN t
  PROVE  /\ Expired(t[i], c) => Cleanup(t, c)[i] = Blank
         /\ ~Expired(t[i], c) => Cleanup(t, c)[i] = t[i]
BY DEF Cleanup

-----------------------------------------------------------------------------
(* The inductive invariant.  TypeOK alone is not inductive: a message is    *)
(* filed through the f_pcap of a slot, which must be an open dumper for the *)
(* file's record to be updated, and a dumper is only known to be open from  *)
(* DumperOwnership; that in turn needs each Call-ID to have one slot, and   *)
(* free slots to be blank.                                                  *)
FilesInv ==
  /\ TypeOK
  /\ CallsAreUnique
  /\ FreeSlotsAreBlank
  /\ DumperOwnership

LEMMA InitFiles == Init => FilesInv
<1> SUFFICES ASSUME Init PROVE FilesInv
  OBVIOUS
<1>1. table = << >> /\ DOMAIN table = {} /\ Used = {}
  BY DEF Init, Used
<1>2. TypeOK
  BY <1>1, OptionsAssumption DEF Init, TypeOK
<1>3. CallsAreUnique /\ FreeSlotsAreBlank
  BY <1>1 DEF CallsAreUnique, FreeSlotsAreBlank
<1>4. DumperOwnership
  BY <1>1 DEF Init, DumperOwnership
<1>5. QED
  BY <1>2, <1>3, <1>4 DEF FilesInv

(* A slot with a dumper is in use, and its dumper is open for its call.     *)
LEMMA SlotOfFile ==
  ASSUME FilesInv, NEW i \in DOMAIN table, table[i].f_pcap # NULL
  PROVE  /\ i \in Used
         /\ table[i].f_pcap \in Handles
         /\ dumpers[table[i].f_pcap] \in File
         /\ table[i].call_id \in Keys
         /\ dumpers[table[i].f_pcap].call = table[i].call_id
<1>1. table[i] \in CallElement
  BY DEF FilesInv, TypeOK
<1>2. i \in Used
  BY DEF FilesInv, FreeSlotsAreBlank, Used, Blank
<1>3. table[i].f_pcap \in Handles
  BY <1>1 DEF CallElement
<1>4. dumpers[table[i].f_pcap] # NULL /\ dumpers[table[i].f_pcap].call = table[i].call_id
  BY <1>2 DEF FilesInv, DumperOwnership
<1>5. dumpers[table[i].f_pcap] \in File
  BY <1>3, <1>4 DEF FilesInv, TypeOK
<1>6. QED
  BY <1>2, <1>3, <1>4, <1>5 DEF File

(* The live slots do_cleanup leaves are those that have not run out, as     *)
(* they were.                                                               *)
LEMMA CleanupUsed ==
  ASSUME TypeOK, NEW c \in Int, DoCleanup(c)
  PROVE  /\ Used' \subseteq Used
         /\ \A i \in Used' : ~Expired(table[i], c) /\ table'[i] = table[i]
         /\ \A i \in Used : ~Expired(table[i], c) => i \in Used'
<1>1. table' = Cleanup(table, c) /\ table \in Seq(CallElement)
  BY DEF DoCleanup, TypeOK
<1>2. DOMAIN table' = DOMAIN table
  BY <1>1, CleanupType
<1>3. \A i \in DOMAIN table :
        /\ Expired(table[i], c) => table'[i] = Blank
        /\ ~Expired(table[i], c) => table'[i] = table[i]
  BY <1>1, CleanupKeeps
<1>4. QED
  BY <1>2, <1>3 DEF Used, Blank

(* do_cleanup preserves everything but the time of the clean-up.            *)
LEMMA CleanupFiles ==
  ASSUME FilesInv, NEW c \in Int, DoCleanup(c)
  PROVE  /\ table' \in Seq(CallElement)
         /\ \A i \in DOMAIN table' : Len(table'[i].flows) <= MaxIpPerCall
         /\ dumpers' \in [Handles -> File \cup {NULL}]
         /\ out' \subseteq Effectful
         /\ frag_owner' \in [Tuples -> Keys \cup {NULL}]
         /\ CallsAreUnique'
         /\ FreeSlotsAreBlank'
         /\ DumperOwnership'
<1> USE DEF FilesInv
<1> DEFINE ending == Ending(table, c)
<1>1. /\ table' = Cleanup(table, c)
      /\ dumpers' = [h \in Handles |->
                       IF \E e \in ending : e.f_pcap = h THEN NULL ELSE dumpers[h]]
      /\ out' = {Effect(HowItEnds(e), e.call_id, e.f_pcap) : e \in ending}
      /\ frag_owner' = [f \in Tuples |->
                          IF \E e \in ending : e.call_id = frag_owner[f]
                          THEN NULL ELSE frag_owner[f]]
  BY DEF DoCleanup
<1>2. table \in Seq(CallElement)
  BY DEF TypeOK
<1>3. table' \in Seq(CallElement) /\ DOMAIN table' = DOMAIN table
  BY <1>1, <1>2, CleanupType
<1>4. \A i \in DOMAIN table :
        /\ Expired(table[i], c) => table'[i] = Blank
        /\ ~Expired(table[i], c) => table'[i] = table[i]
  BY <1>1, <1>2, CleanupKeeps
<1>5. \A i \in DOMAIN table' : Len(table'[i].flows) <= MaxIpPerCall
  BY <1>3, <1>4, LimitsAssumption DEF TypeOK, Blank
<1>6. dumpers' \in [Handles -> File \cup {NULL}]
  BY <1>1 DEF TypeOK
<1>7. out' \subseteq Effectful
  <2> SUFFICES ASSUME NEW e \in ending
               PROVE  Effect(HowItEnds(e), e.call_id, e.f_pcap) \in Effectful
    BY <1>1
  <2>1. PICK i \in DOMAIN table : e = table[i] /\ e.f_pcap # NULL
    BY DEF Ending
  <2>2. e.call_id \in Keys /\ e.f_pcap \in Handles
    BY <2>1, SlotOfFile
  <2>3. HowItEnds(e) \in Effects
    BY DEF HowItEnds, Effects
  <2>4. QED
    BY <2>2, <2>3 DEF Effect, Effectful
<1>8. frag_owner' \in [Tuples -> Keys \cup {NULL}]
  BY <1>1 DEF TypeOK
<1>9. /\ Used' \subseteq Used
      /\ \A i \in Used' : ~Expired(table[i], c) /\ table'[i] = table[i]
      /\ \A i \in Used : ~Expired(table[i], c) => i \in Used'
  BY CleanupUsed
<1>10. CallsAreUnique'
  BY <1>9 DEF CallsAreUnique
<1>11. FreeSlotsAreBlank'
  BY <1>3, <1>4 DEF FreeSlotsAreBlank, Used
<1>12. DumperOwnership'
  <2>1. ASSUME NEW i \in Used', table'[i].f_pcap # NULL
        PROVE  /\ dumpers'[table'[i].f_pcap] # NULL
               /\ dumpers'[table'[i].f_pcap].call = table'[i].call_id
    <3> DEFINE h == table[i].f_pcap
    <3>1. i \in Used /\ table'[i] = table[i] /\ ~Expired(table[i], c)
      BY <1>9
    <3>2. h \in Handles /\ dumpers[h] \in File /\ dumpers[h].call = table[i].call_id
      BY <2>1, <3>1, SlotOfFile DEF Used
    <3>3. \A e \in ending : e.f_pcap # h
      <4> SUFFICES ASSUME NEW e \in ending, e.f_pcap = h PROVE FALSE
        OBVIOUS
      <4>1. PICK j \in DOMAIN table : e = table[j] /\ Expired(table[j], c)
        BY DEF Ending
      <4>2. j \in Used
        BY <4>1 DEF Used, Expired
      <4>3. i = j
        BY <3>1, <2>1, <4>1, <4>2 DEF DumperOwnership
      <4>4. QED
        BY <3>1, <4>1, <4>3
    <3>4. dumpers'[h] = dumpers[h]
      BY <1>1, <3>2, <3>3
    <3>5. dumpers[h] # NULL
      BY <2>1, <3>1 DEF DumperOwnership
    <3>6. QED
      BY <3>1, <3>2, <3>4, <3>5
  <2>2. ASSUME NEW h \in Handles, dumpers'[h] # NULL
        PROVE  \E i \in Used' : table'[i].f_pcap = h
    <3>1. dumpers[h] # NULL /\ \A e \in ending : e.f_pcap # h
      BY <1>1, <2>2
    <3>2. PICK i \in Used : table[i].f_pcap = h
      BY <3>1 DEF DumperOwnership
    <3>3. h # NULL
      BY NullAssumption
    <3>4. ~Expired(table[i], c)
      BY <3>1, <3>2, <3>3 DEF Ending, Used
    <3>5. i \in Used' /\ table'[i] = table[i]
      BY <1>9, <3>4
    <3>6. QED
      BY <3>2, <3>5
  <2>3. \A i, j \in Used' :
          table'[i].f_pcap = table'[j].f_pcap /\ table'[i].f_pcap # NULL => i = j
    BY <1>9 DEF DumperOwnership
  <2>4. QED
    BY <2>1, <2>2, <2>3 DEF DumperOwnership
<1>13. QED
  BY <1>3, <1>5, <1>6, <1>7, <1>8, <1>10, <1>11, <1>12

(* The packet in hand has the type of its set.                              *)
LEMMA SipInHand ==
  ASSUME TypeOK, IsSip
  PROVE  /\ pkt.sip \in Sip
         /\ pkt.sip.callid \in CallIds
         /\ Key(pkt.sip.callid) \in Keys
         /\ pkt.sip.frag \in Tuples \cup {NULL}
<1>1. pkt \in Datagram /\ pkt.sip # NULL /\ pkt.sip.callid # NULL
  BY PacketsAssumption DEF IsSip, IsOther
<1>2. pkt.sip \in Sip
  BY <1>1 DEF Datagram
<1>3. pkt.sip.callid \in CallIds /\ pkt.sip.frag \in Tuples \cup {NULL}
  BY <1>1, <1>2 DEF Sip
<1>4. QED
  BY <1>2, <1>3 DEF Keys

(* A message filed with slot i, known or new: the slot keeps its call, its  *)
(* file and its times, the other slots and dumpers are as they were, and    *)
(* every variable keeps its type.                                           *)
LEMMA FileMessageStep ==
  ASSUME TypeOK, IsSip,
         NEW i \in 1 .. Len(table) + 1,
         NEW e \in CallElement, Len(e.flows) <= MaxIpPerCall,
         NEW ds \in [Handles -> File \cup {NULL}],
         e.f_pcap # NULL => ds[e.f_pcap] # NULL,
         NEW effects \in SUBSET Effectful,
         FileMessage(i, e, ds, effects)
  PROVE  /\ table' \in Seq(CallElement)
         /\ DOMAIN table' = DOMAIN table \cup {i}
         /\ \A j \in DOMAIN table \ {i} : table'[j] = table[j]
         /\ table'[i].is_used = e.is_used
         /\ table'[i].call_id = e.call_id
         /\ table'[i].f_pcap = e.f_pcap
         /\ table'[i].first_packet_time = e.first_packet_time
         /\ table'[i].last_packet_time = e.last_packet_time
         /\ \A j \in DOMAIN table' : Len(table'[j].flows) <= MaxIpPerCall
         /\ dumpers' \in [Handles -> File \cup {NULL}]
         /\ \A h \in Handles : /\ dumpers'[h] = NULL <=> ds[h] = NULL
                               /\ ds[h] # NULL => dumpers'[h].call = ds[h].call
         /\ DOMAIN ipfrags' \subseteq Tuples
         /\ \A f \in DOMAIN ipfrags' : ipfrags'[f] \in Handles \cup {NULL}
         /\ out' \subseteq Effectful
         /\ frag_owner' \in [Tuples -> Keys \cup {NULL}]
<1> DEFINE m == pkt.sip
           h == e.f_pcap
           key == Key(m.callid)
<1>1. m \in Sip /\ key \in Keys /\ m.frag \in Tuples \cup {NULL}
  BY SipInHand
<1>2. h \in Handles \cup {NULL}
  BY DEF CallElement
<1>3. table \in Seq(CallElement)
  BY DEF TypeOK
<1>4. /\ Signalled(e, m) \in CallElement
      /\ Len(Signalled(e, m).flows) <= MaxIpPerCall
      /\ Signalled(e, m).is_used = e.is_used
      /\ Signalled(e, m).call_id = e.call_id
      /\ Signalled(e, m).f_pcap = e.f_pcap
      /\ Signalled(e, m).first_packet_time = e.first_packet_time
      /\ Signalled(e, m).last_packet_time = e.last_packet_time
  BY <1>1, SignalledType
<1>5. table' = Put(table, i, Signalled(e, m))
  BY DEF FileMessage
<1>6. /\ table' \in Seq(CallElement)
      /\ DOMAIN table' = DOMAIN table \cup {i}
      /\ \A j \in DOMAIN table \cup {i} :
           table'[j] = IF j = i THEN Signalled(e, m) ELSE table[j]
  <2> DEFINE s == Signalled(e, m)
  <2>1. s \in CallElement
    BY <1>4
  <2> HIDE DEF s
  <2>2. Put(table, i, s) \in Seq(CallElement)
    BY <1>3, <2>1, PutType
  <2>3. table' = Put(table, i, s)
    BY <1>5 DEF s
  <2>4. QED
    BY <2>2, <2>3 DEF s, Put
<1>7. \A j \in DOMAIN table' : Len(table'[j].flows) <= MaxIpPerCall
  BY <1>4, <1>6 DEF TypeOK
<1>8. /\ dumpers' \in [Handles -> File \cup {NULL}]
      /\ \A g \in Handles : /\ dumpers'[g] = NULL <=> ds[g] = NULL
                            /\ ds[g] # NULL => dumpers'[g].call = ds[g].call
  <2>1. CASE h # NULL /\ CarriesT38(m)
    <3>1. h \in Handles /\ ds[h] \in File
      BY <1>2, <2>1
    <3>2. dumpers' = [ds EXCEPT ![h].t38 = TRUE]
      BY <2>1 DEF FileMessage
    <3>3. dumpers'[h] = [ds[h] EXCEPT !.t38 = TRUE]
      BY <3>1, <3>2
    <3>4. [ds[h] EXCEPT !.t38 = TRUE] \in File /\ [ds[h] EXCEPT !.t38 = TRUE].call = ds[h].call
      BY <3>1 DEF File
    <3>5. NULL \notin File
      BY PacketsAssumption
    <3>6. \A g \in Handles \ {h} : dumpers'[g] = ds[g]
      BY <3>2
    <3>7. dumpers' \in [Handles -> File \cup {NULL}]
      BY <3>1, <3>2, <3>3, <3>4, <3>6
    <3>8. QED
      BY <3>1, <3>3, <3>4, <3>5, <3>6, <3>7
  <2>2. CASE ~(h # NULL /\ CarriesT38(m))
    <3>1. dumpers' = ds
      BY <2>2 DEF FileMessage
    <3>2. QED
      BY <3>1
  <2>3. QED
    BY <2>1, <2>2
<1>9. out' \subseteq Effectful
  <2>1. h # NULL => Effect("sip", key, h) \in Effectful
    BY <1>1, <1>2 DEF Effect, Effectful, Effects
  <2>2. QED
    BY <2>1 DEF FileMessage
<1>10. /\ DOMAIN ipfrags' \subseteq Tuples
       /\ \A f \in DOMAIN ipfrags' : ipfrags'[f] \in Handles \cup {NULL}
       /\ frag_owner' \in [Tuples -> Keys \cup {NULL}]
  <2>1. CASE m.frag = NULL
    BY <2>1 DEF FileMessage, TypeOK
  <2>2. CASE m.frag # NULL
    <3>1. /\ ipfrags' = AddIpFrag(ipfrags, m.frag, h)
          /\ frag_owner' = [frag_owner EXCEPT ![m.frag] = IF h # NULL THEN key ELSE NULL]
      BY <2>2 DEF FileMessage
    <3>2. QED
      BY <3>1, <1>1, <1>2, <2>2 DEF AddIpFrag, TypeOK
  <2>3. QED
    BY <2>1, <2>2
<1>11. QED
  BY <1>4, <1>6, <1>7, <1>8, <1>9, <1>10

(* The part of FilesInv that is about the table, the dumpers and what is    *)
(* done to them: what a step that files a packet has to establish.          *)
TableInv ==
  /\ table \in Seq(CallElement)
  /\ \A i \in DOMAIN table : Len(table[i].flows) <= MaxIpPerCall
  /\ dumpers \in [Handles -> File \cup {NULL}]
  /\ DOMAIN ipfrags \subseteq Tuples
  /\ \A f \in DOMAIN ipfrags : ipfrags[f] \in Handles \cup {NULL}
  /\ out \subseteq Effectful
  /\ frag_owner \in [Tuples -> Keys \cup {NULL}]
  /\ CallsAreUnique
  /\ FreeSlotsAreBlank
  /\ DumperOwnership

(* How a packet changes the live slots: not at all but for flows, flags and *)
(* the time of the last media, or by one more, made for the packet's call.  *)
SlotsKept ==
  /\ Used' = Used
  /\ \A j \in Used : /\ table'[j].call_id = table[j].call_id
                     /\ table'[j].f_pcap = table[j].f_pcap
                     /\ table'[j].first_packet_time = table[j].first_packet_time
                     /\ table'[j].last_packet_time \in {table[j].last_packet_time, now}

SlotAdded(f) ==
  \E i : /\ i \notin Used
         /\ Used' = Used \cup {i}
         /\ \A j \in Used : table'[j] = table[j]
         /\ table'[i].call_id = Key(pkt.sip.callid)
         /\ table'[i].f_pcap = f
         /\ table'[i].first_packet_time = now
         /\ table'[i].last_packet_time = now

(* A message of a call that has a slot.                                     *)
LEMMA KnownCallFiles == FilesInv /\ SipOfKnownCall => TableInv' /\ SlotsKept
<1> SUFFICES ASSUME FilesInv, SipOfKnownCall PROVE TableInv' /\ SlotsKept
  OBVIOUS
<1> USE DEF FilesInv
<1>1. IsSip
  BY DEF SipOfKnownCall
<1>2. PICK i \in DOMAIN table : /\ FindByCallId(table, pkt.sip.callid, i)
                                /\ FileMessage(i, table[i], dumpers, {})
  BY DEF SipOfKnownCall
<1>3. i \in Used /\ i \in 1 .. Len(table) + 1
  BY <1>2 DEF FindByCallId, Holds, Used, TypeOK
<1>4. table[i] \in CallElement /\ Len(table[i].flows) <= MaxIpPerCall
  BY DEF TypeOK
<1>5. table[i].f_pcap # NULL => dumpers[table[i].f_pcap] # NULL
  BY <1>3 DEF DumperOwnership
<1>6. dumpers \in [Handles -> File \cup {NULL}] /\ {} \in SUBSET Effectful
  BY DEF TypeOK
<1>7. /\ table' \in Seq(CallElement)
      /\ DOMAIN table' = DOMAIN table \cup {i}
      /\ \A j \in DOMAIN table \ {i} : table'[j] = table[j]
      /\ table'[i].is_used = table[i].is_used
      /\ table'[i].call_id = table[i].call_id
      /\ table'[i].f_pcap = table[i].f_pcap
      /\ table'[i].first_packet_time = table[i].first_packet_time
      /\ table'[i].last_packet_time = table[i].last_packet_time
      /\ \A j \in DOMAIN table' : Len(table'[j].flows) <= MaxIpPerCall
      /\ dumpers' \in [Handles -> File \cup {NULL}]
      /\ \A h \in Handles : /\ dumpers'[h] = NULL <=> dumpers[h] = NULL
                            /\ dumpers[h] # NULL => dumpers'[h].call = dumpers[h].call
      /\ DOMAIN ipfrags' \subseteq Tuples
      /\ \A f \in DOMAIN ipfrags' : ipfrags'[f] \in Handles \cup {NULL}
      /\ out' \subseteq Effectful
      /\ frag_owner' \in [Tuples -> Keys \cup {NULL}]
  BY <1>1, <1>2, <1>3, <1>4, <1>5, <1>6, FileMessageStep
<1>8. SlotsKept
  BY <1>3, <1>7 DEF Used, SlotsKept
<1>9. CallsAreUnique'
  BY <1>8 DEF CallsAreUnique, SlotsKept
<1>10. FreeSlotsAreBlank'
  BY <1>3, <1>7, <1>8 DEF FreeSlotsAreBlank, SlotsKept
<1>11. DumperOwnership'
  <2>1. \A j \in Used : table[j].f_pcap # NULL => table[j].f_pcap \in Handles
    BY SlotOfFile DEF Used
  <2>2. QED
    BY <1>7, <1>8, <2>1 DEF DumperOwnership, SlotsKept
<1>12. QED
  BY <1>7, <1>8, <1>9, <1>10, <1>11 DEF TableInv

(* add's element has the type of a slot.                                    *)
LEMMA NewElementType ==
  ASSUME TypeOK, NEW id \in CallIds, NEW f \in Handles \cup {NULL}
  PROVE  /\ NewElement(id, now, f) \in CallElement
         /\ Len(NewElement(id, now, f).flows) <= MaxIpPerCall
         /\ NewElement(id, now, f).call_id = Key(id)
         /\ NewElement(id, now, f).f_pcap = f
         /\ NewElement(id, now, f).last_packet_time = now
         /\ NewElement(id, now, f).first_packet_time = now
         /\ NewElement(id, now, f).is_used
         /\ ~NewElement(id, now, f).had_t38
<1> DEFINE key == Key(id)
           e   == NewElement(id, now, f)
<1>1. e = [is_used           |-> TRUE,
           had_bye           |-> FALSE,
           had_t38           |-> FALSE,
           rtpmap_event      |-> 101,
           call_id           |-> key,
           flows             |-> << >>,
           first_packet_time |-> now,
           last_packet_time  |-> now,
           f_pcap            |-> f]
  BY DEF NewElement
<1>2. now \in Int /\ << >> \in Seq(Flow) /\ Len(<< >>) = 0
  BY DEF TypeOK
<1>3. key \in Keys
  BY DEF Keys
<1> HIDE DEF e, key
<1>4. e \in CallElement
  BY <1>1, <1>2, <1>3 DEF CallElement
<1>5. Len(e.flows) <= MaxIpPerCall
  BY <1>1, <1>2, LimitsAssumption
<1>6. QED
  BY <1>1, <1>4, <1>5 DEF e, key

(* The first message of a call, recorded in f or not at all.                *)
LEMMA NewCallFiles ==
  ASSUME FilesInv, IsNewCall,
         NEW f \in Handles \cup {NULL},
         NEW ds \in [Handles -> File \cup {NULL}],
         f # NULL => /\ dumpers[f] = NULL
                     /\ ds[f] # NULL
                     /\ ds[f].call = Key(pkt.sip.callid),
         \A h \in Handles : h # f => ds[h] = dumpers[h],
         NEW effects \in SUBSET Effectful,
         AddCall(f, ds, effects)
  PROVE  TableInv' /\ SlotAdded(f)
<1> USE DEF FilesInv
<1> DEFINE key == Key(pkt.sip.callid)
           e == NewElement(pkt.sip.callid, now, f)
<1>1. IsSip /\ key \in Keys /\ key # NULL
  BY SipInHand, PacketsAssumption DEF IsNewCall
<1>2. effects \cup {OpenTrigger} \in SUBSET Effectful
  <2>1. OpenTrigger \in Effectful
    BY <1>1 DEF OpenTrigger, Effect, Effectful, Effects
  <2>2. QED
    BY <2>1
<1>3. PICK i \in 1 .. Len(table) + 1 :
        /\ SlotForAdd(table, i)
        /\ FileMessage(i, e, ds, effects \cup {OpenTrigger})
  BY DEF AddCall
<1>4. /\ e \in CallElement
      /\ Len(e.flows) <= MaxIpPerCall
      /\ e.is_used
      /\ e.call_id = key
      /\ e.f_pcap = f
      /\ e.first_packet_time = now
      /\ e.last_packet_time = now
  BY <1>1, SipInHand, NewElementType
<1> HIDE DEF e
<1>5. /\ table' \in Seq(CallElement)
      /\ DOMAIN table' = DOMAIN table \cup {i}
      /\ \A j \in DOMAIN table \ {i} : table'[j] = table[j]
      /\ table'[i].is_used
      /\ table'[i].call_id = key
      /\ table'[i].f_pcap = f
      /\ table'[i].first_packet_time = now
      /\ table'[i].last_packet_time = now
      /\ \A j \in DOMAIN table' : Len(table'[j].flows) <= MaxIpPerCall
      /\ dumpers' \in [Handles -> File \cup {NULL}]
      /\ \A h \in Handles : /\ dumpers'[h] = NULL <=> ds[h] = NULL
                            /\ ds[h] # NULL => dumpers'[h].call = ds[h].call
      /\ DOMAIN ipfrags' \subseteq Tuples
      /\ \A g \in DOMAIN ipfrags' : ipfrags'[g] \in Handles \cup {NULL}
      /\ out' \subseteq Effectful
      /\ frag_owner' \in [Tuples -> Keys \cup {NULL}]
  <2>1. TypeOK /\ effects \cup {OpenTrigger} \in SUBSET Effectful
    BY <1>1, <1>2
  <2>2. IsSip /\ (e.f_pcap # NULL => ds[e.f_pcap] # NULL)
    BY <1>1, <1>2, <1>4
  <2>3. FileMessage(i, e, ds, effects \cup {OpenTrigger})
    BY <1>3
  <2> HIDE DEF FilesInv, key
  <2>4. /\ table' \in Seq(CallElement)
        /\ DOMAIN table' = DOMAIN table \cup {i}
        /\ \A j \in DOMAIN table \ {i} : table'[j] = table[j]
        /\ table'[i].is_used = e.is_used
        /\ table'[i].call_id = e.call_id
        /\ table'[i].f_pcap = e.f_pcap
        /\ table'[i].first_packet_time = e.first_packet_time
        /\ table'[i].last_packet_time = e.last_packet_time
        /\ \A j \in DOMAIN table' : Len(table'[j].flows) <= MaxIpPerCall
        /\ dumpers' \in [Handles -> File \cup {NULL}]
        /\ \A h \in Handles : /\ dumpers'[h] = NULL <=> ds[h] = NULL
                              /\ ds[h] # NULL => dumpers'[h].call = ds[h].call
        /\ DOMAIN ipfrags' \subseteq Tuples
        /\ \A g \in DOMAIN ipfrags' : ipfrags'[g] \in Handles \cup {NULL}
        /\ out' \subseteq Effectful
        /\ frag_owner' \in [Tuples -> Keys \cup {NULL}]
    BY <1>4, <2>1, <2>2, <2>3, FileMessageStep, Zenon
  <2>5. QED
    BY <1>4, <2>4
<1>6. i \notin Used
  BY <1>3 DEF SlotForAdd, Used
<1>7. /\ Used' = Used \cup {i}
      /\ \A j \in Used : table'[j] = table[j]
  BY <1>5, <1>6 DEF Used
<1>8. \A j \in Used : table[j].call_id # key
  BY DEF IsNewCall, UnknownCallId, Holds, Used
<1>9. CallsAreUnique'
  BY <1>5, <1>7, <1>8 DEF CallsAreUnique
<1>10. FreeSlotsAreBlank'
  BY <1>5, <1>7 DEF FreeSlotsAreBlank
<1>11. DumperOwnership'
  <2>1. \A j \in Used : table[j].f_pcap # NULL =>
          table[j].f_pcap \in Handles /\ table[j].f_pcap # f
    BY SlotOfFile DEF Used, DumperOwnership
  <2>2. \A j \in Used' : table'[j].f_pcap # NULL =>
          /\ dumpers'[table'[j].f_pcap] # NULL
          /\ dumpers'[table'[j].f_pcap].call = table'[j].call_id
    BY <1>5, <1>7, <2>1 DEF DumperOwnership
  <2>3. ASSUME NEW h \in Handles, dumpers'[h] # NULL
        PROVE  \E j \in Used' : table'[j].f_pcap = h
    <3>1. CASE h = f
      BY <3>1, <1>5, <1>7
    <3>2. CASE h # f
      <4>1. dumpers[h] # NULL
        BY <3>2, <2>3, <1>5
      <4>2. PICK j \in Used : table[j].f_pcap = h
        BY <4>1 DEF DumperOwnership
      <4>3. QED
        BY <4>2, <1>7
    <3>3. QED
      BY <3>1, <3>2
  <2>4. \A j, k \in Used' :
          table'[j].f_pcap = table'[k].f_pcap /\ table'[j].f_pcap # NULL => j = k
    BY <1>5, <1>7, <2>1 DEF DumperOwnership
  <2>5. QED
    BY <2>2, <2>3, <2>4 DEF DumperOwnership
<1>12. SlotAdded(f)
  BY <1>5, <1>6, <1>7 DEF SlotAdded
<1>13. QED
  BY <1>5, <1>9, <1>10, <1>11, <1>12 DEF TableInv

(* A flow takes a new SSRC.                                                 *)
LEMMA FlowsUpdate ==
  ASSUME NEW fl \in Seq(Flow), NEW k \in DOMAIN fl, NEW n \in Nat
  PROVE  /\ [fl EXCEPT ![k].ssrc = n] \in Seq(Flow)
         /\ Len([fl EXCEPT ![k].ssrc = n]) = Len(fl)
<1>1. [fl[k] EXCEPT !.ssrc = n] \in Flow
  <2>1. \A f \in Flow : [f EXCEPT !.ssrc = n] \in Flow
    BY DEF Flow
  <2>2. fl[k] \in Flow
    OBVIOUS
  <2>3. QED
    BY <2>1, <2>2
<1>2. [fl EXCEPT ![k].ssrc = n] = [fl EXCEPT ![k] = [fl[k] EXCEPT !.ssrc = n]]
  OBVIOUS
<1>3. QED
  BY <1>1, <1>2

(* Media leaves the slot it is found in with its call and its file.         *)
LEMMA HeardFromType ==
  ASSUME TypeOK, pkt \in Datagrams,
         NEW e \in CallElement, NEW k \in DOMAIN e.flows
  PROVE  /\ HeardFrom(e, k) \in CallElement
         /\ Len(HeardFrom(e, k).flows) = Len(e.flows)
         /\ HeardFrom(e, k).is_used = e.is_used
         /\ HeardFrom(e, k).call_id = e.call_id
         /\ HeardFrom(e, k).f_pcap = e.f_pcap
         /\ HeardFrom(e, k).first_packet_time = e.first_packet_time
         /\ HeardFrom(e, k).last_packet_time = IF Saves(e) THEN now ELSE e.last_packet_time
<1> DEFINE fl == [e.flows EXCEPT ![k].ssrc = pkt.ssrc]
           t  == IF Saves(e) THEN now ELSE e.last_packet_time
<1>1. e.flows \in Seq(Flow) /\ e.last_packet_time \in Int
  BY DEF CallElement
<1>2. pkt.ssrc \in Nat
  BY PacketsAssumption DEF Datagram
<1>3. fl \in Seq(Flow) /\ Len(fl) = Len(e.flows)
  BY <1>1, <1>2, FlowsUpdate
<1>4. t \in Int
  BY <1>1 DEF TypeOK
<1>5. HeardFrom(e, k) = [e EXCEPT !.flows = fl, !.last_packet_time = t]
  BY DEF HeardFrom, CallElement
<1> HIDE DEF fl
<1> HIDE DEF t
<1>6. QED
  BY <1>3, <1>4, <1>5 DEF CallElement, t

LEMMA MediaFiles ==
  ASSUME FilesInv, pkt \in Datagrams, NEW at, Media(at),
         UNCHANGED <<ipfrags, dumpers, frag_owner>>
  PROVE  TableInv' /\ SlotsKept
<1> USE DEF FilesInv
<1>1. PICK i \in DOMAIN table : \E k \in DOMAIN table[i].flows :
        /\ table' = Put(table, i, HeardFrom(table[i], k))
        /\ out' = IF Saves(table[i]) THEN {Effect("rtp", table[i].call_id, table[i].f_pcap)}
                                     ELSE {}
  BY DEF Media
<1>2. PICK k \in DOMAIN table[i].flows :
        /\ table' = Put(table, i, HeardFrom(table[i], k))
        /\ out' = IF Saves(table[i]) THEN {Effect("rtp", table[i].call_id, table[i].f_pcap)}
                                     ELSE {}
  BY <1>1
<1>3. Saves(table[i]) => table[i].f_pcap # NULL
  BY DEF Saves
<1> DEFINE s == HeardFrom(table[i], k)
<1>4. table \in Seq(CallElement) /\ table[i] \in CallElement /\ i \in 1 .. Len(table) + 1
  BY DEF TypeOK
<1>5. /\ s \in CallElement
      /\ Len(s.flows) = Len(table[i].flows)
      /\ s.is_used = table[i].is_used
      /\ s.call_id = table[i].call_id
      /\ s.f_pcap = table[i].f_pcap
      /\ s.first_packet_time = table[i].first_packet_time
      /\ s.last_packet_time \in {table[i].last_packet_time, now}
  BY <1>4, HeardFromType
<1> HIDE DEF s
<1>6. table' \in Seq(CallElement)
  BY <1>2, <1>4, <1>5, PutType DEF s
<1>7. /\ DOMAIN table' = DOMAIN table
      /\ \A j \in DOMAIN table : table'[j] = IF j = i THEN s ELSE table[j]
  BY <1>2 DEF Put, s
<1>8. \A j \in DOMAIN table' : Len(table'[j].flows) <= MaxIpPerCall
  BY <1>5, <1>7 DEF TypeOK
<1>9. out' \subseteq Effectful
  <2>1. Saves(table[i]) => table[i].call_id \in Keys /\ table[i].f_pcap \in Handles
    BY <1>3, SlotOfFile
  <2>2. Saves(table[i]) => Effect("rtp", table[i].call_id, table[i].f_pcap) \in Effectful
    BY <2>1 DEF Effect, Effectful, Effects
  <2>3. QED
    BY <1>2, <2>2
<1>10. SlotsKept
  BY <1>5, <1>7 DEF Used, SlotsKept
<1>11. CallsAreUnique'
  BY <1>10 DEF CallsAreUnique, SlotsKept
<1>12. i \in Used
  <2>1. table[i].flows # << >>
    OBVIOUS
  <2>2. QED
    BY <2>1 DEF FreeSlotsAreBlank, Used, Blank
<1>13. FreeSlotsAreBlank'
  BY <1>7, <1>10, <1>12 DEF FreeSlotsAreBlank, SlotsKept
<1>14. DumperOwnership'
  BY <1>10 DEF DumperOwnership, SlotsKept
<1>15. QED
  BY <1>6, <1>8, <1>9, <1>10, <1>11, <1>13, <1>14 DEF TableInv, TypeOK

(* A later fragment touches neither the table nor the dumpers.              *)
LEMMA FragmentFiles ==
  FilesInv /\ (FragmentOfNoFile \/ FragmentDumped \/ FragmentToClosedDumper) => TableInv'
<1> SUFFICES ASSUME FilesInv,
                    FragmentOfNoFile \/ FragmentDumped \/ FragmentToClosedDumper
             PROVE  TableInv'
  OBVIOUS
<1> USE DEF FilesInv
<1>1. pkt \in Fragments /\ pkt.id \in Tuples /\ table' = table /\ dumpers' = dumpers
  BY PacketsAssumption
     DEF FragmentOfNoFile, FragmentDumped, FragmentToClosedDumper, FragmentHasDumper,
         Fragment
<1>2. CallsAreUnique' /\ FreeSlotsAreBlank' /\ DumperOwnership'
  BY <1>1 DEF CallsAreUnique, FreeSlotsAreBlank, DumperOwnership, Used
<1>3. ASSUME ForgetIfLast
      PROVE  /\ DOMAIN ipfrags' \subseteq Tuples
             /\ \A f \in DOMAIN ipfrags' : ipfrags'[f] \in Handles \cup {NULL}
             /\ frag_owner' \in [Tuples -> Keys \cup {NULL}]
  BY <1>1, <1>3 DEF ForgetIfLast, DeleteIpFrag, TypeOK
<1>4. CASE FragmentOfNoFile
  <2>1. /\ DOMAIN ipfrags' \subseteq Tuples
        /\ \A f \in DOMAIN ipfrags' : ipfrags'[f] \in Handles \cup {NULL}
    BY <1>1, <1>4 DEF FragmentOfNoFile, GetIpFrag, AddIpFrag, TypeOK
  <2>2. QED
    BY <1>1, <1>2, <1>4, <2>1 DEF FragmentOfNoFile, TableInv, TypeOK
<1>5. CASE FragmentDumped
  <2> DEFINE h == ipfrags[pkt.id]
  <2>1. h \in Handles /\ dumpers[h] # NULL /\ dumpers[h] \in File
    BY <1>5 DEF FragmentDumped, FragmentHasDumper, TypeOK
  <2>2. Effect("fragment", dumpers[h].call, h) \in Effectful
    BY <2>1 DEF Effect, Effectful, Effects, File
  <2>3. out' \subseteq Effectful /\ ForgetIfLast
    BY <1>5, <2>2 DEF FragmentDumped
  <2>4. QED
    BY <1>1, <1>2, <1>3, <2>3 DEF TableInv, TypeOK
<1>6. CASE FragmentToClosedDumper
  <2>1. out' = {} /\ (ForgetIfLast \/ UNCHANGED <<ipfrags, frag_owner>>)
    BY <1>6 DEF FragmentToClosedDumper
  <2>2. QED
    BY <1>1, <1>2, <1>3, <2>1 DEF TableInv, TypeOK
<1>7. QED
  BY <1>4, <1>5, <1>6

(* The variables the table has no part in.                                  *)
LEMMA NextLoop ==
  TypeOK /\ [Next]_vars =>
    /\ last_cleanup' \in Nat
    /\ call_skip_cnt' \in 1 .. SkipN
    /\ now' \in Nat
    /\ pkt' \in Datagrams \cup Fragments \cup {NULL}
    /\ pc' \in {"next", "dispatch", "ended", "signalled", "crashed"}
<1> SUFFICES ASSUME TypeOK, [Next]_vars
             PROVE  /\ last_cleanup' \in Nat
                    /\ call_skip_cnt' \in 1 .. SkipN
                    /\ now' \in Nat
                    /\ pkt' \in Datagrams \cup Fragments \cup {NULL}
                    /\ pc' \in {"next", "dispatch", "ended", "signalled", "crashed"}
  OBVIOUS
<1> USE DEF TypeOK, loop
<1>1. ASSUME NEW ts \in Times, NEW p \in Datagrams \cup Fragments \cup {NULL}, Receive(ts, p)
      PROVE  /\ last_cleanup' \in Nat
             /\ call_skip_cnt' \in 1 .. SkipN
             /\ now' \in Nat
             /\ pkt' \in Datagrams \cup Fragments \cup {NULL}
             /\ pc' \in {"next", "dispatch", "ended", "signalled", "crashed"}
  BY <1>1, TimesAssumption DEF Receive
<1>2. CASE FragmentOfNoFile
  BY <1>2 DEF FragmentOfNoFile, Handled
<1>3. CASE FragmentDumped
  BY <1>3 DEF FragmentDumped, Handled
<1>4. CASE FragmentToClosedDumper
  BY <1>4 DEF FragmentToClosedDumper
<1>5. CASE MediaToDestination
  BY <1>5 DEF MediaToDestination, Handled
<1>6. CASE MediaFromSource
  BY <1>6 DEF MediaFromSource, Handled
<1>7. CASE SipOfKnownCall
  BY <1>7 DEF SipOfKnownCall, Handled
<1>8. CASE SipOfUnwantedMethod
  BY <1>8 DEF SipOfUnwantedMethod, Handled
<1>9. CASE SipOfSkippedCall
  BY <1>9, OptionsAssumption DEF SipOfSkippedCall, Handled, Skips
<1>10. CASE SipOfRecordedCall
  BY <1>10, OptionsAssumption DEF SipOfRecordedCall, Handled
<1>11. CASE SipOfCallNotOpened
  BY <1>11, OptionsAssumption DEF SipOfCallNotOpened, Handled
<1>12. CASE Ignored
  BY <1>12 DEF Ignored, Handled
<1>13. CASE EndOfCapture
  BY <1>13 DEF EndOfCapture
<1>14. CASE Signal
  BY <1>14 DEF Signal
<1>15. CASE UNCHANGED vars
  BY <1>15 DEF vars
<1>16. QED
  BY <1>1, <1>2, <1>3, <1>4, <1>5, <1>6, <1>7, <1>8, <1>9, <1>10, <1>11, <1>12,
     <1>13, <1>14, <1>15 DEF Next, Dispatch, Stopped

(* A clean-up re-establishes what is known of table and dumpers.            *)
LEMMA CleanupTable ==
  ASSUME FilesInv, NEW c \in Int, DoCleanup(c)
  PROVE  TableInv'
<1>1. /\ DOMAIN ipfrags' \subseteq Tuples
      /\ \A f \in DOMAIN ipfrags' : ipfrags'[f] \in Handles \cup {NULL}
  BY DEF DoCleanup, FilesInv, TypeOK
<1>2. QED
  BY <1>1, CleanupFiles DEF TableInv

LEMMA SameTable ==
  ASSUME FilesInv, UNCHANGED <<table, ipfrags, dumpers, frag_owner>>,
         out' \subseteq Effectful
  PROVE  TableInv'
BY DEF FilesInv, TypeOK, TableInv, CallsAreUnique, FreeSlotsAreBlank,
       DumperOwnership, Used

(* The first message of a call that is not recorded: its method is not      *)
(* wanted, it is not its turn, or its file cannot be opened.                *)
LEMMA UnrecordedCallFiles ==
  ASSUME FilesInv, SipOfUnwantedMethod \/ SipOfSkippedCall \/ SipOfCallNotOpened
  PROVE  TableInv' /\ SlotAdded(NULL)
<1>1. IsNewCall /\ AddCall(NULL, dumpers, {})
  BY DEF SipOfUnwantedMethod, SipOfSkippedCall, SipOfCallNotOpened
<1>2. dumpers \in [Handles -> File \cup {NULL}]
  BY DEF FilesInv, TypeOK
<1>3. QED
  BY <1>1, <1>2, NewCallFiles

(* The first message of a call that is.                                     *)
LEMMA RecordedCallFiles ==
  ASSUME FilesInv, SipOfRecordedCall
  PROVE  TableInv' /\ \E h \in Handles : dumpers[h] = NULL /\ SlotAdded(h)
<1> DEFINE key == Key(pkt.sip.callid)
<1>1. IsNewCall
  BY DEF SipOfRecordedCall
<1>2. key \in Keys /\ NULL \notin Handles
  BY <1>1, SipInHand, NullAssumption DEF IsNewCall, FilesInv
<1>3. PICK h \in Handles :
        /\ dumpers[h] = NULL
        /\ AddCall(h, [dumpers EXCEPT ![h] = [call |-> key, t38 |-> FALSE]],
                   {Effect("open", key, h)})
  BY DEF SipOfRecordedCall
<1> DEFINE file == [call |-> key, t38 |-> FALSE]
           ds   == [dumpers EXCEPT ![h] = file]
<1>4. dumpers \in [Handles -> File \cup {NULL}]
  BY DEF FilesInv, TypeOK
<1>5. file \in File /\ file # NULL /\ file.call = key
  <2>1. file \in File /\ file.call = key
    BY <1>2 DEF File
  <2>2. NULL \notin File
    BY PacketsAssumption
  <2> HIDE DEF file
  <2>3. QED
    BY <2>1, <2>2
<1>6. Effect("open", key, h) \in Effectful
  BY <1>2 DEF Effect, Effectful, Effects
<1>7. /\ ds \in [Handles -> File \cup {NULL}]
      /\ ds[h] = file
      /\ \A g \in Handles : g # h => ds[g] = dumpers[g]
  BY <1>4, <1>5
<1>8. AddCall(h, ds, {Effect("open", key, h)})
  BY <1>3
<1> HIDE DEF file, ds
<1>9. QED
  BY <1>1, <1>3, <1>5, <1>6, <1>7, <1>8, NewCallFiles

LEMMA NextTable == FilesInv /\ [Next]_vars => TableInv'
<1> SUFFICES ASSUME FilesInv, [Next]_vars PROVE TableInv'
  OBVIOUS
<1>1. ASSUME NEW ts \in Times, NEW p \in Datagrams \cup Fragments \cup {NULL}, Receive(ts, p)
      PROVE  TableInv'
  <2>1. CASE CleanupDue(ts)
    BY <1>1, <2>1, CleanupTable, TimesAssumption DEF Receive
  <2>2. CASE ~CleanupDue(ts)
    BY <1>1, <2>2, SameTable DEF Receive
  <2>3. QED
    BY <2>1, <2>2
<1>2. CASE FragmentOfNoFile \/ FragmentDumped \/ FragmentToClosedDumper
  BY <1>2, FragmentFiles
<1>3. CASE MediaToDestination
  BY <1>3, MediaFiles DEF MediaToDestination
<1>4. CASE MediaFromSource
  BY <1>4, MediaFiles DEF MediaFromSource
<1>5. CASE SipOfKnownCall
  BY <1>5, KnownCallFiles
<1>6. CASE SipOfUnwantedMethod \/ SipOfSkippedCall \/ SipOfCallNotOpened
  BY <1>6, UnrecordedCallFiles
<1>7. CASE SipOfRecordedCall
  BY <1>7, RecordedCallFiles
<1>8. CASE Ignored
  BY <1>8, SameTable DEF Ignored
<1>9. CASE EndOfCapture
  BY <1>9, CleanupTable, TimesAssumption DEF EndOfCapture
<1>10. CASE Signal
  BY <1>10, CleanupTable DEF Signal
<1>11. CASE UNCHANGED vars
  <2>1. UNCHANGED <<table, ipfrags, dumpers, frag_owner>> /\ out' \subseteq Effectful
    BY <1>11 DEF vars, FilesInv, TypeOK
  <2>2. QED
    BY <2>1, SameTable
<1>12. QED
  BY <1>1, <1>2, <1>3, <1>4, <1>5, <1>6, <1>7, <1>8, <1>9, <1>10, <1>11
     DEF Next, Dispatch, Stopped

LEMMA NextFiles == FilesInv /\ [Next]_vars => FilesInv'
<1> SUFFICES ASSUME FilesInv, [Next]_vars PROVE FilesInv'
  OBVIOUS
<1>1. TableInv'
  BY NextTable
<1>2. TypeOK
  BY DEF FilesInv
<1>3. /\ last_cleanup' \in Nat
      /\ call_skip_cnt' \in 1 .. SkipN
      /\ now' \in Nat
      /\ pkt' \in Datagrams \cup Fragments \cup {NULL}
      /\ pc' \in {"next", "dispatch", "ended", "signalled", "crashed"}
  BY <1>2, NextLoop
<1>4. QED
  BY <1>1, <1>3 DEF TableInv, FilesInv, TypeOK

-----------------------------------------------------------------------------
(* The inductive invariant holds of every behaviour, whatever the packets,  *)
(* their times and the options are.                                         *)
THEOREM FilesInvariance == Spec => []FilesInv
<1>1. FilesInv /\ UNCHANGED vars => FilesInv'
  BY NextFiles
<1>2. QED
  BY InitFiles, NextFiles, PTL DEF Spec

(* Every variable keeps its type, no call ever has more flows than its slot *)
(* has room for, and the -l counter stays between 1 and opt_call_skip_n.    *)
THEOREM TypeCorrectness == Spec => []TypeOK
<1>1. FilesInv => TypeOK
  BY DEF FilesInv
<1>2. QED
  BY <1>1, FilesInvariance, PTL

(* No Call-ID ever has two live slots.                                      *)
THEOREM OneSlotPerCall == Spec => []CallsAreUnique
<1>1. FilesInv => CallsAreUnique
  BY DEF FilesInv
<1>2. QED
  BY <1>1, FilesInvariance, PTL

(* No dumper is leaked, shared between calls, or used by a live slot after  *)
(* it has been closed.                                                      *)
THEOREM DumpersAreOwned == Spec => []DumperOwnership
<1>1. FilesInv => DumperOwnership
  BY DEF FilesInv
<1>2. QED
  BY <1>1, FilesInvariance, PTL

-----------------------------------------------------------------------------
(* How long a call can last.  The property speaks of the packet in hand,    *)
(* the code of the last clean-up; the invariant is the triangle between     *)
(* them.  That the last clean-up is never ahead of the packet in hand is    *)
(* what the unsigned subtraction of line 475 is good for.                   *)
AgesInv ==
  /\ last_cleanup <= now
  /\ now - last_cleanup <= 15
  /\ \A i \in Used :
       /\ last_cleanup - table[i].last_packet_time <= IdleLimit
       /\ last_cleanup - table[i].first_packet_time <= AbsTimeout

LEMMA InitAges == Init => AgesInv
<1> SUFFICES ASSUME Init PROVE AgesInv
  OBVIOUS
<1>1. Used = {} /\ last_cleanup = 0 /\ now = 0
  BY DEF Init, Used
<1>2. QED
  BY <1>1 DEF AgesInv

LEMMA TimesInTable ==
  ASSUME TypeOK
  PROVE  /\ \A i \in Used : /\ table[i].first_packet_time \in Int
                            /\ table[i].last_packet_time \in Int
         /\ now \in Nat /\ last_cleanup \in Nat
<1>1. \A i \in Used : table[i] \in CallElement
  BY DEF TypeOK, Used
<1>2. QED
  BY <1>1 DEF TypeOK, CallElement

(* Steps that handle a packet.                                              *)
LEMMA DispatchAges ==
  ASSUME FilesInv, AgesInv, UNCHANGED <<last_cleanup, now>>,
         SlotsKept \/ \E f : SlotAdded(f)
  PROVE  AgesInv'
<1>1. /\ \A i \in Used : /\ table[i].first_packet_time \in Int
                         /\ table[i].last_packet_time \in Int
      /\ now \in Nat /\ last_cleanup \in Nat
  BY TimesInTable DEF FilesInv
<1>2. CASE SlotsKept
  BY <1>1, <1>2, LimitsAssumption DEF AgesInv, SlotsKept, IdleLimit
<1>3. CASE \E f : SlotAdded(f)
  <2>1. PICK i : /\ Used' = Used \cup {i}
                 /\ \A j \in Used : table'[j] = table[j]
                 /\ table'[i].first_packet_time = now
                 /\ table'[i].last_packet_time = now
    BY <1>3 DEF SlotAdded
  <2>2. QED
    BY <1>1, <2>1, LimitsAssumption DEF AgesInv, IdleLimit
<1>4. QED
  BY <1>2, <1>3

(* A clean-up that is not followed by a new last_cleanup only takes slots   *)
(* away.                                                                    *)
LEMMA StopAges ==
  ASSUME FilesInv, AgesInv, UNCHANGED <<last_cleanup, now>>,
         NEW c \in Int, DoCleanup(c)
  PROVE  AgesInv'
<1>1. Used' \subseteq Used /\ \A i \in Used' : table'[i] = table[i]
  BY CleanupUsed DEF FilesInv
<1>2. QED
  BY <1>1 DEF AgesInv

LEMMA NextAges == FilesInv /\ AgesInv /\ [Next]_vars => AgesInv'
<1> SUFFICES ASSUME FilesInv, AgesInv, [Next]_vars PROVE AgesInv'
  OBVIOUS
<1> USE DEF loop
<1>1. ASSUME NEW ts \in Times, NEW p \in Datagrams \cup Fragments \cup {NULL}, Receive(ts, p)
      PROVE  AgesInv'
  <2>1. ts \in Nat /\ now' = ts /\ last_cleanup \in Nat
    BY <1>1, TimesAssumption, TimesInTable DEF Receive, FilesInv
  <2>2. CASE CleanupDue(ts)
    <3>1. DoCleanup(ts) /\ last_cleanup' = ts
      BY <1>1, <2>2 DEF Receive
    <3>2. \A i \in Used' : ~Expired(table[i], ts) /\ table'[i] = table[i] /\ i \in Used
      BY <2>1, <3>1, CleanupUsed DEF FilesInv
    <3>3. \A i \in Used' : /\ ts - table'[i].last_packet_time <= IdleLimit
                           /\ ts - table'[i].first_packet_time <= AbsTimeout
      BY <2>1, <3>2, TimesInTable, LimitsAssumption DEF Expired, IdleLimit, Used, FilesInv
    <3>4. QED
      BY <2>1, <3>1, <3>3 DEF AgesInv
  <2>3. CASE ~CleanupDue(ts)
    <3>1. UNCHANGED <<table, last_cleanup>>
      BY <1>1, <2>3 DEF Receive
    <3>2. last_cleanup <= ts /\ ts - last_cleanup <= 15
      BY <2>1, <2>3 DEF CleanupDue
    <3>3. QED
      BY <2>1, <3>1, <3>2 DEF AgesInv, Used
  <2>4. QED
    BY <2>2, <2>3
<1>2. ASSUME UNCHANGED <<table, last_cleanup, now>> PROVE AgesInv'
  BY <1>2 DEF AgesInv, Used
<1>3. CASE FragmentOfNoFile \/ FragmentDumped \/ FragmentToClosedDumper \/ Ignored
  BY <1>2, <1>3 DEF FragmentOfNoFile, FragmentDumped, FragmentToClosedDumper, Ignored
<1>4. CASE MediaToDestination
  BY <1>4, MediaFiles, DispatchAges DEF MediaToDestination
<1>5. CASE MediaFromSource
  BY <1>5, MediaFiles, DispatchAges DEF MediaFromSource
<1>6. CASE SipOfKnownCall
  BY <1>6, KnownCallFiles, DispatchAges DEF SipOfKnownCall
<1>7. CASE SipOfUnwantedMethod \/ SipOfSkippedCall \/ SipOfCallNotOpened
  <2>1. UNCHANGED <<last_cleanup, now>>
    BY <1>7 DEF SipOfUnwantedMethod, SipOfSkippedCall, SipOfCallNotOpened
  <2>2. QED
    BY <1>7, <2>1, UnrecordedCallFiles, DispatchAges
<1>8. CASE SipOfRecordedCall
  <2>1. UNCHANGED <<last_cleanup, now>>
    BY <1>8 DEF SipOfRecordedCall
  <2>2. QED
    BY <1>8, <2>1, RecordedCallFiles, DispatchAges
<1>9. CASE EndOfCapture
  BY <1>9, StopAges, TimesAssumption DEF EndOfCapture
<1>10. CASE Signal
  BY <1>10, StopAges DEF Signal
<1>11. CASE UNCHANGED vars
  BY <1>2, <1>11 DEF vars
<1>12. QED
  BY <1>1, <1>3, <1>4, <1>5, <1>6, <1>7, <1>8, <1>9, <1>10, <1>11
     DEF Next, Dispatch, Stopped

(* Whenever the loop has a packet in hand, and after it, no live call has   *)
(* gone without media for more than 315 seconds or lasted more than 15      *)
(* seconds beyond -T, for any timestamps, also such as go backwards.        *)
THEOREM CallsEndInTime == Spec => []NoCallOutstaysItsLimits
<1> DEFINE Inv == FilesInv /\ AgesInv
<1>1. Init => Inv
  BY InitFiles, InitAges
<1>2. Inv /\ [Next]_vars => Inv'
  BY NextFiles, NextAges
<1>3. Inv => NoCallOutstaysItsLimits
  <2> SUFFICES ASSUME FilesInv, AgesInv PROVE NoCallOutstaysItsLimits
    OBVIOUS
  <2>1. /\ \A i \in Used : /\ table[i].first_packet_time \in Int
                           /\ table[i].last_packet_time \in Int
        /\ now \in Nat /\ last_cleanup \in Nat
    BY TimesInTable DEF FilesInv
  <2>2. QED
    BY <2>1, LimitsAssumption DEF AgesInv, NoCallOutstaysItsLimits, IdleLimit
<1> HIDE DEF Inv
<1>4. QED
  BY <1>1, <1>2, <1>3, PTL DEF Spec

-----------------------------------------------------------------------------
(* The main loop implements CallRecorder.                                   *)
Known      == {table[i].call_id : i \in Used}
Recordings == {[call |-> table[i].call_id, file |-> table[i].f_pcap] :
                 i \in {j \in Used : table[j].f_pcap # NULL}}

LEMMA InitRefines == Init => Recorder!Init
<1> SUFFICES ASSUME Init PROVE Recorder!Init
  OBVIOUS
<1>1. Used = {} /\ call_skip_cnt = 1
  BY DEF Init, Used
<1>2. QED
  BY <1>1 DEF Recorder!Init

LEMMA SameSlots ==
  ASSUME SlotsKept
  PROVE  Known' = Known /\ Recordings' = Recordings
<1>1. Used' = Used
  BY DEF SlotsKept
<1>2. \A j \in Used : /\ table'[j].call_id = table[j].call_id
                      /\ table'[j].f_pcap = table[j].f_pcap
  BY DEF SlotsKept
<1>3. Known' = Known
  BY <1>1, <1>2 DEF Known
<1>4. Recordings' = Recordings
  BY <1>1, <1>2 DEF Recordings
<1>5. QED
  BY <1>3, <1>4

LEMMA OneMoreSlot ==
  ASSUME NEW f, SlotAdded(f)
  PROVE  /\ Known' = Known \cup {Key(pkt.sip.callid)}
         /\ f = NULL => Recordings' = Recordings
         /\ f # NULL => Recordings' = Recordings \cup
                                      {[call |-> Key(pkt.sip.callid), file |-> f]}
<1> DEFINE key == Key(pkt.sip.callid)
<1>1. PICK i : /\ Used' = Used \cup {i}
               /\ \A j \in Used : table'[j] = table[j]
               /\ table'[i].call_id = key
               /\ table'[i].f_pcap = f
  BY DEF SlotAdded
<1> HIDE DEF key
<1>2. Known' = Known \cup {key}
  BY <1>1 DEF Known
<1>3. f = NULL => Recordings' = Recordings
  BY <1>1 DEF Recordings
<1>4. f # NULL => Recordings' = Recordings \cup {[call |-> key, file |-> f]}
  BY <1>1 DEF Recordings
<1>5. QED
  BY <1>2, <1>3, <1>4 DEF key

(* A clean-up ends the calls that no longer have a live slot; those that    *)
(* stay keep their file.                                                    *)
LEMMA CleanupEnds ==
  ASSUME FilesInv, NEW c \in Int, DoCleanup(c)
  PROVE  \E K \in SUBSET Known : /\ Known' = Known \ K
                                 /\ Recordings' = {r \in Recordings : r.call \notin K}
<1> DEFINE K == {table[i].call_id : i \in Used \ Used'}
<1>1. Used' \subseteq Used /\ \A i \in Used' : table'[i] = table[i]
  BY CleanupUsed DEF FilesInv
<1>2. \A i \in Used : i \in Used' <=> table[i].call_id \notin K
  BY <1>1 DEF FilesInv, CallsAreUnique
<1>3. K \in SUBSET Known
  BY DEF Known
<1> HIDE DEF K
<1>4. Known' = Known \ K
  BY <1>1, <1>2 DEF Known
<1>5. Recordings' = {r \in Recordings : r.call \notin K}
  BY <1>1, <1>2 DEF Recordings
<1>6. QED
  BY <1>3, <1>4, <1>5

(* The call of a first message is not known yet, and a dumper that is       *)
(* closed is in no recording.                                               *)
LEMMA NewCallIsUnknown ==
  ASSUME FilesInv, IsNewCall
  PROVE  Key(pkt.sip.callid) \in Keys \ Known
<1>1. Key(pkt.sip.callid) \in Keys
  BY SipInHand DEF IsNewCall, FilesInv
<1>2. \A i \in Used : table[i].call_id # Key(pkt.sip.callid)
  BY DEF IsNewCall, UnknownCallId, Holds, Used
<1>3. QED
  BY <1>1, <1>2 DEF Known

LEMMA ClosedIsUnused ==
  ASSUME FilesInv, NEW h \in Handles, dumpers[h] = NULL
  PROVE  h \notin {r.file : r \in Recordings}
BY DEF Recordings, FilesInv, DumperOwnership

LEMMA NextRefines ==
  FilesInv /\ [Next]_vars =>
    \/ Recorder!Next
    \/ UNCHANGED <<Known, Recordings, call_skip_cnt>>
<1> SUFFICES ASSUME FilesInv, [Next]_vars
             PROVE  Recorder!Next \/ UNCHANGED <<Known, Recordings, call_skip_cnt>>
  OBVIOUS
<1> USE DEF loop
<1>1. ASSUME NEW c \in Int, DoCleanup(c), UNCHANGED call_skip_cnt
      PROVE  Recorder!Next
  <2>1. PICK K \in SUBSET Known :
          Known' = Known \ K /\ Recordings' = {r \in Recordings : r.call \notin K}
    BY <1>1, CleanupEnds
  <2>2. Recorder!End(K)
    BY <1>1, <2>1 DEF Recorder!End, Known, Recordings
  <2>3. QED
    BY <2>2 DEF Recorder!Next, Known
<1>2. ASSUME UNCHANGED <<table, call_skip_cnt>>
      PROVE  UNCHANGED <<Known, Recordings, call_skip_cnt>>
  BY <1>2 DEF Known, Recordings, Used
<1>3. ASSUME NEW ts \in Times, NEW p \in Datagrams \cup Fragments \cup {NULL}, Receive(ts, p)
      PROVE  Recorder!Next \/ UNCHANGED <<Known, Recordings, call_skip_cnt>>
  BY <1>1, <1>2, <1>3, TimesAssumption DEF Receive
<1>4. CASE FragmentOfNoFile \/ FragmentDumped \/ FragmentToClosedDumper \/ Ignored
  BY <1>2, <1>4 DEF FragmentOfNoFile, FragmentDumped, FragmentToClosedDumper, Ignored
<1>5. CASE MediaToDestination \/ MediaFromSource
  BY <1>5, MediaFiles, SameSlots DEF MediaToDestination, MediaFromSource
<1>6. CASE SipOfKnownCall
  BY <1>6, KnownCallFiles, SameSlots DEF SipOfKnownCall
<1>7. ASSUME IsNewCall, SlotAdded(NULL), call_skip_cnt' = call_skip_cnt
      PROVE  Recorder!Next
  <2>1. PICK k \in Keys : k = Key(pkt.sip.callid) /\ k \notin Known
    BY <1>7, NewCallIsUnknown
  <2>2. Recorder!Disregard(k)
    BY <1>7, <2>1, OneMoreSlot
       DEF Recorder!Disregard, Recorder!Begin, Known, Recordings
  <2>3. QED
    BY <2>2 DEF Recorder!Next
<1>8. CASE SipOfUnwantedMethod
  BY <1>7, <1>8, UnrecordedCallFiles DEF SipOfUnwantedMethod
<1>9. CASE SipOfSkippedCall
  <2>1. IsNewCall /\ SlotAdded(NULL) /\ call_skip_cnt - 1 > 0
        /\ call_skip_cnt' = call_skip_cnt - 1 /\ call_skip_cnt \in Int
    BY <1>9, UnrecordedCallFiles DEF SipOfSkippedCall, Skips, FilesInv, TypeOK
  <2>2. PICK k \in Keys : k = Key(pkt.sip.callid) /\ k \notin Known
    BY <2>1, NewCallIsUnknown
  <2>3. Recorder!Skip(k)
    BY <2>1, <2>2, OneMoreSlot
       DEF Recorder!Skip, Recorder!Begin, Known, Recordings
  <2>4. QED
    BY <2>3 DEF Recorder!Next
<1>10. CASE SipOfCallNotOpened
  <2>1. IsNewCall /\ SlotAdded(NULL) /\ ~(call_skip_cnt - 1 > 0)
        /\ call_skip_cnt' = SkipN /\ call_skip_cnt \in 1 .. SkipN
    BY <1>10, UnrecordedCallFiles DEF SipOfCallNotOpened, Skips, FilesInv, TypeOK
  <2>2. call_skip_cnt - 1 = 0
    BY <2>1, OptionsAssumption
  <2>3. PICK k \in Keys : k = Key(pkt.sip.callid) /\ k \notin Known
    BY <2>1, NewCallIsUnknown
  <2>4. Recorder!RecordFails(k)
    BY <2>1, <2>2, <2>3, OneMoreSlot
       DEF Recorder!RecordFails, Recorder!Begin, Known, Recordings
  <2>5. QED
    BY <2>4 DEF Recorder!Next
<1>11. CASE SipOfRecordedCall
  <2>1. IsNewCall /\ ~(call_skip_cnt - 1 > 0)
        /\ call_skip_cnt' = SkipN /\ call_skip_cnt \in 1 .. SkipN
    BY <1>11 DEF SipOfRecordedCall, Skips, FilesInv, TypeOK
  <2>2. PICK h \in Handles : dumpers[h] = NULL /\ SlotAdded(h)
    BY <1>11, RecordedCallFiles
  <2>3. call_skip_cnt - 1 = 0 /\ h # NULL
    BY <2>1, OptionsAssumption, NullAssumption
  <2>4. h \notin {r.file : r \in Recordings}
    BY <2>2, ClosedIsUnused
  <2>5. PICK k \in Keys : k = Key(pkt.sip.callid) /\ k \notin Known
    BY <2>1, NewCallIsUnknown
  <2>6. Recorder!Record(k, h)
    BY <2>1, <2>2, <2>3, <2>4, <2>5, OneMoreSlot
       DEF Recorder!Record, Recorder!Begin, Recorder!InUse, Known, Recordings
  <2>7. QED
    BY <2>6 DEF Recorder!Next
<1>12. CASE EndOfCapture
  BY <1>1, <1>12, TimesAssumption DEF EndOfCapture
<1>13. CASE Signal
  BY <1>1, <1>13 DEF Signal
<1>14. CASE UNCHANGED vars
  BY <1>2, <1>14 DEF vars
<1>15. QED
  BY <1>3, <1>4, <1>5, <1>6, <1>8, <1>9, <1>10, <1>11, <1>12, <1>13, <1>14
     DEF Next, Dispatch, Stopped

(* The table, with its slots, prefixes and reuse, is a map from calls to    *)
(* recordings: every behaviour of the main loop is one of CallRecorder.     *)
THEOREM TableImplementsRecorder == Spec => ImplementsCallRecorder
<1>1. FilesInv /\ [Next]_vars => [Recorder!Next]_(Recorder!vars)
  BY NextRefines DEF Recorder!vars, Known, Recordings
<1>2. QED
  BY <1>1, InitRefines, FilesInvariance, PTL DEF Spec, ImplementsCallRecorder, Recorder!Spec
=============================================================================
