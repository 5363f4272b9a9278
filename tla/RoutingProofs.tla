---------------------------- MODULE RoutingProofs ----------------------------
(****************************************************************************)
(* Theorems about which file a packet reaches: fragments, signalling and    *)
(* media, for any calls, addresses, packets, times and options.             *)
(****************************************************************************)
EXTENDS PacketLoopProofs

-----------------------------------------------------------------------------
(* Every SIP packet that is filed is filed by FileMessage, with a slot that *)
(* holds its Call-ID and whose dumper, if any, is open for that call.       *)
SipFiled ==
  \/ SipOfKnownCall
  \/ SipOfUnwantedMethod
  \/ SipOfSkippedCall
  \/ SipOfRecordedCall
  \/ SipOfCallNotOpened

(* The slot is that of a known call, as it is, or a free one with a new     *)
(* call in it, the dumpers being those before but for the one just opened.  *)
KnownSlot(i, e, ds) == i \in Used /\ e = table[i] /\ ds = dumpers

NewSlot(i, e, ds) ==
  /\ SlotForAdd(table, i)
  /\ IsNewCall
  /\ e = NewElement(pkt.sip.callid, now, e.f_pcap)
  /\ \A h \in Handles : h # e.f_pcap => ds[h] = dumpers[h]
  /\ e.f_pcap # NULL =>
       /\ dumpers[e.f_pcap] = NULL
       /\ ds[e.f_pcap] = [call |-> Key(pkt.sip.callid), t38 |-> FALSE]

Filing(i, e, ds, effects) ==
  /\ i \in 1 .. Len(table) + 1
  /\ e \in CallElement
  /\ Len(e.flows) <= MaxIpPerCall
  /\ ds \in [Handles -> File \cup {NULL}]
  /\ effects \in SUBSET Effectful
  /\ \A x \in effects : x.what \in {"open trigger", "open"}
  /\ e.call_id = Key(pkt.sip.callid)
  /\ e.f_pcap # NULL => ds[e.f_pcap] # NULL /\ ds[e.f_pcap].call = e.call_id
  /\ \A h \in Handles : dumpers[h] # NULL => ds[h] = dumpers[h]
  /\ KnownSlot(i, e, ds) \/ NewSlot(i, e, ds)
  /\ FileMessage(i, e, ds, effects)

LEMMA KnownCallIsFiled ==
  ASSUME FilesInv, SipOfKnownCall
  PROVE  \E i, e, ds, effects : Filing(i, e, ds, effects)
<1> USE DEF FilesInv
<1>1. PICK i \in DOMAIN table : /\ FindByCallId(table, pkt.sip.callid, i)
                                /\ FileMessage(i, table[i], dumpers, {})
  BY DEF SipOfKnownCall
<1>2. i \in Used /\ i \in 1 .. Len(table) + 1
  BY <1>1 DEF FindByCallId, Holds, Used, TypeOK
<1>3. table[i] \in CallElement /\ Len(table[i].flows) <= MaxIpPerCall
  BY DEF TypeOK
<1>4. table[i].call_id = Key(pkt.sip.callid)
  BY <1>1 DEF FindByCallId, Holds
<1>5. table[i].f_pcap # NULL =>
        /\ dumpers[table[i].f_pcap] # NULL
        /\ dumpers[table[i].f_pcap].call = table[i].call_id
  BY <1>2 DEF DumperOwnership
<1>6. dumpers \in [Handles -> File \cup {NULL}]
  BY DEF TypeOK
<1>7. KnownSlot(i, table[i], dumpers)
  BY <1>2 DEF KnownSlot
<1>8. Filing(i, table[i], dumpers, {})
  BY <1>1, <1>2, <1>3, <1>4, <1>5, <1>6, <1>7 DEF Filing
<1>9. QED
  BY <1>8

LEMMA AddedCallIsFiled ==
  ASSUME FilesInv, IsNewCall,
         NEW f \in Handles \cup {NULL},
         NEW ds \in [Handles -> File \cup {NULL}],
         f # NULL => /\ dumpers[f] = NULL
                     /\ ds[f] = [call |-> Key(pkt.sip.callid), t38 |-> FALSE],
         \A h \in Handles : h # f => ds[h] = dumpers[h],
         NEW effects \in SUBSET Effectful,
         \A x \in effects : x.what = "open",
         AddCall(f, ds, effects)
  PROVE  \E i, e, es : Filing(i, e, ds, es)
<1> USE DEF FilesInv
<1> DEFINE key == Key(pkt.sip.callid)
           e == NewElement(pkt.sip.callid, now, f)
           es == effects \cup {OpenTrigger}
<1>1. IsSip /\ key \in Keys /\ pkt.sip.callid \in CallIds
  BY SipInHand DEF IsNewCall
<1>2. PICK i \in 1 .. Len(table) + 1 : SlotForAdd(table, i) /\ FileMessage(i, e, ds, es)
  BY DEF AddCall
<1>3. es \in SUBSET Effectful /\ \A x \in es : x.what \in {"open trigger", "open"}
  <2>1. OpenTrigger \in Effectful /\ OpenTrigger.what = "open trigger"
    BY <1>1 DEF OpenTrigger, Effect, Effectful, Effects
  <2>2. QED
    BY <2>1
<1>4. /\ e \in CallElement /\ Len(e.flows) <= MaxIpPerCall
      /\ e.call_id = key /\ e.f_pcap = f
  BY <1>1, NewElementType
<1> HIDE DEF e
<1>5. f # NULL => ds[f] # NULL /\ ds[f].call = key
  <2>1. [call |-> key, t38 |-> FALSE] \in File
    BY <1>1 DEF File
  <2>2. [call |-> key, t38 |-> FALSE] # NULL
    BY <2>1, PacketsAssumption
  <2>3. QED
    BY <2>2
<1>6. NewSlot(i, e, ds)
  BY <1>2, <1>4 DEF NewSlot, e
<1>7. \A h \in Handles : dumpers[h] # NULL => ds[h] = dumpers[h]
  BY NullAssumption
<1> HIDE DEF es
<1>8. Filing(i, e, ds, es)
  BY <1>2, <1>3, <1>4, <1>5, <1>6, <1>7 DEF Filing
<1>9. QED
  BY <1>8

LEMMA EveryMessageIsFiled ==
  ASSUME FilesInv, SipFiled
  PROVE  IsSip /\ \E i, e, ds, effects : Filing(i, e, ds, effects)
<1>1. dumpers \in [Handles -> File \cup {NULL}] /\ {} \in SUBSET Effectful
  BY DEF FilesInv, TypeOK
<1>2. CASE SipOfKnownCall
  BY <1>2, KnownCallIsFiled DEF SipOfKnownCall
<1>3. CASE SipOfUnwantedMethod \/ SipOfSkippedCall \/ SipOfCallNotOpened
  <2>1. IsNewCall /\ AddCall(NULL, dumpers, {})
    BY <1>3 DEF SipOfUnwantedMethod, SipOfSkippedCall, SipOfCallNotOpened
  <2>2. QED
    BY <2>1, <1>1, AddedCallIsFiled DEF IsNewCall
<1>4. CASE SipOfRecordedCall
  <2> DEFINE key  == Key(pkt.sip.callid)
             file == [call |-> key, t38 |-> FALSE]
  <2>1. IsNewCall /\ key \in Keys /\ file \in File
    BY <1>4, SipInHand DEF SipOfRecordedCall, IsNewCall, FilesInv, File
  <2>2. PICK h \in Handles :
          /\ dumpers[h] = NULL
          /\ AddCall(h, [dumpers EXCEPT ![h] = file], {Effect("open", key, h)})
    BY <1>4 DEF SipOfRecordedCall
  <2>3. Effect("open", key, h) \in Effectful /\ Effect("open", key, h).what = "open"
    BY <2>1 DEF Effect, Effectful, Effects
  <2> DEFINE ds == [dumpers EXCEPT ![h] = file]
  <2>4. /\ ds \in [Handles -> File \cup {NULL}]
        /\ ds[h] = file
        /\ \A g \in Handles : g # h => ds[g] = dumpers[g]
    BY <1>1, <2>1
  <2>5. AddCall(h, ds, {Effect("open", key, h)})
    BY <2>2
  <2> HIDE DEF ds
  <2>6. \E i, e, es : Filing(i, e, ds, es)
    BY <2>1, <2>2, <2>3, <2>4, <2>5, AddedCallIsFiled
  <2>7. QED
    BY <2>1, <2>6 DEF IsNewCall
<1>5. QED
  BY <1>2, <1>3, <1>4 DEF SipFiled

(* What filing a message leaves of the dumpers: those that were open are    *)
(* open for the same call, and that of the message's slot for its own.      *)
LEMMA FiledDumpers ==
  ASSUME FilesInv, IsSip, NEW i, NEW e, NEW ds, NEW effects, Filing(i, e, ds, effects)
  PROVE  /\ \A h \in Handles : dumpers[h] # NULL =>
              dumpers'[h] # NULL /\ dumpers'[h].call = dumpers[h].call
         /\ e.f_pcap # NULL =>
              /\ e.f_pcap \in Handles
              /\ dumpers'[e.f_pcap] # NULL
              /\ dumpers'[e.f_pcap].call = Key(pkt.sip.callid)
<1> USE DEF Filing
<1>1. e.f_pcap # NULL => ds[e.f_pcap] # NULL
  OBVIOUS
<1>2. \A h \in Handles : /\ dumpers'[h] = NULL <=> ds[h] = NULL
                         /\ ds[h] # NULL => dumpers'[h].call = ds[h].call
  BY <1>1, FileMessageStep DEF FilesInv
<1>3. e.f_pcap # NULL => e.f_pcap \in Handles
  BY DEF CallElement
<1>4. QED
  BY <1>1, <1>2, <1>3

-----------------------------------------------------------------------------
(* Fragments.  The invariant is inductive together with FilesInv: the       *)
(* clean-up forgets the owners of the calls it ends, and those are the      *)
(* owners of the dumpers it closes because a dumper is open for one call,   *)
(* that of the slot it belongs to.                                          *)
LEMMA InitFragments == Init => FragmentsFollowTheirCall
BY DEF Init, FragmentsFollowTheirCall

LEMMA FiledFragments ==
  ASSUME FilesInv, FragmentsFollowTheirCall, SipFiled
  PROVE  FragmentsFollowTheirCall'
<1>1. IsSip
  BY EveryMessageIsFiled
<1>2. PICK i, e, ds, effects : Filing(i, e, ds, effects)
  BY EveryMessageIsFiled
<1> DEFINE m == pkt.sip
           h == e.f_pcap
           key == Key(m.callid)
<1>3. /\ \A g \in Handles : dumpers[g] # NULL =>
           dumpers'[g] # NULL /\ dumpers'[g].call = dumpers[g].call
      /\ h # NULL => h \in Handles /\ dumpers'[h] # NULL /\ dumpers'[h].call = key
  BY <1>1, <1>2, FiledDumpers
<1>4. FileMessage(i, e, ds, effects)
  BY <1>2 DEF Filing
<1>5. SUFFICES ASSUME NEW f \in Tuples, frag_owner'[f] # NULL
               PROVE  /\ f \in DOMAIN ipfrags'
                      /\ ipfrags'[f] # NULL
                      /\ dumpers'[ipfrags'[f]] # NULL
                      /\ dumpers'[ipfrags'[f]].call = frag_owner'[f]
  BY DEF FragmentsFollowTheirCall
<1>6. ASSUME frag_owner'[f] = frag_owner[f],
             f \in DOMAIN ipfrags => f \in DOMAIN ipfrags' /\ ipfrags'[f] = ipfrags[f]
      PROVE  /\ f \in DOMAIN ipfrags'
             /\ ipfrags'[f] # NULL
             /\ dumpers'[ipfrags'[f]] # NULL
             /\ dumpers'[ipfrags'[f]].call = frag_owner'[f]
  <2>1. /\ f \in DOMAIN ipfrags
        /\ ipfrags[f] # NULL
        /\ dumpers[ipfrags[f]] # NULL
        /\ dumpers[ipfrags[f]].call = frag_owner[f]
    BY <1>5, <1>6 DEF FragmentsFollowTheirCall
  <2>2. ipfrags[f] \in Handles
    BY <2>1 DEF FilesInv, TypeOK
  <2>3. QED
    BY <1>3, <1>6, <2>1, <2>2
<1>7. CASE m.frag = NULL
  BY <1>4, <1>6, <1>7 DEF FileMessage
<1>8. CASE m.frag # NULL
  <2>1. /\ ipfrags' = AddIpFrag(ipfrags, m.frag, h)
        /\ frag_owner' = [frag_owner EXCEPT ![m.frag] = IF h # NULL THEN key ELSE NULL]
    BY <1>4, <1>8 DEF FileMessage
  <2>2. frag_owner \in [Tuples -> Keys \cup {NULL}]
    BY DEF FilesInv, TypeOK
  <2>3. CASE f = m.frag
    <3>1. frag_owner'[f] = (IF h # NULL THEN key ELSE NULL) /\ ipfrags'[f] = h
      BY <2>1, <2>2, <2>3 DEF AddIpFrag
    <3>2. h # NULL /\ frag_owner'[f] = key
      BY <3>1, <1>5
    <3>3. f \in DOMAIN ipfrags'
      BY <2>1, <2>3 DEF AddIpFrag
    <3>4. QED
      BY <3>1, <3>2, <3>3, <1>3
  <2>4. CASE f # m.frag
    BY <1>6, <2>1, <2>2, <2>4 DEF AddIpFrag
  <2>5. QED
    BY <2>3, <2>4
<1>9. QED
  BY <1>7, <1>8

LEMMA CleanupFragments ==
  ASSUME FilesInv, FragmentsFollowTheirCall, NEW c \in Int, DoCleanup(c)
  PROVE  FragmentsFollowTheirCall'
<1> DEFINE ending == Ending(table, c)
<1>1. /\ dumpers' = [h \in Handles |->
                       IF \E e \in ending : e.f_pcap = h THEN NULL ELSE dumpers[h]]
      /\ frag_owner' = [f \in Tuples |->
                          IF \E e \in ending : e.call_id = frag_owner[f]
                          THEN NULL ELSE frag_owner[f]]
      /\ ipfrags' = ipfrags
  BY DEF DoCleanup
<1>2. SUFFICES ASSUME NEW f \in Tuples, frag_owner'[f] # NULL
               PROVE  /\ f \in DOMAIN ipfrags
                      /\ ipfrags[f] # NULL
                      /\ dumpers'[ipfrags[f]] # NULL
                      /\ dumpers'[ipfrags[f]].call = frag_owner'[f]
  BY <1>1 DEF FragmentsFollowTheirCall
<1>3. frag_owner'[f] = frag_owner[f] /\ \A e \in ending : e.call_id # frag_owner[f]
  BY <1>1, <1>2
<1>4. /\ f \in DOMAIN ipfrags
      /\ ipfrags[f] # NULL
      /\ dumpers[ipfrags[f]] # NULL
      /\ dumpers[ipfrags[f]].call = frag_owner[f]
  BY <1>2, <1>3 DEF FragmentsFollowTheirCall
<1>5. ipfrags[f] \in Handles
  BY <1>4 DEF FilesInv, TypeOK
<1>6. \A e \in ending : e.f_pcap # ipfrags[f]
  <2> SUFFICES ASSUME NEW e \in ending, e.f_pcap = ipfrags[f] PROVE FALSE
    OBVIOUS
  <2>1. PICK j \in DOMAIN table : e = table[j] /\ table[j].f_pcap # NULL
    BY DEF Ending
  <2>2. dumpers[ipfrags[f]].call = e.call_id
    BY <2>1, SlotOfFile
  <2>3. QED
    BY <1>3, <1>4, <2>2
<1>7. dumpers'[ipfrags[f]] = dumpers[ipfrags[f]]
  BY <1>1, <1>5, <1>6
<1>8. QED
  BY <1>3, <1>4, <1>7

(* A later fragment, dumped or not, forgets its own id at most.             *)
LEMMA LaterFragments ==
  ASSUME FilesInv, FragmentsFollowTheirCall,
         FragmentOfNoFile \/ FragmentDumped \/ FragmentToClosedDumper
  PROVE  FragmentsFollowTheirCall'
<1>1. dumpers' = dumpers
  BY DEF FragmentOfNoFile, FragmentDumped, FragmentToClosedDumper
<1>2. frag_owner \in [Tuples -> Keys \cup {NULL}]
  BY DEF FilesInv, TypeOK
<1>3. ASSUME ForgetIfLast \/ UNCHANGED <<ipfrags, frag_owner>>
      PROVE  FragmentsFollowTheirCall'
  BY <1>1, <1>2, <1>3 DEF ForgetIfLast, DeleteIpFrag, FragmentsFollowTheirCall
<1>4. CASE FragmentOfNoFile
  <2>1. /\ frag_owner' = frag_owner
        /\ ipfrags' = GetIpFrag(ipfrags, pkt.id)
        /\ pkt.id \in DOMAIN ipfrags => ipfrags[pkt.id] = NULL
    BY <1>4 DEF FragmentOfNoFile
  <2>2. /\ DOMAIN ipfrags \subseteq DOMAIN ipfrags'
        /\ \A f \in DOMAIN ipfrags : ipfrags'[f] = ipfrags[f]
    BY <2>1 DEF GetIpFrag, AddIpFrag
  <2>3. QED
    BY <1>1, <2>1, <2>2 DEF FragmentsFollowTheirCall
<1>5. CASE FragmentDumped
  BY <1>3, <1>5 DEF FragmentDumped
<1>6. CASE FragmentToClosedDumper
  BY <1>3, <1>6 DEF FragmentToClosedDumper
<1>7. QED
  BY <1>4, <1>5, <1>6

LEMMA NextFragments ==
  FilesInv /\ FragmentsFollowTheirCall /\ [Next]_vars => FragmentsFollowTheirCall'
<1> SUFFICES ASSUME FilesInv, FragmentsFollowTheirCall, [Next]_vars
             PROVE  FragmentsFollowTheirCall'
  OBVIOUS
<1>1. ASSUME UNCHANGED <<dumpers, ipfrags, frag_owner>>
      PROVE  FragmentsFollowTheirCall'
  BY <1>1 DEF FragmentsFollowTheirCall
<1>2. ASSUME NEW ts \in Times, NEW p \in Datagrams \cup Fragments \cup {NULL}, Receive(ts, p)
      PROVE  FragmentsFollowTheirCall'
  BY <1>1, <1>2, CleanupFragments, TimesAssumption DEF Receive
<1>3. CASE FragmentOfNoFile \/ FragmentDumped \/ FragmentToClosedDumper
  BY <1>3, LaterFragments
<1>4. CASE MediaToDestination \/ MediaFromSource \/ Ignored
  BY <1>1, <1>4 DEF MediaToDestination, MediaFromSource, Ignored
<1>5. CASE SipFiled
  BY <1>5, FiledFragments
<1>6. CASE EndOfCapture \/ Signal
  BY <1>6, CleanupFragments, TimesAssumption DEF EndOfCapture, Signal
<1>7. CASE UNCHANGED vars
  BY <1>1, <1>7 DEF vars
<1>8. QED
  BY <1>2, <1>3, <1>4, <1>5, <1>6, <1>7 DEF Next, Dispatch, Stopped, SipFiled

(* An entry of ipfrags that was made for a recording in progress leads to   *)
(* that recording's open dumper, however the IP ids are reused meanwhile.   *)
THEOREM FragmentEntriesAreTheirOwners == Spec => []FragmentsFollowTheirCall
<1> DEFINE Inv == FilesInv /\ FragmentsFollowTheirCall
<1>1. Init => Inv
  BY InitFiles, InitFragments
<1>2. Inv /\ [Next]_vars => Inv'
  BY NextFiles, NextFragments
<1>3. Inv => FragmentsFollowTheirCall
  OBVIOUS
<1> HIDE DEF Inv
<1>4. QED
  BY <1>1, <1>2, <1>3, PTL DEF Spec

-----------------------------------------------------------------------------
(* Which steps handle which packet.                                         *)

(* A SIP effect is that of a message filed, and of no other step that       *)
(* handles a packet.                                                        *)
LEMMA SipIsFiled ==
  ASSUME FilesInv, [Next]_vars, Dispatched, NEW x \in out', x.what = "sip"
  PROVE  SipFiled
<1>1. Dispatch
  BY DEF Dispatched, Next, Receive, EndOfCapture, Signal, Stopped, vars
<1>2. CASE FragmentOfNoFile \/ FragmentToClosedDumper \/ Ignored
  BY <1>2 DEF FragmentOfNoFile, FragmentToClosedDumper, Ignored
<1>3. CASE FragmentDumped
  BY <1>3 DEF FragmentDumped, Effect
<1>4. CASE MediaToDestination \/ MediaFromSource
  BY <1>4 DEF MediaToDestination, MediaFromSource, Media, Effect
<1>5. QED
  BY <1>1, <1>2, <1>3, <1>4 DEF Dispatch, SipFiled

LEMMA SignallingStep ==
  ASSUME FilesInv, [Next]_vars, Dispatched, NEW x \in out', x.what = "sip"
  PROVE  /\ dumpers'[x.file] # NULL
         /\ dumpers'[x.file].call = Key(pkt.sip.callid)
<1>1. SipFiled
  BY SipIsFiled
<1>2. IsSip
  BY <1>1, EveryMessageIsFiled
<1>3. PICK i, e, ds, effects : Filing(i, e, ds, effects)
  BY <1>1, EveryMessageIsFiled
<1>4. out' = effects \cup IF e.f_pcap # NULL
                         THEN {Effect("sip", Key(pkt.sip.callid), e.f_pcap)} ELSE {}
  BY <1>3 DEF Filing, FileMessage
<1>5. x \notin effects
  BY <1>3 DEF Filing
<1>6. e.f_pcap # NULL /\ x.file = e.f_pcap
  BY <1>4, <1>5 DEF Effect
<1>7. QED
  BY <1>2, <1>3, <1>6, FiledDumpers

(* A SIP packet is written to the file that was opened for its Call-ID, or  *)
(* for one with its length and first 32 bytes, and to no other, however     *)
(* slots and dumpers are reused.                                            *)
THEOREM SignallingIsNotMixed == Spec => SignallingStaysWithItsCall
<1>1. FilesInv /\ [Next]_vars =>
        [\A e \in out' : e.what = "sip" /\ Dispatched =>
           /\ dumpers'[e.file] # NULL
           /\ dumpers'[e.file].call = Key(pkt.sip.callid)]_vars
  BY SignallingStep
<1>2. QED
  BY <1>1, FilesInvariance, PTL DEF Spec, SignallingStaysWithItsCall

-----------------------------------------------------------------------------
(* Media.                                                                   *)

(* A packet written as media was found at one flow of one live slot.        *)
FoundAt(at, i, k) ==
  /\ FindFlow(table, Lookup(at), pkt.ssrc, i, k)
  /\ table' = Put(table, i, HeardFrom(table[i], k))
  /\ out' = IF Saves(table[i]) THEN {Effect("rtp", table[i].call_id, table[i].f_pcap)}
                               ELSE {}

LEMMA MediaIsFound ==
  ASSUME FilesInv, NEW at, Media(at)
  PROVE  \E i \in Used : \E k \in DOMAIN table[i].flows : FoundAt(at, i, k)
<1>1. PICK i \in DOMAIN table : \E k \in DOMAIN table[i].flows :
        /\ FindFlow(table, Lookup(at), pkt.ssrc, i, k)
        /\ table' = Put(table, i, HeardFrom(table[i], k))
        /\ out' = IF Saves(table[i])
                  THEN {Effect("rtp", table[i].call_id, table[i].f_pcap)} ELSE {}
  BY DEF Media
<1>2. PICK k \in DOMAIN table[i].flows : FoundAt(at, i, k)
  BY <1>1 DEF FoundAt
<1>3. table[i].flows # << >>
  OBVIOUS
<1>4. i \in Used
  BY <1>3 DEF FilesInv, FreeSlotsAreBlank, Used, Blank
<1>5. QED
  BY <1>2, <1>4

(* A media effect is that of a packet sent to, or from, an announced        *)
(* address.                                                                 *)
LEMMA RtpIsMedia ==
  ASSUME FilesInv, [Next]_vars, Dispatched, NEW x \in out', x.what = "rtp"
  PROVE  \E at : Media(at)
<1>1. Dispatch
  BY DEF Dispatched, Next, Receive, EndOfCapture, Signal, Stopped, vars
<1>2. CASE FragmentOfNoFile \/ FragmentToClosedDumper \/ Ignored
  BY <1>2 DEF FragmentOfNoFile, FragmentToClosedDumper, Ignored
<1>3. CASE FragmentDumped
  BY <1>3 DEF FragmentDumped, Effect
<1>4. CASE MediaToDestination \/ MediaFromSource
  BY <1>4 DEF MediaToDestination, MediaFromSource
<1>5. CASE SipFiled
  <2>1. PICK i, e, ds, effects : Filing(i, e, ds, effects)
    BY <1>5, EveryMessageIsFiled
  <2>2. out' = effects \cup IF e.f_pcap # NULL
                           THEN {Effect("sip", Key(pkt.sip.callid), e.f_pcap)} ELSE {}
    BY <2>1 DEF Filing, FileMessage
  <2>3. x \notin effects
    BY <2>1 DEF Filing
  <2>4. QED
    BY <2>2, <2>3 DEF Effect
<1>6. QED
  BY <1>1, <1>2, <1>3, <1>4, <1>5 DEF Dispatch, SipFiled

LEMMA AfterByeStep ==
  ASSUME FilesInv, [Next]_vars, Dispatched,
         NEW i \in Used, table[i].had_bye, ReachesFileOf(i)
  PROVE  \E k \in DOMAIN table[i].flows : table[i].flows[k].ssrc = pkt.ssrc
<1> DEFINE x == Effect("rtp", table[i].call_id, table[i].f_pcap)
<1>1. x \in out' /\ x.what = "rtp"
  BY DEF ReachesFileOf, Effect
<1>2. PICK at : Media(at)
  BY <1>1, RtpIsMedia
<1>3. PICK j \in Used : \E k \in DOMAIN table[j].flows : FoundAt(at, j, k)
  BY <1>2, MediaIsFound
<1>4. PICK k \in DOMAIN table[j].flows : FoundAt(at, j, k)
  BY <1>3
<1>5. x = Effect("rtp", table[j].call_id, table[j].f_pcap)
  BY <1>1, <1>4 DEF FoundAt
<1>6. table[j].call_id = table[i].call_id
  BY <1>5 DEF Effect
<1>7. j = i
  BY <1>6 DEF FilesInv, CallsAreUnique
<1>8. QED
  BY <1>4, <1>7 DEF FoundAt, FindFlow, Accepts

(* Once a call has had its BYE, its file only takes media from the SSRCs    *)
(* its flows have ended with.                                               *)
THEOREM FinishedCallsTakeNoNewSources == Spec => AfterByeOnlyKnownSources
<1>1. FilesInv /\ [Next]_vars =>
        [\A i \in Used :
           table[i].had_bye /\ Dispatched /\ ReachesFileOf(i) =>
             \E k \in DOMAIN table[i].flows : table[i].flows[k].ssrc = pkt.ssrc]_vars
  BY AfterByeStep
<1>2. QED
  BY <1>1, FilesInvariance, PTL DEF Spec, AfterByeOnlyKnownSources

(* A packet for the address of one live call is found at that call: the     *)
(* flows of all other calls at this address are closed to its SSRC.         *)
LEMMA LiveMediaStep ==
  ASSUME FilesInv, [Next]_vars, Dispatched, pkt \in Datagrams,
         RtpSave \in {"rtp", "rtp+rtcp"},
         NEW i \in Used, SoleClaim(i, Lookup(pkt.dst))
  PROVE  ReachesFileOf(i)
<1> DEFINE at == Lookup(pkt.dst)
<1>1. PICK k \in DOMAIN table[i].flows : table[i].flows[k].at = at
  BY DEF SoleClaim, Tracks
<1>2. Accepts(table[i], k, at, pkt.ssrc)
  BY <1>1 DEF Accepts, SoleClaim
<1>3. i \in DOMAIN table
  BY DEF Used
<1>4. IsMediaTo(pkt.dst)
  BY <1>1, <1>2, <1>3 DEF IsMediaTo, NoFlow
<1>5. pkt \notin Fragments
  BY PacketsAssumption
<1>6. Dispatch
  BY DEF Dispatched, Next, Receive, EndOfCapture, Signal, Stopped, vars
<1>7. ~SipFiled /\ ~Ignored
  BY <1>4, EveryMessageIsFiled DEF Ignored, IsSip, IsOther
<1>8. MediaToDestination
  BY <1>4, <1>5, <1>6, <1>7
     DEF Dispatch, SipFiled, MediaFromSource, FragmentOfNoFile, FragmentDumped,
         FragmentToClosedDumper, FragmentHasDumper
<1>9. PICK j \in Used : \E l \in DOMAIN table[j].flows : FoundAt(pkt.dst, j, l)
  BY <1>8, MediaIsFound DEF MediaToDestination
<1>10. PICK l \in DOMAIN table[j].flows : FoundAt(pkt.dst, j, l)
  BY <1>9
<1>11. Accepts(table[j], l, at, pkt.ssrc)
  BY <1>10 DEF FoundAt, FindFlow
<1>12. j = i
  BY <1>11 DEF Accepts, SoleClaim
<1>13. Saves(table[i])
  BY DEF Saves, SoleClaim
<1>14. QED
  BY <1>10, <1>12, <1>13 DEF FoundAt, ReachesFileOf

(* Media for a live recorded call reaches its file, also when finished      *)
(* calls that used the same address are still in the table.                 *)
THEOREM LiveCallsGetTheirMedia == Spec => LiveCallGetsItsMedia
<1>1. FilesInv /\ [Next]_vars =>
        [Dispatched /\ pkt \in Datagrams /\ RtpSave \in {"rtp", "rtp+rtcp"} =>
           \A i \in Used : SoleClaim(i, Lookup(pkt.dst)) => ReachesFileOf(i)]_vars
  BY LiveMediaStep
<1>2. QED
  BY <1>1, FilesInvariance, PTL DEF Spec, LiveCallGetsItsMedia
=============================================================================
