----------------------------- MODULE EndingProofs -----------------------------
(****************************************************************************)
(* Theorems about how long a recording lasts, how it ends and how much room *)
(* the table takes, for any calls, addresses, packets, times and options.   *)
(****************************************************************************)
EXTENDS RoutingProofs, FiniteSetTheorems

-----------------------------------------------------------------------------
(* The slots and dumpers after a step.                                      *)

(* After a message is filed, its slot holds what Signalled makes of e, and  *)
(* no other live slot has its dumper.                                       *)
LEMMA FiledSlots ==
  ASSUME FilesInv, IsSip, NEW i, NEW e, NEW ds, NEW effects, Filing(i, e, ds, effects)
  PROVE  /\ table' \in Seq(CallElement)
         /\ DOMAIN table' = DOMAIN table \cup {i}
         /\ Used' = Used \cup {i}
         /\ \A j \in Used \ {i} : /\ table'[j] = table[j]
                                  /\ table[j].f_pcap # NULL => table[j].f_pcap # e.f_pcap
         /\ table'[i] = Signalled(e, pkt.sip)
         /\ table'[i].f_pcap = e.f_pcap
<1> USE DEF Filing
<1>1. e.f_pcap # NULL => ds[e.f_pcap] # NULL
  OBVIOUS
<1>2. /\ table' \in Seq(CallElement)
      /\ DOMAIN table' = DOMAIN table \cup {i}
      /\ \A j \in DOMAIN table \ {i} : table'[j] = table[j]
      /\ table'[i].is_used = e.is_used
      /\ table'[i].f_pcap = e.f_pcap
  BY <1>1, FileMessageStep DEF FilesInv
<1>3. table'[i] = Signalled(e, pkt.sip)
  BY DEF FileMessage, Put
<1>4. e.is_used
  <2>1. CASE KnownSlot(i, e, ds)
    BY <2>1 DEF KnownSlot, Used
  <2>2. CASE NewSlot(i, e, ds)
    <3>1. \A f : NewElement(pkt.sip.callid, now, f).is_used
      BY DEF NewElement
    <3>2. QED
      BY <2>2, <3>1 DEF NewSlot
  <2>3. QED
    BY <2>1, <2>2
<1>5. Used' = Used \cup {i}
  BY <1>2, <1>4 DEF Used
<1>6. ASSUME NEW j \in Used \ {i}, table[j].f_pcap # NULL
      PROVE  table[j].f_pcap # e.f_pcap
  <2>0. DumperOwnership
    BY DEF FilesInv
  <2>1. CASE KnownSlot(i, e, ds)
    <3>1. i \in Used /\ e = table[i] /\ j \in Used /\ j # i
      BY <1>6, <2>1 DEF KnownSlot
    <3>2. QED
      BY <1>6, <2>0, <3>1 DEF DumperOwnership
  <2>2. CASE NewSlot(i, e, ds)
    <3>1. dumpers[table[j].f_pcap] # NULL
      BY <1>6, <2>0 DEF DumperOwnership
    <3>2. e.f_pcap # NULL => dumpers[e.f_pcap] = NULL
      BY <2>2 DEF NewSlot
    <3>3. QED
      BY <1>6, <3>1, <3>2
  <2>3. QED
    BY <2>1, <2>2
<1>7. QED
  BY <1>2, <1>3, <1>5, <1>6 DEF Used

(* Whatever is done with a packet, every live slot stays as it was but for  *)
(* its flows, flags and last media time, and one may be added.              *)
LEMMA DispatchSlots ==
  ASSUME FilesInv, Dispatch
  PROVE  /\ SlotsKept \/ \E f : SlotAdded(f)
         /\ pc = "dispatch"
         /\ UNCHANGED <<last_cleanup, now>>
<1> USE DEF Handled, loop
<1>1. ASSUME UNCHANGED table PROVE SlotsKept
  BY <1>1 DEF SlotsKept, Used
<1>2. CASE FragmentOfNoFile \/ FragmentDumped \/ FragmentToClosedDumper \/ Ignored
  BY <1>1, <1>2 DEF FragmentOfNoFile, FragmentDumped, FragmentToClosedDumper, Ignored
<1>3. CASE MediaToDestination
  BY <1>3, MediaFiles DEF MediaToDestination
<1>4. CASE MediaFromSource
  BY <1>4, MediaFiles DEF MediaFromSource
<1>5. CASE SipOfKnownCall
  BY <1>5, KnownCallFiles DEF SipOfKnownCall
<1>6. CASE SipOfUnwantedMethod \/ SipOfSkippedCall \/ SipOfCallNotOpened
  <2>1. SlotAdded(NULL)
    BY <1>6, UnrecordedCallFiles
  <2>2. QED
    BY <1>6, <2>1 DEF SipOfUnwantedMethod, SipOfSkippedCall, SipOfCallNotOpened
<1>7. CASE SipOfRecordedCall
  <2>1. \E f : SlotAdded(f)
    BY <1>7, RecordedCallFiles
  <2>2. QED
    BY <1>7, <2>1 DEF SipOfRecordedCall
<1>8. QED
  BY <1>2, <1>3, <1>4, <1>5, <1>6, <1>7 DEF Dispatch

(* A dumper is only ever closed by a clean-up.                              *)
LEMMA DispatchCloses ==
  ASSUME FilesInv, Dispatch, NEW h \in Handles, dumpers[h] # NULL
  PROVE  dumpers'[h] # NULL
<1>1. CASE SipFiled
  <2>1. IsSip
    BY <1>1, EveryMessageIsFiled
  <2>2. PICK i, e, ds, effects : Filing(i, e, ds, effects)
    BY <1>1, EveryMessageIsFiled
  <2>3. QED
    BY <2>1, <2>2, FiledDumpers
<1>2. CASE ~SipFiled
  BY <1>2 DEF Dispatch, SipFiled, FragmentOfNoFile, FragmentDumped, FragmentToClosedDumper,
              MediaToDestination, MediaFromSource, Ignored
<1>3. QED
  BY <1>1, <1>2

-----------------------------------------------------------------------------
(* Media keeps the call open.  The packet just written to a file is the     *)
(* last its call has been heard with, and it came now.                      *)
HeardInv ==
  \A h \in Handles : WrittenBy("rtp", h) =>
    \A i \in Used : table[i].f_pcap = h => table[i].last_packet_time = now

LEMMA InitHeard == Init => HeardInv
BY DEF Init, HeardInv, WrittenBy

LEMMA MediaHeard ==
  ASSUME FilesInv, pkt \in Datagrams, NEW at, Media(at), UNCHANGED now
  PROVE  HeardInv'
<1>1. PICK i \in Used : \E k \in DOMAIN table[i].flows : FoundAt(at, i, k)
  BY MediaIsFound
<1>2. PICK k \in DOMAIN table[i].flows : FoundAt(at, i, k)
  BY <1>1
<1>3. i \in DOMAIN table /\ table[i] \in CallElement
  BY DEF Used, FilesInv, TypeOK
<1> DEFINE s == HeardFrom(table[i], k)
<1>4. /\ s.is_used = table[i].is_used
      /\ s.f_pcap = table[i].f_pcap
      /\ s.last_packet_time = IF Saves(table[i]) THEN now ELSE table[i].last_packet_time
  BY <1>3, HeardFromType DEF FilesInv
<1> HIDE DEF s
<1>5. /\ DOMAIN table' = DOMAIN table
      /\ \A j \in DOMAIN table : table'[j] = IF j = i THEN s ELSE table[j]
  BY <1>2, <1>3 DEF FoundAt, Put, s
<1>6. Used' = Used
  BY <1>4, <1>5 DEF Used
<1>7. SUFFICES ASSUME NEW h \in Handles, WrittenBy("rtp", h)',
                      NEW j \in Used, table'[j].f_pcap = h
               PROVE  table'[j].last_packet_time = now
  BY <1>6 DEF HeardInv
<1>8. Saves(table[i]) /\ table[i].f_pcap = h
  BY <1>2, <1>7 DEF FoundAt, WrittenBy, Effect
<1>9. j \in DOMAIN table /\ h # NULL
  BY NullAssumption DEF Used
<1>10. table[j].f_pcap = h
  BY <1>4, <1>5, <1>7, <1>9
<1>11. j = i
  BY <1>8, <1>9, <1>10 DEF FilesInv, DumperOwnership
<1>12. QED
  BY <1>4, <1>5, <1>8, <1>9, <1>11

LEMMA NextHeard == FilesInv /\ HeardInv /\ [Next]_vars => HeardInv'
<1> SUFFICES ASSUME FilesInv, HeardInv, [Next]_vars PROVE HeardInv'
  OBVIOUS
<1>1. ASSUME \A x \in out' : x.what # "rtp" PROVE HeardInv'
  BY <1>1 DEF HeardInv, WrittenBy
<1>2. ASSUME NEW c \in Int, DoCleanup(c) PROVE \A x \in out' : x.what # "rtp"
  <2>1. out' = {Effect(HowItEnds(e), e.call_id, e.f_pcap) : e \in Ending(table, c)}
    BY <1>2 DEF DoCleanup
  <2>2. \A e : Effect(HowItEnds(e), e.call_id, e.f_pcap).what # "rtp"
    BY DEF Effect, HowItEnds
  <2>3. QED
    BY <2>1, <2>2
<1>3. ASSUME NEW ts \in Times, NEW p \in Datagrams \cup Fragments \cup {NULL}, Receive(ts, p)
      PROVE  HeardInv'
  BY <1>1, <1>2, <1>3, TimesAssumption DEF Receive
<1>4. CASE EndOfCapture \/ Signal
  BY <1>1, <1>2, <1>4, TimesAssumption DEF EndOfCapture, Signal
<1>5. CASE MediaToDestination \/ MediaFromSource
  BY <1>5, MediaHeard DEF MediaToDestination, MediaFromSource, loop
<1>6. CASE Dispatch /\ ~(MediaToDestination \/ MediaFromSource)
  <2>1. CASE FragmentOfNoFile \/ FragmentToClosedDumper \/ Ignored
    BY <1>1, <2>1 DEF FragmentOfNoFile, FragmentToClosedDumper, Ignored
  <2>2. CASE FragmentDumped
    BY <1>1, <2>2 DEF FragmentDumped, Effect
  <2>3. CASE SipFiled
    <3>1. PICK i, e, ds, effects : Filing(i, e, ds, effects)
      BY <2>3, EveryMessageIsFiled
    <3>2. out' = effects \cup IF e.f_pcap # NULL
                             THEN {Effect("sip", Key(pkt.sip.callid), e.f_pcap)} ELSE {}
      BY <3>1 DEF Filing, FileMessage
    <3>3. \A x \in effects : x.what # "rtp"
      BY <3>1 DEF Filing
    <3>4. \A x \in out' : x.what # "rtp"
      BY <3>2, <3>3 DEF Effect
    <3>5. QED
      BY <1>1, <3>4
  <2>4. QED
    BY <1>6, <2>1, <2>2, <2>3 DEF Dispatch, SipFiled
<1>7. CASE UNCHANGED vars
  BY <1>7 DEF vars, HeardInv, WrittenBy, Used
<1>8. QED
  BY <1>3, <1>4, <1>5, <1>6, <1>7 DEF Next, Stopped

LEMMA NotIdleStep ==
  ASSUME FilesInv, HeardInv, [Next]_vars,
         NEW h \in Handles, WrittenBy("rtp", h), Closes(h), pc' \in {"next", "dispatch"}
  PROVE  \/ now' - now > IdleLimit
         \/ \E i \in Used : /\ table[i].f_pcap = h
                            /\ now' - table[i].first_packet_time > AbsTimeout
<1>1. ~Dispatch
  BY DispatchCloses DEF Closes
<1>2. PICK ts \in Times, p \in Datagrams \cup Fragments \cup {NULL} : Receive(ts, p)
  BY <1>1 DEF Next, EndOfCapture, Signal, Stopped, vars, Closes
<1>3. DoCleanup(ts) /\ now' = ts
  BY <1>2 DEF Receive, Closes
<1>4. PICK e \in Ending(table, ts) : e.f_pcap = h
  BY <1>3 DEF DoCleanup, Closes
<1>5. PICK i \in DOMAIN table : e = table[i] /\ Expired(table[i], ts)
  BY <1>4 DEF Ending
<1>6. i \in Used
  BY <1>5 DEF Expired, Used
<1>7. table[i].last_packet_time = now
  BY <1>4, <1>5, <1>6 DEF HeardInv
<1>8. QED
  BY <1>3, <1>4, <1>5, <1>6, <1>7 DEF Expired

(* A file that media has just been written to is not closed for idleness    *)
(* within 300 seconds of that packet.                                       *)
THEOREM MediaProlongsTheCall == Spec => MediaKeepsTheCallOpen
<1> DEFINE Inv == FilesInv /\ HeardInv
<1>1. Init => Inv
  BY InitFiles, InitHeard
<1>2. Inv /\ [Next]_vars => Inv'
  BY NextFiles, NextHeard
<1>3. Inv /\ [Next]_vars => [NotIdle("rtp")]_vars
  BY NotIdleStep DEF NotIdle
<1> HIDE DEF Inv
<1>4. QED
  BY <1>1, <1>2, <1>3, PTL DEF Spec, MediaKeepsTheCallOpen

-----------------------------------------------------------------------------
(* The end of the capture.  Every time in the table is the timestamp of a   *)
(* packet, so that do_cleanup(INT32_MAX) finds every call idle unless the   *)
(* capture is of the last five minutes before INT32_MAX.                    *)
TimesInv ==
  /\ pc = "dispatch" => now \in Times
  /\ \A i \in Used : /\ table[i].first_packet_time \in Times
                     /\ table[i].last_packet_time \in Times

LEMMA InitTimes == Init => TimesInv
BY DEF Init, TimesInv, Used

LEMMA NextTimes == FilesInv /\ TimesInv /\ [Next]_vars => TimesInv'
<1> SUFFICES ASSUME FilesInv, TimesInv, [Next]_vars PROVE TimesInv'
  OBVIOUS
<1>1. ASSUME NEW c \in Int, DoCleanup(c) \/ UNCHANGED table
      PROVE  \A i \in Used' : /\ table'[i].first_packet_time \in Times
                              /\ table'[i].last_packet_time \in Times
  <2>1. CASE DoCleanup(c)
    BY <2>1, CleanupUsed DEF FilesInv, TimesInv
  <2>2. CASE UNCHANGED table
    BY <2>2 DEF TimesInv, Used
  <2>3. QED
    BY <1>1, <2>1, <2>2
<1>2. ASSUME NEW ts \in Times, NEW p \in Datagrams \cup Fragments \cup {NULL}, Receive(ts, p)
      PROVE  TimesInv'
  BY <1>1, <1>2, TimesAssumption DEF Receive, TimesInv
<1>3. CASE Dispatch
  <2>1. pc' # "dispatch"
    BY <1>3 DEF Dispatch, Handled, FragmentOfNoFile, FragmentDumped, FragmentToClosedDumper,
                MediaToDestination, MediaFromSource, SipOfKnownCall, SipOfUnwantedMethod,
                SipOfSkippedCall, SipOfRecordedCall, SipOfCallNotOpened, Ignored
  <2>2. now \in Times
    BY <1>3, DispatchSlots DEF TimesInv
  <2>3. CASE SlotsKept
    BY <2>1, <2>2, <2>3 DEF SlotsKept, TimesInv
  <2>4. CASE \E f : SlotAdded(f)
    BY <2>1, <2>2, <2>4 DEF SlotAdded, TimesInv
  <2>5. QED
    BY <1>3, <2>3, <2>4, DispatchSlots
<1>4. CASE EndOfCapture \/ Signal
  BY <1>1, <1>4, TimesAssumption DEF EndOfCapture, Signal, TimesInv
<1>5. CASE UNCHANGED vars
  BY <1>5 DEF vars, TimesInv, Used
<1>6. QED
  BY <1>2, <1>3, <1>4, <1>5 DEF Next, Stopped

LEMMA NextEnd ==
  ASSUME \A t \in Times : Int32Max - t > IdleLimit
  PROVE  FilesInv /\ TimesInv /\ EndClosesEveryFile /\ [Next]_vars => EndClosesEveryFile'
<1> SUFFICES ASSUME FilesInv, TimesInv, EndClosesEveryFile, [Next]_vars, pc' = "ended"
             PROVE  \A h \in Handles : dumpers'[h] = NULL
  BY DEF EndClosesEveryFile
<1>1. CASE EndOfCapture
  <2>1. DoCleanup(Int32Max)
    BY <1>1 DEF EndOfCapture
  <2>2. \A i \in Used : Expired(table[i], Int32Max)
    BY DEF TimesInv, Expired, Used
  <2>3. Used' = {}
    BY <2>1, <2>2, CleanupUsed, TimesAssumption DEF FilesInv
  <2>4. DumperOwnership'
    BY NextFiles DEF FilesInv
  <2>5. QED
    BY <2>3, <2>4 DEF DumperOwnership
<1>2. CASE UNCHANGED vars
  BY <1>2 DEF vars, EndClosesEveryFile
<1>3. EndOfCapture \/ UNCHANGED vars
  BY DEF Next, Receive, Dispatch, Handled, FragmentOfNoFile, FragmentDumped,
         FragmentToClosedDumper, MediaToDestination, MediaFromSource, SipOfKnownCall,
         SipOfUnwantedMethod, SipOfSkippedCall, SipOfRecordedCall, SipOfCallNotOpened,
         Ignored, Signal, Stopped
<1>4. QED
  BY <1>1, <1>2, <1>3

(* At the end of the capture no file is left open, if the capture is not of *)
(* the last five minutes before INT32_MAX.                                  *)
THEOREM EveryFileIsClosedAtTheEnd ==
  ASSUME \A t \in Times : Int32Max - t > IdleLimit
  PROVE  Spec => []EndClosesEveryFile
<1> DEFINE Inv == FilesInv /\ TimesInv /\ EndClosesEveryFile
<1>1. Init => Inv
  BY InitFiles, InitTimes DEF Init, EndClosesEveryFile
<1>2. Inv /\ [Next]_vars => Inv'
  BY NextFiles, NextTimes, NextEnd
<1>3. Inv => EndClosesEveryFile
  OBVIOUS
<1> HIDE DEF Inv
<1>4. QED
  BY <1>1, <1>2, <1>3, PTL DEF Spec

-----------------------------------------------------------------------------
(* -R t38.  do_cleanup decides by had_t38 of the slot; that a T.38 offer of *)
(* the call has been seen is recorded with its file.  The two agree unless, *)
(* at -v 2 and above, parse_sdp returns early on an SDP without a port.     *)
FaxInv ==
  T38Only => \A i \in Used : LET h == table[i].f_pcap
                             IN  h # NULL => dumpers[h].t38 = table[i].had_t38

LEMMA InitFax == Init => FaxInv
BY DEF Init, FaxInv, Used

LEMMA SignalledFax ==
  ASSUME Verbosity < 2, T38Only, NEW e \in CallElement, NEW m \in Sip
  PROVE  Signalled(e, m).had_t38 = (e.had_t38 \/ CarriesT38(m))
<1> DEFINE b == [e EXCEPT !.had_bye = @ \/ m.method = "BYE"]
<1>1. b \in CallElement /\ b.had_t38 = e.had_t38
  BY DEF CallElement
<1> HIDE DEF b
<1>2. CASE m.sdp = NULL
  <2>1. Signalled(e, m) = b /\ CarriesT38(m) = FALSE
    BY <1>2 DEF Signalled, CarriesT38, b
  <2>2. e.had_t38 \in BOOLEAN
    BY DEF CallElement
  <2>3. QED
    BY <1>1, <2>1, <2>2
<1>3. CASE m.sdp # NULL
  <2> DEFINE sdp == m.sdp
             f   == IF sdp.at = NULL THEN b ELSE AddIpPort(b, sdp.at)
             g   == [f EXCEPT !.rtpmap_event = IF sdp.event # 0 THEN sdp.event ELSE @,
                              !.had_t38      = @ \/ (T38Only /\ sdp.t38)]
  <2>1. sdp \in Sdp /\ sdp.t38 \in BOOLEAN
    BY <1>3 DEF Sip, Sdp
  <2>2. ~(Verbosity >= 2)
    BY OptionsAssumption
  <2>3. Signalled(e, m) = g
    BY <1>3, <2>2 DEF Signalled, ParseSdp, b
  <2>4. "had_t38" \in DOMAIN f /\ f.had_t38 = e.had_t38
    BY <1>1 DEF AddIpPort, CallElement
  <2> HIDE DEF f
  <2>5. g.had_t38 = (f.had_t38 \/ (T38Only /\ sdp.t38))
    BY <2>4
  <2>6. QED
    BY <1>3, <2>1, <2>3, <2>4, <2>5 DEF CarriesT38
<1>4. QED
  BY <1>2, <1>3

(* The dumpers after a message, with what is known of T.38.                 *)
LEMMA FiledFax ==
  ASSUME FilesInv, IsSip, NEW i, NEW e, NEW ds, NEW effects, Filing(i, e, ds, effects)
  PROVE  /\ e.f_pcap # NULL =>
              dumpers'[e.f_pcap].t38 = (ds[e.f_pcap].t38 \/ CarriesT38(pkt.sip))
         /\ \A h \in Handles : h # e.f_pcap => dumpers'[h] = dumpers[h]
<1> USE DEF Filing
<1> DEFINE h == e.f_pcap
<1>1. \A g \in Handles : g # h => ds[g] = dumpers[g]
  BY DEF KnownSlot, NewSlot
<1>2. dumpers' = IF h # NULL /\ CarriesT38(pkt.sip) THEN [ds EXCEPT ![h].t38 = TRUE] ELSE ds
  BY DEF FileMessage
<1>3. h # NULL => h \in Handles /\ ds[h] \in File /\ ds[h].t38 \in BOOLEAN
  BY DEF CallElement, File
<1>4. CASE h # NULL /\ CarriesT38(pkt.sip)
  <2>1. dumpers'[h] = [ds[h] EXCEPT !.t38 = TRUE]
    BY <1>2, <1>3, <1>4
  <2>2. dumpers'[h].t38 = TRUE
    BY <1>3, <1>4, <2>1 DEF File
  <2>3. QED
    BY <1>1, <1>2, <1>4, <2>2
<1>5. CASE ~(h # NULL /\ CarriesT38(pkt.sip))
  <2>1. CarriesT38(pkt.sip) \in BOOLEAN
    BY SipInHand DEF FilesInv, CarriesT38, Sip, Sdp
  <2>2. QED
    BY <1>1, <1>2, <1>3, <1>5, <2>1
<1>6. QED
  BY <1>4, <1>5

LEMMA SipFax ==
  ASSUME Verbosity < 2, FilesInv, FaxInv, SipFiled
  PROVE  FaxInv'
<1>1. IsSip /\ pkt.sip \in Sip
  BY EveryMessageIsFiled, SipInHand DEF FilesInv
<1>2. PICK i, e, ds, effects : Filing(i, e, ds, effects)
  BY EveryMessageIsFiled
<1>3. /\ Used' = Used \cup {i}
      /\ \A j \in Used \ {i} : /\ table'[j] = table[j]
                               /\ table[j].f_pcap # NULL => table[j].f_pcap # e.f_pcap
      /\ table'[i] = Signalled(e, pkt.sip)
      /\ table'[i].f_pcap = e.f_pcap
  BY <1>1, <1>2, FiledSlots
<1>4. SUFFICES ASSUME T38Only, NEW j \in Used', table'[j].f_pcap # NULL
               PROVE  dumpers'[table'[j].f_pcap].t38 = table'[j].had_t38
  BY DEF FaxInv
<1>5. CASE j = i
  <2>1. e.f_pcap # NULL => ds[e.f_pcap].t38 = e.had_t38
    <3>1. CASE KnownSlot(i, e, ds)
      BY <1>4, <3>1 DEF KnownSlot, FaxInv
    <3>2. CASE NewSlot(i, e, ds)
      <4>1. \A f : NewElement(pkt.sip.callid, now, f).had_t38 = FALSE
        BY DEF NewElement
      <4>2. e.had_t38 = FALSE
        BY <3>2, <4>1 DEF NewSlot
      <4>3. e.f_pcap # NULL => ds[e.f_pcap].t38 = FALSE
        BY <3>2 DEF NewSlot
      <4>4. QED
        BY <4>2, <4>3
    <3>3. QED
      BY <1>2, <3>1, <3>2 DEF Filing
  <2>2. dumpers'[e.f_pcap].t38 = (ds[e.f_pcap].t38 \/ CarriesT38(pkt.sip))
    BY <1>1, <1>2, <1>3, <1>4, <1>5, FiledFax
  <2>3. Signalled(e, pkt.sip).had_t38 = (e.had_t38 \/ CarriesT38(pkt.sip))
    BY <1>1, <1>2, <1>4, SignalledFax DEF Filing
  <2>4. QED
    BY <1>3, <1>4, <1>5, <2>1, <2>2, <2>3
<1>6. CASE j # i
  <2>1. j \in Used /\ table'[j] = table[j] /\ table[j].f_pcap # e.f_pcap
    <3>1. j \in Used \ {i}
      BY <1>3, <1>4, <1>6
    <3>2. table'[j] = table[j]
      BY <1>3, <3>1
    <3>3. table[j].f_pcap # NULL
      BY <1>4, <3>2
    <3>4. QED
      BY <1>3, <3>1, <3>2, <3>3
  <2>2. table[j].f_pcap \in Handles
    BY <1>4, <2>1, SlotOfFile DEF Used
  <2>3. dumpers'[table[j].f_pcap] = dumpers[table[j].f_pcap]
    BY <1>1, <1>2, <2>1, <2>2, FiledFax
  <2>4. QED
    BY <1>4, <2>1, <2>3 DEF FaxInv
<1>7. QED
  BY <1>5, <1>6

LEMMA MediaFax ==
  ASSUME FilesInv, FaxInv, pkt \in Datagrams, NEW at, Media(at), UNCHANGED dumpers
  PROVE  FaxInv'
<1>1. PICK i \in Used : \E k \in DOMAIN table[i].flows : FoundAt(at, i, k)
  BY MediaIsFound
<1>2. PICK k \in DOMAIN table[i].flows : FoundAt(at, i, k)
  BY <1>1
<1>3. i \in DOMAIN table /\ table[i] \in CallElement
  BY DEF Used, FilesInv, TypeOK
<1> DEFINE s == HeardFrom(table[i], k)
<1>4. s.is_used = table[i].is_used /\ s.f_pcap = table[i].f_pcap
  BY <1>3, HeardFromType DEF FilesInv
<1>5. s.had_t38 = table[i].had_t38
  BY <1>3 DEF HeardFrom, CallElement
<1> HIDE DEF s
<1>6. /\ DOMAIN table' = DOMAIN table
      /\ \A j \in DOMAIN table : table'[j] = IF j = i THEN s ELSE table[j]
  BY <1>2, <1>3 DEF FoundAt, Put, s
<1>7. Used' = Used
  BY <1>4, <1>6 DEF Used
<1>8. QED
  BY <1>4, <1>5, <1>6, <1>7 DEF FaxInv, Used

LEMMA CleanupFax ==
  ASSUME FilesInv, FaxInv, NEW c \in Int, DoCleanup(c)
  PROVE  FaxInv'
<1>1. Used' \subseteq Used /\ \A i \in Used' : table'[i] = table[i]
  BY CleanupUsed DEF FilesInv
<1>2. \A h \in Handles : dumpers'[h] \in {NULL, dumpers[h]}
  BY DEF DoCleanup
<1>3. DumperOwnership'
  BY CleanupFiles
<1>4. \A i \in Used' : table[i].f_pcap # NULL =>
         table[i].f_pcap \in Handles /\ dumpers'[table[i].f_pcap] # NULL
  BY <1>1, <1>3, SlotOfFile DEF DumperOwnership, Used
<1>5. QED
  BY <1>1, <1>2, <1>4 DEF FaxInv

LEMMA NextFax ==
  ASSUME Verbosity < 2
  PROVE  FilesInv /\ FaxInv /\ [Next]_vars => FaxInv'
<1> SUFFICES ASSUME FilesInv, FaxInv, [Next]_vars PROVE FaxInv'
  OBVIOUS
<1>1. ASSUME UNCHANGED <<table, dumpers>> PROVE FaxInv'
  BY <1>1 DEF FaxInv, Used
<1>2. ASSUME NEW ts \in Times, NEW p \in Datagrams \cup Fragments \cup {NULL}, Receive(ts, p)
      PROVE  FaxInv'
  BY <1>1, <1>2, CleanupFax, TimesAssumption DEF Receive
<1>3. CASE FragmentOfNoFile \/ FragmentDumped \/ FragmentToClosedDumper \/ Ignored
  BY <1>1, <1>3 DEF FragmentOfNoFile, FragmentDumped, FragmentToClosedDumper, Ignored
<1>4. CASE MediaToDestination \/ MediaFromSource
  BY <1>4, MediaFax DEF MediaToDestination, MediaFromSource
<1>5. CASE SipFiled
  BY <1>5, SipFax
<1>6. CASE EndOfCapture \/ Signal
  BY <1>6, CleanupFax, TimesAssumption DEF EndOfCapture, Signal
<1>7. CASE UNCHANGED vars
  BY <1>1, <1>7 DEF vars
<1>8. QED
  BY <1>2, <1>3, <1>4, <1>5, <1>6, <1>7 DEF Next, Dispatch, Stopped, SipFiled

(* How a file is ended by the clean-up that closes it.                      *)
LEMMA CleanupEnding ==
  ASSUME FilesInv, FaxInv, NEW c \in Int, DoCleanup(c), NEW h \in Handles, Closes(h)
  PROVE  Effect(IF T38Only /\ ~dumpers[h].t38 THEN "unlink" ELSE "close trigger",
                dumpers[h].call, h) \in out'
<1>1. PICK e \in Ending(table, c) : e.f_pcap = h
  BY DEF DoCleanup, Closes
<1>2. PICK i \in DOMAIN table : e = table[i] /\ table[i].f_pcap # NULL
  BY <1>1 DEF Ending
<1>3. i \in Used /\ dumpers[h].call = e.call_id
  BY <1>1, <1>2, SlotOfFile
<1>4. T38Only => dumpers[h].t38 = e.had_t38
  BY <1>1, <1>2, <1>3 DEF FaxInv
<1>5. HowItEnds(e) = IF T38Only /\ ~dumpers[h].t38 THEN "unlink" ELSE "close trigger"
  BY <1>4 DEF HowItEnds
<1>6. Effect(HowItEnds(e), e.call_id, e.f_pcap) \in out'
  BY <1>1 DEF DoCleanup
<1>7. QED
  BY <1>1, <1>3, <1>5, <1>6

LEMMA EndingStep ==
  ASSUME FilesInv, FaxInv, [Next]_vars, NEW h \in Handles, Closes(h)
  PROVE  Effect(IF T38Only /\ ~dumpers[h].t38 THEN "unlink" ELSE "close trigger",
                dumpers[h].call, h) \in out'
<1>1. ~Dispatch
  BY DispatchCloses DEF Closes
<1>2. ASSUME NEW ts \in Times, NEW p \in Datagrams \cup Fragments \cup {NULL}, Receive(ts, p)
      PROVE  \E c \in Int : DoCleanup(c)
  BY <1>2, TimesAssumption DEF Receive, Closes
<1>3. ASSUME EndOfCapture \/ Signal
      PROVE  \E c \in Int : DoCleanup(c)
  BY <1>3, TimesAssumption DEF EndOfCapture, Signal
<1>4. ~UNCHANGED vars
  BY DEF vars, Closes
<1>5. PICK c \in Int : DoCleanup(c)
  BY <1>1, <1>2, <1>3, <1>4 DEF Next, Stopped
<1>6. QED
  BY <1>5, CleanupEnding

(* Below -v 2, a file that is closed goes to the close trigger or, under    *)
(* -R t38, is erased, as a T.38 offer of its own call has been seen or not. *)
THEOREM FilesEndAsTheirCallWent ==
  ASSUME Verbosity < 2
  PROVE  Spec => EndingFitsTheCall
<1> DEFINE Inv == FilesInv /\ FaxInv
<1>1. Init => Inv
  BY InitFiles, InitFax
<1>2. Inv /\ [Next]_vars => Inv'
  BY NextFiles, NextFax
<1>3. Inv /\ [Next]_vars =>
        [\A h \in Handles : Closes(h) =>
           Effect(IF T38Only /\ ~dumpers[h].t38 THEN "unlink" ELSE "close trigger",
                  dumpers[h].call, h) \in out']_vars
  BY EndingStep
<1> HIDE DEF Inv
<1>4. QED
  BY <1>1, <1>2, <1>3, PTL DEF Spec, EndingFitsTheCall

-----------------------------------------------------------------------------
(* The size of the vector.  It only grows when every slot is in use, and    *)
(* then the slots hold as many different calls as there are slots, the new  *)
(* one included.                                                            *)
LiveCallsAreCalls == \A i \in Used : table[i].call_id \in Keys

LEMMA KeysAreFinite ==
  ASSUME IsFiniteSet(CallIds)
  PROVE  IsFiniteSet(Keys)
<1> DEFINE g == [id \in CallIds |-> Key(id)]
<1>1. g \in Surjection(CallIds, Keys)
  BY DEF Keys, Surjection
<1>2. QED
  BY <1>1, FS_Surjection

LEMMA FiledBound ==
  ASSUME IsFiniteSet(CallIds), FilesInv, LiveCallsAreCalls, TableIsBounded, SipFiled
  PROVE  LiveCallsAreCalls' /\ TableIsBounded'
<1>1. IsSip /\ Key(pkt.sip.callid) \in Keys
  BY EveryMessageIsFiled, SipInHand DEF FilesInv
<1>2. PICK i, e, ds, effects : Filing(i, e, ds, effects)
  BY EveryMessageIsFiled
<1>3. /\ table' \in Seq(CallElement)
      /\ DOMAIN table' = DOMAIN table \cup {i}
      /\ Used' = Used \cup {i}
      /\ \A j \in Used \ {i} : table'[j] = table[j]
      /\ table'[i] = Signalled(e, pkt.sip)
  BY <1>1, <1>2, FiledSlots
<1>4. e \in CallElement /\ Len(e.flows) <= MaxIpPerCall /\ e.call_id \in Keys
  BY <1>1, <1>2 DEF Filing
<1>5. table'[i].call_id \in Keys
  BY <1>1, <1>3, <1>4, SignalledType, SipInHand DEF FilesInv
<1>6. LiveCallsAreCalls'
  BY <1>3, <1>5 DEF LiveCallsAreCalls
<1>7. table \in Seq(CallElement) /\ i \in 1 .. Len(table) + 1
  BY <1>2 DEF Filing, FilesInv, TypeOK
<1>8. CASE i \in DOMAIN table
  <2>1. Len(table') = Len(table)
    BY <1>3, <1>7, <1>8
  <2>2. QED
    BY <1>6, <2>1 DEF TableIsBounded
<1>9. CASE i \notin DOMAIN table
  <2>1. i = Len(table) + 1 /\ Len(table') = i /\ DOMAIN table' = 1 .. i
    BY <1>3, <1>7, <1>9
  <2>2. NewSlot(i, e, ds)
    BY <1>2, <1>9 DEF Filing, KnownSlot, Used
  <2>3. \A j \in DOMAIN table : table[j].is_used
    BY <2>1, <2>2, <1>7 DEF NewSlot, SlotForAdd
  <2>4. Used' = 1 .. i
    BY <1>3, <2>1, <2>3 DEF Used
  <2>5. CallsAreUnique'
    <3>1. Next
      BY DEF SipFiled, Next, Dispatch
    <3>2. QED
      BY <3>1, NextFiles DEF FilesInv
  <2> DEFINE f == [j \in 1 .. i |-> table'[j].call_id]
  <2>6. f \in [1 .. i -> Keys]
    BY <1>6, <2>4 DEF LiveCallsAreCalls
  <2>7. f \in Injection(1 .. i, Keys)
    <3>1. \A j, k \in 1 .. i : table'[j].call_id = table'[k].call_id => j = k
      BY <2>4, <2>5 DEF CallsAreUnique
    <3>2. \A j, k \in 1 .. i : f[j] = f[k] => j = k
      BY <3>1
    <3> HIDE DEF f
    <3>3. QED
      BY <2>6, <3>2 DEF Injection, IsInjective
  <2>8. IsFiniteSet(Keys)
    BY KeysAreFinite
  <2>9. Cardinality(1 .. i) <= Cardinality(Keys)
    BY <2>7, <2>8, FS_Injection
  <2>10. Cardinality(1 .. i) = i
    BY <2>1, <1>7, FS_Interval
  <2>11. QED
    BY <1>6, <2>1, <2>9, <2>10 DEF TableIsBounded
<1>10. QED
  BY <1>8, <1>9

LEMMA NextBound ==
  ASSUME IsFiniteSet(CallIds)
  PROVE  FilesInv /\ LiveCallsAreCalls /\ TableIsBounded /\ [Next]_vars =>
           LiveCallsAreCalls' /\ TableIsBounded'
<1> SUFFICES ASSUME FilesInv, LiveCallsAreCalls, TableIsBounded, [Next]_vars
             PROVE  LiveCallsAreCalls' /\ TableIsBounded'
  OBVIOUS
<1>1. ASSUME UNCHANGED table PROVE LiveCallsAreCalls' /\ TableIsBounded'
  BY <1>1 DEF LiveCallsAreCalls, TableIsBounded, Used
<1>2. ASSUME NEW c \in Int, DoCleanup(c) PROVE LiveCallsAreCalls' /\ TableIsBounded'
  <2>1. Len(table') = Len(table)
    BY <1>2, CleanupType DEF DoCleanup, FilesInv, TypeOK
  <2>2. Used' \subseteq Used /\ \A i \in Used' : table'[i] = table[i]
    BY <1>2, CleanupUsed DEF FilesInv
  <2>3. QED
    BY <2>1, <2>2 DEF LiveCallsAreCalls, TableIsBounded
<1>3. ASSUME pkt \in Datagrams, NEW at, Media(at), UNCHANGED <<ipfrags, dumpers, frag_owner>>
      PROVE  LiveCallsAreCalls' /\ TableIsBounded'
  <2>1. DOMAIN table' = DOMAIN table
    BY <1>3 DEF Media, Put
  <2>2. table \in Seq(CallElement) /\ table' \in Seq(CallElement)
    BY <1>3, MediaFiles DEF FilesInv, TypeOK, TableInv
  <2>3. Len(table') = Len(table)
    BY <2>1, <2>2
  <2>4. SlotsKept
    BY <1>3, MediaFiles
  <2>5. QED
    BY <2>3, <2>4 DEF LiveCallsAreCalls, TableIsBounded, SlotsKept
<1>4. ASSUME NEW ts \in Times, NEW p \in Datagrams \cup Fragments \cup {NULL}, Receive(ts, p)
      PROVE  LiveCallsAreCalls' /\ TableIsBounded'
  BY <1>1, <1>2, <1>4, TimesAssumption DEF Receive
<1>5. CASE FragmentOfNoFile \/ FragmentDumped \/ FragmentToClosedDumper \/ Ignored
  BY <1>1, <1>5 DEF FragmentOfNoFile, FragmentDumped, FragmentToClosedDumper, Ignored
<1>6. CASE MediaToDestination
  BY <1>3, <1>6 DEF MediaToDestination
<1>7. CASE MediaFromSource
  BY <1>3, <1>7 DEF MediaFromSource
<1>8. CASE SipFiled
  BY <1>8, FiledBound
<1>9. CASE EndOfCapture \/ Signal
  BY <1>2, <1>9, TimesAssumption DEF EndOfCapture, Signal
<1>10. CASE UNCHANGED vars
  BY <1>1, <1>10 DEF vars
<1>11. QED
  BY <1>4, <1>5, <1>6, <1>7, <1>8, <1>9, <1>10 DEF Next, Dispatch, Stopped, SipFiled

(* The vector never has more slots than there are different calls, so that  *)
(* reuse keeps up with whatever order calls come and go in.                 *)
THEOREM TableNeverOutgrowsTheCalls ==
  ASSUME IsFiniteSet(CallIds)
  PROVE  Spec => []TableIsBounded
<1> DEFINE Inv == FilesInv /\ LiveCallsAreCalls /\ TableIsBounded
<1>1. Init => Inv
  <2> SUFFICES ASSUME Init PROVE Inv
    OBVIOUS
  <2>1. Used = {} /\ Len(table) = 0
    BY DEF Init, Used
  <2>2. IsFiniteSet(Keys)
    BY KeysAreFinite
  <2>3. Cardinality(Keys) \in Nat
    BY <2>2, FS_CardinalityType
  <2>4. QED
    BY <2>1, <2>3, InitFiles DEF LiveCallsAreCalls, TableIsBounded
<1>2. Inv /\ [Next]_vars => Inv'
  BY NextFiles, NextBound
<1>3. Inv => TableIsBounded
  OBVIOUS
<1> HIDE DEF Inv
<1>4. QED
  BY <1>1, <1>2, <1>3, PTL DEF Spec
=============================================================================
