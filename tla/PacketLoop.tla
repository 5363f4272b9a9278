----------------------------- MODULE PacketLoop -----------------------------
(****************************************************************************)
(* The main loop of pcapsipdump (src/pcapsipdump.cpp, main, from the first  *)
(* pcap_next_ex to the return): one process takes packets from libpcap one  *)
(* at a time, ends the calls that have run out every 15 seconds of capture  *)
(* time, and files each packet with the call it belongs to: the later       *)
(* fragments of a datagram by IP id, media by address, signalling by        *)
(* Call-ID.  SIGINT and SIGTERM can stop it between any two steps.          *)
(*                                                                          *)
(* A packet is what the decoding of lines 480-578 and 611-633 makes of it:  *)
(*   Datagram  [src, dst, ssrc, byte1, sip]   a whole datagram or the first *)
(*             fragment of one; sip is NULL when the payload is not SIP,    *)
(*             or [callid, method, number, sdp, frag]                       *)
(*   Fragment  [id, last]                     any later fragment            *)
(*   NULL      no IP, or neither a fragment nor UDP: it is passed over, but *)
(*             may have been what a clean-up was waiting for                *)
(* method is "" in a response; number tells whether -n lets the packet      *)
(* through; sdp is NULL or [at, event, t38], with at NULL when no port can  *)
(* be read from it (a missing address is taken for 255.255.255.255); frag   *)
(* is the IP id tuple of a first fragment or NULL.                          *)
(****************************************************************************)
EXTENDS CallTable

CONSTANTS
  Times,         \* the capture timestamps, in whole seconds
  Tuples,        \* the (saddr, daddr, id) of fragmented datagrams
  Datagrams,
  Fragments,
  MethodFilter,  \* the methods -m matches
  RtpSave,       \* opt_rtpsave: what -R keeps of the media
  T38Only,       \* opt_t38only and ct->erase_non_t38 (-R t38)
  SkipN,         \* opt_call_skip_n (-l)
  Verbosity,     \* -v
  OpenCanFail,   \* whether pcap_dump_open can fail with descriptors to spare
  Int32Max       \* INT32_MAX, the time do_cleanup is given at end of file

ASSUME TimesAssumption == Times \subseteq Nat /\ Int32Max \in Nat

ASSUME OptionsAssumption ==
  /\ RtpSave \in {"none", "rtp", "rtp+rtcp", "rtpevent"}
  /\ T38Only \in BOOLEAN
  /\ OpenCanFail \in BOOLEAN
  /\ SkipN \in Nat \ {0}
  /\ Verbosity \in Int

Sdp == [at : MediaAddrs \cup {NULL}, event : Int, t38 : BOOLEAN]

Sip == [callid : CallIds \cup {NULL},
        method : STRING,
        number : BOOLEAN,
        sdp    : Sdp \cup {NULL},
        frag   : Tuples \cup {NULL}]

Datagram == [src   : MediaAddrs,
             dst   : MediaAddrs,
             ssrc  : Nat,
             byte1 : Int,
             sip   : Sip \cup {NULL}]

Fragment == [id : Tuples, last : BOOLEAN]

(* An open file: the call it was opened for, and whether a T.38 offer of    *)
(* that call has been seen since.                                           *)
File == [call : Keys, t38 : BOOLEAN]

ASSUME PacketsAssumption ==
  /\ Datagrams \subseteq Datagram
  /\ Fragments \subseteq Fragment
  /\ NULL \notin Datagram \cup Fragment \cup Sip \cup Sdp \cup Tuples
            \cup Keys \cup File
  /\ \A d \in Datagrams : d \notin Fragments

VARIABLES
  table,          \* ct->table
  ipfrags,        \* ct->ipfrags
  dumpers,        \* the open dumpers, by address; NULL once closed
  last_cleanup,
  call_skip_cnt,
  now,            \* ts.tv_sec of the packet in hand
  pkt,            \* the packet in hand
  pc,             \* where the process is
  out,            \* what the last step did to files and which triggers it fired
  frag_owner      \* whose recording a fragment id belongs to, while it lasts

loop == <<last_cleanup, call_skip_cnt, now>>
vars == <<table, ipfrags, dumpers, last_cleanup, call_skip_cnt, now, pkt, pc,
          out, frag_owner>>

Effects == {"open trigger", "open", "close trigger", "unlink",
            "sip", "rtp", "fragment"}

Effect(what, key, f) == [what |-> what, call |-> key, file |-> f]

Effectful == [what : Effects, call : Keys, file : Handles \cup {NULL}]

Init ==
  /\ table = << >>
  /\ ipfrags = << >>
  /\ dumpers = [h \in Handles |-> NULL]
  /\ last_cleanup = 0
  /\ call_skip_cnt = 1
  /\ now = 0
  /\ pkt = NULL
  /\ pc = "next"
  /\ out = {}
  /\ frag_owner = [f \in Tuples |-> NULL]

-----------------------------------------------------------------------------
(* One call of do_cleanup.  Dumpers are closed and their files erased or    *)
(* handed to the close trigger; ipfrags is left as it is.                   *)
HowItEnds(e) == IF T38Only /\ ~e.had_t38 THEN "unlink" ELSE "close trigger"

DoCleanup(currtime) ==
  LET ending == Ending(table, currtime)
  IN  /\ table' = Cleanup(table, currtime)
      /\ dumpers' = [h \in Handles |->
                       IF \E e \in ending : e.f_pcap = h THEN NULL
                                                         ELSE dumpers[h]]
      /\ out' = {Effect(HowItEnds(e), e.call_id, e.f_pcap) : e \in ending}
      /\ frag_owner' = [f \in Tuples |->
                          IF \E e \in ending : e.call_id = frag_owner[f]
                          THEN NULL ELSE frag_owner[f]]
      /\ UNCHANGED ipfrags

(* tv_sec - last_cleanup > 15 in unsigned long: true also when the clock of *)
(* the capture has stepped back.                                            *)
CleanupDueSigned(ts) ==  \* mutant: last_cleanup a time_t
  ts - last_cleanup > 15

CleanupDue(ts) == ts < last_cleanup \/ ts - last_cleanup > 15

Receive(ts, p) ==
  /\ pc = "next"
  /\ IF CleanupDue(ts)
     THEN DoCleanup(ts) /\ last_cleanup' = ts
     ELSE out' = {} /\ UNCHANGED <<table, ipfrags, dumpers, last_cleanup, frag_owner>>
  /\ now' = ts
  /\ pkt' = p
  /\ pc' = IF p = NULL THEN "next" ELSE "dispatch"
  /\ UNCHANGED call_skip_cnt

(* The handling of the packet in hand is over.                              *)
Handled == pc = "dispatch" /\ pc' = "next" /\ pkt' = NULL

-----------------------------------------------------------------------------
(* Fragments after the first: nothing is known of the id, or its entry is   *)
(* null.                                                                    *)
FragmentOfNoFile ==
  /\ Handled
  /\ pkt \in Fragments
  /\ pkt.id \in DOMAIN ipfrags => ipfrags[pkt.id] = NULL
  /\ ipfrags' = GetIpFrag(ipfrags, pkt.id)
  /\ out' = {}
  /\ UNCHANGED <<table, dumpers, frag_owner, loop>>

FragmentHasDumper ==
  pkt \in Fragments /\ pkt.id \in DOMAIN ipfrags /\ ipfrags[pkt.id] # NULL

ForgetIfLast ==
  IF pkt.last
  THEN /\ ipfrags' = DeleteIpFrag(ipfrags, pkt.id)
       /\ frag_owner' = [frag_owner EXCEPT ![pkt.id] = NULL]
  ELSE UNCHANGED <<ipfrags, frag_owner>>

FragmentDumped ==
  /\ Handled
  /\ FragmentHasDumper
  /\ LET h == ipfrags[pkt.id]
     IN  /\ dumpers[h] # NULL
         /\ out' = {Effect("fragment", dumpers[h].call, h)}
  /\ ForgetIfLast
  /\ UNCHANGED <<table, dumpers, loop>>

(* The dumper has been closed since: pcap_dump is handed freed memory.  The *)
(* process dies, or the write goes nowhere and it carries on.               *)
FragmentToClosedDumper ==
  /\ pc = "dispatch"
  /\ FragmentHasDumper
  /\ dumpers[ipfrags[pkt.id]] = NULL
  /\ out' = {}
  /\ pkt' = NULL
  /\ \/ pc' = "next" /\ ForgetIfLast
     \/ pc' = "crashed" /\ UNCHANGED <<ipfrags, frag_owner>>
  /\ UNCHANGED <<table, dumpers, loop>>

-----------------------------------------------------------------------------
(* Media.  With RTCP kept as well, the low bit of the port is masked off    *)
(* before the look-up.                                                      *)
Lookup(at) ==
  IF RtpSave = "rtp+rtcp" THEN [at EXCEPT !.port = @ - (@ % 2)] ELSE at

IsMediaTo(at) == RtpSave # "none" /\ ~NoFlow(table, Lookup(at), pkt.ssrc)

Saves(e) ==
  /\ e.f_pcap # NULL
  /\ RtpSave = "rtpevent" => pkt.byte1 = e.rtpmap_event

(* The flow takes the SSRC of the packet; the packet goes to the file of    *)
(* its call, if there is one and -R wants this payload, and only then does  *)
(* it count as activity of the call.                                        *)
HeardFromNoTime(e, k) ==  \* mutant: last_packet_time not set
  [e EXCEPT !.flows[k].ssrc = pkt.ssrc]

HeardFrom(e, k) ==
  [e EXCEPT !.flows[k].ssrc    = pkt.ssrc,
            !.last_packet_time = IF Saves(e) THEN now ELSE @]

Media(at) ==
  \E i \in DOMAIN table : \E k \in DOMAIN table[i].flows :
    LET e == table[i]
    IN  /\ FindFlow(table, Lookup(at), pkt.ssrc, i, k)
        /\ table' = Put(table, i, HeardFrom(e, k))
        /\ out' = IF Saves(e) THEN {Effect("rtp", e.call_id, e.f_pcap)} ELSE {}

MediaToDestination ==
  /\ Handled
  /\ pkt \in Datagrams
  /\ IsMediaTo(pkt.dst)
  /\ Media(pkt.dst)
  /\ UNCHANGED <<ipfrags, dumpers, frag_owner, loop>>

MediaFromSource ==
  /\ Handled
  /\ pkt \in Datagrams
  /\ ~IsMediaTo(pkt.dst)
  /\ IsMediaTo(pkt.src)
  /\ Media(pkt.src)
  /\ UNCHANGED <<ipfrags, dumpers, frag_owner, loop>>

-----------------------------------------------------------------------------
(* Signalling: what is neither a fragment nor media.                        *)
IsOther == pkt \in Datagrams /\ ~IsMediaTo(pkt.dst) /\ ~IsMediaTo(pkt.src)

IsSip == IsOther /\ pkt.sip # NULL /\ pkt.sip.callid # NULL

ParseSdpForgets(e, sdp) ==  \* mutant: had_t38 set by every SDP
  LET f == IF sdp.at = NULL THEN e ELSE AddIpPort(e, sdp.at)
  IN  [f EXCEPT !.had_t38 = T38Only /\ sdp.t38]

ParseSdp(e, sdp) ==
  IF sdp.at = NULL /\ Verbosity >= 2
  THEN e
  ELSE LET f == IF sdp.at = NULL THEN e ELSE AddIpPort(e, sdp.at)
       IN  [f EXCEPT !.rtpmap_event = IF sdp.event # 0 THEN sdp.event ELSE @,
                     !.had_t38      = @ \/ (T38Only /\ sdp.t38)]

Signalled(e, m) ==
  LET b == [e EXCEPT !.had_bye = @ \/ m.method = "BYE"]
  IN  IF m.sdp = NULL THEN b ELSE ParseSdp(b, m.sdp)

CarriesT38(m) == m.sdp # NULL /\ m.sdp.t38

(* Lines 671-709, for the slot i that holds e, known or just added: BYE,    *)
(* SDP, the dump, and the first fragment's id.  The time of the last packet *)
(* is not touched.                                                          *)
FileMessage(i, e, ds, effects) ==
  LET m == pkt.sip
      h == e.f_pcap
      key == Key(m.callid)
  IN  /\ table' = Put(table, i, Signalled(e, m))
      /\ dumpers' = IF h # NULL /\ CarriesT38(m) THEN [ds EXCEPT ![h].t38 = TRUE] ELSE ds
      /\ out' = effects \cup
                IF h # NULL THEN {Effect("sip", key, h)} ELSE {}
      /\ IF m.frag = NULL
         THEN UNCHANGED <<ipfrags, frag_owner>>
         ELSE /\ ipfrags' = AddIpFrag(ipfrags, m.frag, h)
              /\ frag_owner' = [frag_owner EXCEPT
                                  ![m.frag] = IF h # NULL THEN key ELSE NULL]

SipOfKnownCall ==
  /\ Handled
  /\ IsSip
  /\ \E i \in DOMAIN table :
       /\ FindByCallId(table, pkt.sip.callid, i)
       /\ FileMessage(i, table[i], dumpers, {})
  /\ UNCHANGED loop

IsNewCall ==
  /\ IsSip
  /\ UnknownCallId(table, pkt.sip.callid)
  /\ pkt.sip.number

(* add fires the open trigger before anything is known of a file.           *)
OpenTrigger == Effect("open trigger", Key(pkt.sip.callid), NULL)

AddCall(f, ds, effects) ==
  \E i \in 1 .. Len(table) + 1 :
    /\ SlotForAdd(table, i)
    /\ FileMessage(i, NewElement(pkt.sip.callid, now, f), ds,
                   effects \cup {OpenTrigger})

(* A call whose first packet -m does not match: a response, a BYE, ...      *)
SipOfUnwantedMethod ==
  /\ Handled
  /\ IsNewCall
  /\ pkt.sip.method \notin MethodFilter
  /\ AddCall(NULL, dumpers, {})
  /\ UNCHANGED loop

(* --call_skip_cnt > 0                                                      *)
SkipsPostDecrement == call_skip_cnt > 0  \* mutant: call_skip_cnt-- > 0

Skips == call_skip_cnt - 1 > 0

SipOfSkippedCall ==
  /\ Handled
  /\ IsNewCall
  /\ pkt.sip.method \in MethodFilter
  /\ Skips
  /\ call_skip_cnt' = call_skip_cnt - 1
  /\ AddCall(NULL, dumpers, {})
  /\ UNCHANGED <<last_cleanup, now>>

SipOfRecordedCall ==
  /\ Handled
  /\ IsNewCall
  /\ pkt.sip.method \in MethodFilter
  /\ ~Skips
  /\ call_skip_cnt' = SkipN
  /\ \E h \in Handles :
       LET key == Key(pkt.sip.callid)
       IN  /\ dumpers[h] = NULL
           /\ AddCall(h, [dumpers EXCEPT ![h] = [call |-> key, t38 |-> FALSE]],
                      {Effect("open", key, h)})
  /\ UNCHANGED <<last_cleanup, now>>

(* pcap_dump_open returns NULL, which is not looked at.                     *)
SipOfCallNotOpened ==
  /\ Handled
  /\ IsNewCall
  /\ pkt.sip.method \in MethodFilter
  /\ ~Skips
  /\ OpenCanFail \/ \A h \in Handles : dumpers[h] # NULL
  /\ call_skip_cnt' = SkipN
  /\ AddCall(NULL, dumpers, {})
  /\ UNCHANGED <<last_cleanup, now>>

Ignored ==
  /\ Handled
  /\ IsOther
  /\ IsSip => UnknownCallId(table, pkt.sip.callid) /\ ~pkt.sip.number
  /\ out' = {}
  /\ UNCHANGED <<table, ipfrags, dumpers, frag_owner, loop>>

-----------------------------------------------------------------------------
(* The capture ends; or a signal arrives, and its handler calls do_cleanup  *)
(* with time zero before exit.                                              *)
EndOfCaptureAtItsTime ==  \* mutant: do_cleanup given the last timestamp
  /\ pc = "next"
  /\ DoCleanup(now)
  /\ pc' = "ended"
  /\ UNCHANGED <<pkt, loop>>

EndOfCapture ==
  /\ pc = "next"
  /\ DoCleanup(Int32Max)
  /\ pc' = "ended"
  /\ UNCHANGED <<pkt, loop>>

Signal ==
  /\ pc \in {"next", "dispatch"}
  /\ DoCleanup(0)
  /\ pc' = "signalled"
  /\ UNCHANGED <<pkt, loop>>

Stopped ==
  /\ pc \in {"ended", "signalled", "crashed"}
  /\ UNCHANGED vars

Dispatch ==
  \/ FragmentOfNoFile
  \/ FragmentDumped
  \/ FragmentToClosedDumper
  \/ MediaToDestination
  \/ MediaFromSource
  \/ SipOfKnownCall
  \/ SipOfUnwantedMethod
  \/ SipOfSkippedCall
  \/ SipOfRecordedCall
  \/ SipOfCallNotOpened
  \/ Ignored

Next ==
  \/ \E ts \in Times, p \in Datagrams \cup Fragments \cup {NULL} : Receive(ts, p)
  \/ Dispatch
  \/ EndOfCapture
  \/ Signal
  \/ Stopped

Spec == Init /\ [][Next]_vars
=============================================================================
