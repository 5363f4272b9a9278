------------------------ MODULE PacketLoopProperties ------------------------
(****************************************************************************)
(* What the main loop and the call table must keep true between them.       *)
(****************************************************************************)
EXTENDS PacketLoop

Used == {i \in DOMAIN table : table[i].is_used}

(* Every variable has the values the code's types and bounds allow; no call *)
(* has more than calltable_max_ip_per_call flows, and the -l counter stays  *)
(* between 1 and opt_call_skip_n (calltable.h 36-60, pcapsipdump.cpp 642).  *)
TypeOK ==
  /\ table \in Seq(CallElement)
  /\ \A i \in DOMAIN table : Len(table[i].flows) <= MaxIpPerCall
  /\ DOMAIN ipfrags \subseteq Tuples
  /\ \A f \in DOMAIN ipfrags : ipfrags[f] \in Handles \cup {NULL}
  /\ dumpers \in [Handles -> File \cup {NULL}]
  /\ last_cleanup \in Nat
  /\ call_skip_cnt \in 1 .. SkipN
  /\ now \in Nat
  /\ pkt \in Datagrams \cup Fragments \cup {NULL}
  /\ pc \in {"next", "dispatch", "ended", "signalled", "crashed"}
  /\ out \subseteq Effectful
  /\ frag_owner \in [Tuples -> Keys \cup {NULL}]

-----------------------------------------------------------------------------
(* Invariants.                                                              *)

(* find_by_call_id and add never leave two live slots for one Call-ID, so a *)
(* call has one slot and one file however its packets are spread over the   *)
(* table's reuse of slots.                                                  *)
CallsAreUnique ==
  \A i, j \in Used : table[i].call_id = table[j].call_id => i = j

(* A slot that do_cleanup has freed holds nothing: find_ip_port_ssrc, which *)
(* does not look at is_used, cannot find media in it.                       *)
FreeSlotsAreBlank == \A i \in DOMAIN table \ Used : table[i] = Blank

(* The open dumpers are exactly the f_pcap of the live slots, each of one   *)
(* slot and opened for that slot's call: none is leaked, shared, or still   *)
(* pointed to after pcap_dump_close.                                        *)
DumperOwnership ==
  /\ \A i \in Used :
       LET h == table[i].f_pcap
       IN  h # NULL => dumpers[h] # NULL /\ dumpers[h].call = table[i].call_id
  /\ \A h \in Handles : dumpers[h] # NULL => \E i \in Used : table[i].f_pcap = h
  /\ \A i, j \in Used :
       table[i].f_pcap = table[j].f_pcap /\ table[i].f_pcap # NULL => i = j

(* Whenever a packet is handled, no live call has been without media for    *)
(* more than 300 + 15 seconds or lasted 15 seconds more than -T allows,     *)
(* whatever the timestamps do: a packet older than the last clean-up        *)
(* triggers one, because the difference is taken in unsigned long.          *)
NoCallOutstaysItsLimits ==
  \A i \in Used :
    /\ now - table[i].last_packet_time <= IdleLimit + 15
    /\ now - table[i].first_packet_time <= AbsTimeout + 15

(* The vector never outgrows the number of distinct calls: slots are reused *)
(* before it is extended.                                                   *)
TableIsBounded == Len(table) <= Cardinality(Keys)

(* While the recording that a first fragment went to lasts, its entry in    *)
(* ipfrags is that recording's dumper, even when the IP id has been taken   *)
(* over from another call's datagram.                                       *)
FragmentsFollowTheirCall ==
  \A f \in Tuples : frag_owner[f] # NULL =>
    /\ f \in DOMAIN ipfrags
    /\ ipfrags[f] # NULL
    /\ dumpers[ipfrags[f]] # NULL
    /\ dumpers[ipfrags[f]].call = frag_owner[f]

(* At the end of the capture do_cleanup(INT32_MAX) leaves no file open:     *)
(* "flush / close files" (pcapsipdump.cpp 730).                             *)
EndClosesEveryFile == pc = "ended" => \A h \in Handles : dumpers[h] = NULL

(* A signal's do_cleanup closes what is being recorded, so that the close   *)
(* trigger runs "when a capture file is opened or closed" (man page 126).   *)
SignalClosesEveryFile ==
  pc = "signalled" => \A h \in Handles : dumpers[h] = NULL

(* -t open runs "when opening a new .pcap file" (pcapsipdump.cpp 182).      *)
OpenTriggerMeansOpen ==
  \A e \in out : e.what = "open trigger" =>
    \E g \in out : g.what = "open" /\ g.call = e.call

(* A fragment is dumped "into the file that owns this (src,dst,id) tuple"   *)
(* (ARCHITECTURE.md 34-35) and into no other.                               *)
FragmentsReachTheirOwnFile ==
  [][\A e \in out' : e.what = "fragment" => e.call = frag_owner[pkt.id]]_vars

-----------------------------------------------------------------------------
(* What a step may never do.                                                *)

Dispatched == pc = "dispatch" /\ pc' = "next"
Closes(h) == dumpers[h] # NULL /\ dumpers'[h] = NULL
WrittenBy(what, h) == \E e \in out : e.what = what /\ e.file = h

(* A SIP packet is only ever written to the file opened for its Call-ID, or *)
(* for one that agrees with it in length and first 32 bytes.                *)
SignallingStaysWithItsCall ==
  [][\A e \in out' : e.what = "sip" /\ Dispatched =>
       /\ dumpers'[e.file] # NULL
       /\ dumpers'[e.file].call = Key(pkt.sip.callid)]_vars

(* A packet sent to an address that one recorded, unfinished call has       *)
(* announced reaches that call's file, also when finished calls announced   *)
(* the same address before it and are still in the table: the SSRC they     *)
(* ended with tells them apart.                                             *)
SoleClaim(i, at) ==
  /\ ~table[i].had_bye
  /\ table[i].f_pcap # NULL
  /\ Tracks(table[i], at)
  /\ \A j \in Used \ {i} : \A k \in DOMAIN table[j].flows :
       table[j].flows[k].at = at =>
         table[j].had_bye /\ table[j].flows[k].ssrc # pkt.ssrc

ReachesFileOf(i) ==
  Effect("rtp", table[i].call_id, table[i].f_pcap) \in out'

LiveCallGetsItsMedia ==
  [][Dispatched /\ pkt \in Datagrams /\ RtpSave \in {"rtp", "rtp+rtcp"} =>
       \A i \in Used : SoleClaim(i, Lookup(pkt.dst)) => ReachesFileOf(i)]_vars

(* The same for the address as it was announced: "port matches a tracked    *)
(* RTP flow -> dump into that call's file" (ARCHITECTURE.md 39).            *)
AnnouncedMediaIsRecorded ==
  [][Dispatched /\ pkt \in Datagrams /\ RtpSave \in {"rtp", "rtp+rtcp"} =>
       \A i \in Used : SoleClaim(i, pkt.dst) => ReachesFileOf(i)]_vars

(* -R rtpevent keeps the packets whose payload type, the low seven bits of  *)
(* the second byte, is the one announced as telephone-event.                *)
EventPacketsAreRecorded ==
  [][Dispatched /\ pkt \in Datagrams /\ RtpSave = "rtpevent" =>
       \A i \in Used :
         SoleClaim(i, pkt.dst) /\ pkt.byte1 % 128 = table[i].rtpmap_event
           => ReachesFileOf(i)]_vars

(* After BYE the file of a call takes media only from sources it already    *)
(* had: the SSRCs of its flows are frozen, so the next user of the same     *)
(* address and port is not recorded into it.                                *)
AfterByeOnlyKnownSources ==
  [][\A i \in Used :
       table[i].had_bye /\ Dispatched /\ ReachesFileOf(i) =>
         \E k \in DOMAIN table[i].flows : table[i].flows[k].ssrc = pkt.ssrc]_vars

(* A file that is closed is handed to the close trigger, or, under -R t38,  *)
(* erased if and only if no T.38 offer of its call has been seen.           *)
EndingFitsTheCall ==
  [][\A h \in Handles : Closes(h) =>
       Effect(IF T38Only /\ ~dumpers[h].t38 THEN "unlink" ELSE "close trigger",
              dumpers[h].call, h) \in out']_vars

(* A file that the packet before has written to is not closed for idleness  *)
(* by a packet that comes no more than 300 seconds later.                   *)
NotIdle(what) ==
  \A h \in Handles :
    WrittenBy(what, h) /\ Closes(h) /\ pc' \in {"next", "dispatch"} =>
      \/ now' - now > IdleLimit
      \/ \E i \in Used : table[i].f_pcap = h
                         /\ now' - table[i].first_packet_time > AbsTimeout

MediaKeepsTheCallOpen == [][NotIdle("rtp")]_vars

(* The same for signalling: an entry is closed "when it has been idle for   *)
(* 300 s" (ARCHITECTURE.md 101-102).                                        *)
SignallingKeepsTheCallOpen == [][NotIdle("sip")]_vars

(* do_cleanup "runs at most once per 15 s of capture time"                  *)
(* (ARCHITECTURE.md 100).                                                   *)
CleanupsAreSpaced ==
  [][last_cleanup' # last_cleanup => last_cleanup' - last_cleanup > 15]_vars

(* "The entry is dropped when a fragment arrives with the more-fragments    *)
(* bit clear" (ARCHITECTURE.md 64-65).                                      *)
LastFragmentDropsTheEntry ==
  [][Dispatched /\ pkt \in Fragments /\ pkt.last =>
       pkt.id \notin DOMAIN ipfrags']_vars

(* "A packet whose method matches -m creates a call-table entry", and opens *)
(* a new file (ARCHITECTURE.md 43 and 80).                                  *)
MatchingMethodIsRecorded ==
  [][Dispatched /\ IsSip /\ pkt.sip.number /\ pkt.sip.method \in MethodFilter =>
       \E e \in out' : e.what = "sip"]_vars

-----------------------------------------------------------------------------
(* The table implements a map from Call-IDs to recordings.                  *)
Recorder == INSTANCE CallRecorder WITH
  known      <- {table[i].call_id : i \in Used},
  recordings <- {[call |-> table[i].call_id, file |-> table[i].f_pcap] :
                   i \in {j \in Used : table[j].f_pcap # NULL}},
  turn       <- call_skip_cnt - 1

(* Every step of the main loop is a step of CallRecorder or leaves its      *)
(* variables alone: which calls are known, which are recorded and where,    *)
(* and whose turn it is under -l.                                           *)
ImplementsCallRecorder == Recorder!Spec
=============================================================================
