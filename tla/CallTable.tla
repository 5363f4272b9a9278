------------------------------ MODULE CallTable ------------------------------
(****************************************************************************)
(* The call table of pcapsipdump (src/calltable.cpp, src/calltable.h) in    *)
(* its default build, without USE_CALLTABLE_CACHE.  The table is a vector   *)
(* of fixed-size slots that is scanned from the front by every operation;   *)
(* this module holds what each operation finds in it and what it leaves.    *)
(* The state itself belongs to PacketLoop, the only caller.                 *)
(****************************************************************************)
EXTENDS Integers, Sequences, FiniteSets

CONSTANTS
  NULL,          \* a null pointer, or a header that is missing
  CallIds,       \* Call-IDs as they stand in SIP packets: [len, head, tail]
  Handles,       \* the addresses pcap_dump_open can return
  MediaAddrs,    \* the [ip, port] pairs media can be announced or sent at
  MaxIpPerCall,  \* calltable_max_ip_per_call
  AbsTimeout     \* ct->opt_absolute_timeout, in seconds (-T)

ASSUME NullAssumption ==
  NULL \notin CallIds \cup Handles \cup MediaAddrs

ASSUME CallIdsAssumption ==
  \A id \in CallIds : DOMAIN id = {"len", "head", "tail"} /\ id.len \in Nat

ASSUME LimitsAssumption ==
  MaxIpPerCall \in Nat /\ AbsTimeout \in Nat

(* Seconds without media after which do_cleanup ends a call. *)
IdleLimit == 300

(* What a slot keeps of a Call-ID: its first 32 bytes and its full length.  *)
Key(id) == [len |-> id.len, head |-> id.head]
Keys == {Key(id) : id \in CallIds}

(* One media flow: ip[n], port[n] and the ssrc[n] last seen on it.          *)
Flow == [at : MediaAddrs, ssrc : Nat]

CallElement ==
  [is_used           : BOOLEAN,
   had_bye           : BOOLEAN,
   had_t38           : BOOLEAN,
   rtpmap_event      : Int,
   call_id           : Keys \cup {NULL},
   flows             : Seq(Flow),
   first_packet_time : Int,
   last_packet_time  : Int,
   f_pcap            : Handles \cup {NULL}]

(* A slot as memset leaves it.                                              *)
Blank ==
  [is_used           |-> FALSE,
   had_bye           |-> FALSE,
   had_t38           |-> FALSE,
   rtpmap_event      |-> 0,
   call_id           |-> NULL,
   flows             |-> << >>,
   first_packet_time |-> 0,
   last_packet_time  |-> 0,
   f_pcap            |-> NULL]

-----------------------------------------------------------------------------
(* find_by_call_id: the first used slot whose length and first 32 bytes     *)
(* agree with the Call-ID of the packet.                                    *)
HoldsNoLength(e, id) ==  \* mutant: call_id_len not compared
  e.is_used /\ e.call_id.head = id.head

HoldsUntilBye(e, id) ==  \* mutant: a finished call is not found again
  e.is_used /\ ~e.had_bye /\ e.call_id = Key(id)

Holds(e, id) == e.is_used /\ e.call_id = Key(id)

FindByCallId(t, id, i) ==
  /\ i \in DOMAIN t
  /\ Holds(t[i], id)
  /\ \A j \in DOMAIN t : j < i => ~Holds(t[j], id)

UnknownCallId(t, id) == \A i \in DOMAIN t : ~Holds(t[i], id)

(* add: the first free slot, or a new one at the end of the vector.         *)
SlotForAddUnchecked(t, i) ==  \* mutant: is_used not looked at
  i = IF t = << >> THEN 1 ELSE Len(t)

SlotForAddAtEnd(t, i) ==  \* mutant: free slots not reused
  i = Len(t) + 1

SlotForAdd(t, i) ==
  /\ i \in 1 .. Len(t) + 1
  /\ i \in DOMAIN t => ~t[i].is_used
  /\ \A j \in DOMAIN t : j < i => t[j].is_used

NewElement(id, time, f) ==
  [is_used           |-> TRUE,
   had_bye           |-> FALSE,
   had_t38           |-> FALSE,
   rtpmap_event      |-> 101,
   call_id           |-> Key(id),
   flows             |-> << >>,
   first_packet_time |-> time,
   last_packet_time  |-> time,
   f_pcap            |-> f]

Put(t, i, e) == [j \in DOMAIN t \cup {i} |-> IF j = i THEN e ELSE t[j]]

-----------------------------------------------------------------------------
(* add_ip_port: a fifth address is refused and a known one is kept as it    *)
(* is; the SSRC of a new flow is the zero of the blank slot.                *)
Tracks(e, at) == \E k \in DOMAIN e.flows : e.flows[k].at = at

AddIpPortOneMore(e, at) ==  \* mutant: > for >=
  IF Len(e.flows) > MaxIpPerCall \/ Tracks(e, at)
  THEN e
  ELSE [e EXCEPT !.flows = Append(@, [at |-> at, ssrc |-> 0])]

AddIpPort(e, at) ==
  IF Len(e.flows) >= MaxIpPerCall \/ Tracks(e, at)
  THEN e
  ELSE [e EXCEPT !.flows = Append(@, [at |-> at, ssrc |-> 0])]

(* find_ip_port_ssrc: flow k of slot i is the first, slot by slot, at this  *)
(* address; the flows of a call that has ended are passed over unless the   *)
(* SSRC is the one they ended with.  is_used is not looked at.              *)
AcceptsAfterBye(e, k, at, ssrc) ==  \* mutant: had_bye not looked at
  e.flows[k].at = at

Accepts(e, k, at, ssrc) ==
  /\ e.flows[k].at = at
  /\ ~e.had_bye \/ e.flows[k].ssrc = ssrc

FindFlow(t, at, ssrc, i, k) ==
  /\ i \in DOMAIN t
  /\ k \in DOMAIN t[i].flows
  /\ Accepts(t[i], k, at, ssrc)
  /\ \A j \in DOMAIN t : \A l \in DOMAIN t[j].flows :
       j < i \/ (j = i /\ l < k) => ~Accepts(t[j], l, at, ssrc)

NoFlow(t, at, ssrc) ==
  \A i \in DOMAIN t : \A k \in DOMAIN t[i].flows : ~Accepts(t[i], k, at, ssrc)

-----------------------------------------------------------------------------
(* do_cleanup: the slots that end at currtime, what becomes of their files, *)
(* and the table afterwards.                                                *)
Expired(e, currtime) ==
  /\ e.is_used
  /\ \/ currtime - e.last_packet_time > IdleLimit
     \/ currtime - e.first_packet_time > AbsTimeout

Ending(t, currtime) ==
  {e \in {t[i] : i \in DOMAIN t} : Expired(e, currtime) /\ e.f_pcap # NULL}

CleanupKeepsFlows(t, currtime) ==  \* mutant: no memset
  [i \in DOMAIN t |->
     IF Expired(t[i], currtime)
     THEN [t[i] EXCEPT !.is_used = FALSE, !.f_pcap = NULL] ELSE t[i]]

CleanupKeepsSlot(t, currtime) ==  \* mutant: the file is closed, the slot kept
  [i \in DOMAIN t |->
     IF Expired(t[i], currtime) THEN [t[i] EXCEPT !.f_pcap = NULL] ELSE t[i]]

Cleanup(t, currtime) ==
  [i \in DOMAIN t |-> IF Expired(t[i], currtime) THEN Blank ELSE t[i]]

-----------------------------------------------------------------------------
(* The std::map from a fragment's (saddr, daddr, id) to the file its first  *)
(* fragment went to: add_ipfrag assigns, delete_ipfrag erases, and          *)
(* get_ipfrag, being operator[], leaves a null entry where it finds none.   *)
AddIpFragIfNew(m, f, h) ==  \* mutant: map::insert for operator[]
  [g \in DOMAIN m \cup {f} |-> IF g \in DOMAIN m THEN m[g] ELSE h]

AddIpFrag(m, f, h) == [g \in DOMAIN m \cup {f} |-> IF g = f THEN h ELSE m[g]]

DeleteIpFrag(m, f) == [g \in DOMAIN m \ {f} |-> m[g]]

GetIpFrag(m, f) == IF f \in DOMAIN m THEN m ELSE AddIpFrag(m, f, NULL)
=============================================================================
