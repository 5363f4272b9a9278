--------------------------- MODULE CachedCallTable ---------------------------
(****************************************************************************)
(* The call table of a build with -DUSE_CALLTABLE_CACHE (src/calltable.cpp, *)
(* src/calltable.h), together with what the main loop does with it.  Two    *)
(* indices spare the scans of the default build: one from Call-IDs to       *)
(* slots, which alone decides whether a Call-ID is known, and one from      *)
(* media addresses to a pointer into the vector, a flow and an SSRC.        *)
(*                                                                          *)
(* A vector that grows moves: its successive buffers are kept in heap, the  *)
(* last of which is the table, and a pointer is a buffer and a slot.  What  *)
(* lies in a buffer that has been freed is undefined; the outcomes modelled *)
(* are that it still stands there and that the process dies.  Time is       *)
(* reduced to which calls a clean-up finds run out: any may be.             *)
(****************************************************************************)
EXTENDS Integers, Sequences, FiniteSets

CONSTANTS
  NULL,          \* a null pointer, or nothing
  CallIds,       \* whole Call-IDs: the index is not limited to 32 bytes
  EmptyCallId,   \* the Call-ID of length zero, if there is one among CallIds
  Handles,       \* the addresses pcap_dump_open can return
  MediaAddrs,    \* the [ip, port] pairs packets come from and go to
  MaxIpPerCall,  \* calltable_max_ip_per_call
  Packets        \* [dst, src, ssrc, sip]; sip is NULL or [callid, bye, at]

ASSUME CacheAssumption ==
  /\ MaxIpPerCall \in Nat \ {0}
  /\ NULL \notin CallIds \cup Handles \cup MediaAddrs
  /\ NULL \notin [buffer : Nat, slot : Nat]

ASSUME PacketsAssumption ==
  Packets \subseteq
    [dst : MediaAddrs, src : MediaAddrs, ssrc : Nat,
     sip : {NULL} \cup [callid : CallIds, bye : BOOLEAN, at : {NULL} \cup MediaAddrs]]

FlowNumbers == 1 .. MaxIpPerCall

VARIABLES
  heap,     \* the buffers of ct->table, oldest first
  index,    \* ct->call_id_cache
  cache,    \* ct->cache
  dumpers,  \* the calls the open dumpers were opened for, by address
  done,     \* the packet just handled, and the file it went to
  stale,    \* the addresses whose cache entry has lost its slot or its buffer
  pc

vars == <<heap, index, cache, dumpers, done, stale, pc>>

(* A slot: the arrays ip[], port[] and ssrc[] are flows, of which ip_n      *)
(* count; what is beyond is not cleared by add.                             *)
NoFlows == [k \in FlowNumbers |-> [at |-> NULL, ssrc |-> 0]]

Blank == [is_used |-> FALSE, had_bye |-> FALSE, call_id |-> NULL,
          flows |-> NoFlows, ip_n |-> 0, f_pcap |-> NULL]

Table == heap[Len(heap)]
Pointer(i) == [buffer |-> Len(heap), slot |-> i]
Nowhere == [ce |-> NULL, irtp |-> 0, ssrc |-> 0]
Nothing == [pkt |-> NULL, what |-> "nothing", file |-> NULL]

Init ==
  /\ heap = << << >> >>
  /\ index = << >>
  /\ cache = << >>
  /\ dumpers = [h \in Handles |-> NULL]
  /\ done = Nothing
  /\ stale = {}
  /\ pc = "running"

Set(f, x, y) == [z \in DOMAIN f \cup {x} |-> IF z = x THEN y ELSE f[z]]
Erase(f, x) == [z \in DOMAIN f \ {x} |-> f[z]]

-----------------------------------------------------------------------------
(* find_ip_port_ssrc, as a function from one memory [heap, cache, stale] to *)
(* the next, with the pointer and the flow it has found.                    *)
Memory == [heap |-> heap, cache |-> cache, stale |-> stale]
Found(m, p, k) == [memory |-> m, ce |-> p, irtp |-> k]
NotFound(m) == [memory |-> m, ce |-> NULL, irtp |-> 0]

Remember(m, at, p, k, ssrc) ==
  [m EXCEPT !.heap[p.buffer][p.slot].flows[k].ssrc = ssrc,
            !.cache = Set(@, at, [ce |-> p, irtp |-> k, ssrc |-> ssrc])]

Accepts(e, k, at, ssrc) ==
  /\ k <= e.ip_n
  /\ e.flows[k].at = at
  /\ ~e.had_bye \/ e.flows[k].ssrc = ssrc

(* The full search, as in the default build; its result is cached, also     *)
(* when there is none, and is then as fresh as the table.                   *)
Search(mem, at, ssrc) ==
  LET m == [mem EXCEPT !.stale = @ \ {at}]
      n == Len(m.heap)
      hits == {h \in (DOMAIN m.heap[n]) \X FlowNumbers :
                 Accepts(m.heap[n][h[1]], h[2], at, ssrc)}
      first == CHOOSE h \in hits :
                 \A g \in hits : h[1] < g[1] \/ (h[1] = g[1] /\ h[2] <= g[2])
      p == [buffer |-> n, slot |-> first[1]]
  IN  IF hits = {}
      THEN NotFound([m EXCEPT !.cache = Set(@, at, Nowhere)])
      ELSE Found(Remember(m, at, p, first[2], ssrc), p, first[2])

FindKeepsEntry(m, at, ssrc) ==  \* mutant: no erase when the call has finished
  LET e == m.cache[at]
  IN  CASE at \notin DOMAIN m.cache -> Search(m, at, ssrc)
        [] OTHER -> IF e.ce = NULL THEN NotFound(m) ELSE Found(m, e.ce, e.irtp)

Find(m, at, ssrc) ==
  LET e == m.cache[at]
  IN  CASE at \notin DOMAIN m.cache -> Search(m, at, ssrc)
        [] at \in DOMAIN m.cache /\ e.ce = NULL -> NotFound(m)
        [] at \in DOMAIN m.cache /\ e.ce # NULL /\ e.ssrc = ssrc ->
             Found(m, e.ce, e.irtp)
        [] OTHER ->
             IF m.heap[e.ce.buffer][e.ce.slot].had_bye
             THEN Search([m EXCEPT !.cache = Erase(@, at)], at, ssrc)
             ELSE Found(Remember(m, at, e.ce, e.irtp, ssrc), e.ce, e.irtp)

(* The destination is looked up first and the source only if that fails;    *)
(* each failure leaves its entry.                                           *)
LookUp(p) ==
  LET d == Find(Memory, p.dst, p.ssrc)
  IN  IF d.ce # NULL THEN d ELSE Find(d.memory, p.src, p.ssrc)

Dangles(m, at) ==
  at \in DOMAIN m.cache /\ m.cache[at].ce # NULL
                        /\ m.cache[at].ce.buffer # Len(m.heap)

UsesFreedMemory(p) ==
  \/ Dangles(Memory, p.dst)
  \/ /\ Find(Memory, p.dst, p.ssrc).ce = NULL
     /\ Dangles(Memory, p.src)

-----------------------------------------------------------------------------
(* Media: the packet goes to the file of the slot that was found, if that   *)
(* has one, and to no other treatment.                                      *)
Media(p) ==
  LET r == LookUp(p)
      h == r.memory.heap[r.ce.buffer][r.ce.slot].f_pcap
  IN  /\ pc = "running"
      /\ r.ce # NULL
      /\ h # NULL => dumpers[h] # NULL
      /\ heap' = r.memory.heap
      /\ cache' = r.memory.cache
      /\ stale' = r.memory.stale
      /\ done' = [pkt |-> p, what |-> IF h = NULL THEN "nothing" ELSE "rtp", file |-> h]
      /\ UNCHANGED <<index, dumpers, pc>>

(* The pointer leads to freed memory, or to a dumper that has been closed.  *)
MediaCrashes(p) ==
  LET r == LookUp(p)
      h == r.memory.heap[r.ce.buffer][r.ce.slot].f_pcap
  IN  /\ pc = "running"
      /\ UsesFreedMemory(p) \/ (r.ce # NULL /\ h # NULL /\ dumpers[h] = NULL)
      /\ pc' = "crashed"
      /\ done' = Nothing
      /\ UNCHANGED <<heap, index, cache, dumpers, stale>>

Ignored(p) ==
  LET r == LookUp(p)
  IN  /\ pc = "running"
      /\ p.sip = NULL
      /\ r.ce = NULL
      /\ cache' = r.memory.cache
      /\ stale' = r.memory.stale
      /\ done' = [Nothing EXCEPT !.pkt = p]
      /\ UNCHANGED <<heap, index, dumpers, pc>>

-----------------------------------------------------------------------------
(* Signalling.                                                              *)
Tracks(e, at) == \E k \in 1 .. e.ip_n : e.flows[k].at = at

(* BYE, the address of the SDP and the dump, for the slot i of the table in *)
(* hp that the Call-ID has led to.                                          *)
AddsIpPort(e, at) == at # NULL /\ e.ip_n < MaxIpPerCall /\ ~Tracks(e, at)

WithIpPort(e, at) ==
  IF AddsIpPort(e, at)
  THEN [e EXCEPT !.ip_n = @ + 1, !.flows[e.ip_n + 1].at = at]
  ELSE e

EntryForIfNew(ch, at, entry) ==  \* mutant: map::insert for operator[]
  IF at \in DOMAIN ch THEN ch ELSE Set(ch, at, entry)

EntryFor(ch, at, entry) == Set(ch, at, entry)

IndexedFlowOff(e) ==  \* mutant: the index before the flow's
  e.ip_n

IndexedFlow(e) == e.ip_n + 1

FileMessage(p, hp, ch, st, i) ==
  LET n == Len(hp)
      e == hp[n][i]
      at == p.sip.at
      entry == [ce |-> [buffer |-> n, slot |-> i], irtp |-> IndexedFlow(e), ssrc |-> 0]
  IN  /\ heap' = [hp EXCEPT ![n][i] =
                    [WithIpPort(e, at) EXCEPT !.had_bye = @ \/ p.sip.bye]]
      /\ cache' = IF AddsIpPort(e, at) THEN EntryFor(ch, at, entry) ELSE ch
      /\ stale' = IF AddsIpPort(e, at) THEN st \ {at} ELSE st
      /\ done' = [pkt  |-> p,
                  what |-> IF e.f_pcap = NULL THEN "nothing" ELSE "sip",
                  file |-> e.f_pcap]

IsSip(p) == pc = "running" /\ p.sip # NULL /\ LookUp(p).ce = NULL

(* find_by_call_id: what the index says is not compared with the slot.      *)
KnowsUntilBye(id) ==  \* mutant: an entry of a call that has said BYE is passed over
  id \in DOMAIN index /\ ~Table[index[id]].had_bye

Knows(id) == id \in DOMAIN index

SipOfKnownCall(p) ==
  /\ IsSip(p)
  /\ Knows(p.sip.callid)
  /\ LET m == LookUp(p).memory
     IN  FileMessage(p, heap, m.cache, m.stale, index[p.sip.callid])
  /\ UNCHANGED <<index, dumpers, pc>>

(* add: the first free slot, or push_back, which moves a full vector (the   *)
(* capacity of libstdc++'s doubles).  Of a reused slot the flows stay.      *)
IsFull(t) == \E n \in 0 .. Len(t) : Len(t) = 2 ^ n

NewSlot(t) ==
  IF \A i \in DOMAIN t : t[i].is_used
  THEN Len(t) + 1
  ELSE CHOOSE i \in DOMAIN t : /\ ~t[i].is_used
                               /\ \A j \in 1 .. i - 1 : t[j].is_used

WithElementOverFirst(id, f) ==  \* mutant: is_used not looked at
  LET new == [Blank EXCEPT !.is_used = TRUE, !.call_id = id, !.f_pcap = f]
  IN  [heap EXCEPT ![Len(heap)] = <<new>> \o Tail(@ \o <<Blank>>)]

WithElement(id, f) ==
  LET i == NewSlot(Table)
      old == IF i \in DOMAIN Table THEN Table[i] ELSE Blank
      new == [old EXCEPT !.is_used = TRUE, !.had_bye = FALSE, !.call_id = id,
                         !.ip_n = 0, !.f_pcap = f]
      n == Len(heap)
  IN  CASE i \in DOMAIN Table -> [heap EXCEPT ![n][i] = new]
        [] i \notin DOMAIN Table /\ IsFull(Table) -> Append(heap, Append(Table, new))
        [] OTHER -> [heap EXCEPT ![n] = Append(@, new)]

MovesTable == IsFull(Table) /\ \A i \in DOMAIN Table : Table[i].is_used

(* The entries that add leaves behind: all that point anywhere when the     *)
(* table moves, and those into the slot it takes.                           *)
LeftBehind(ch, i) ==
  {at \in DOMAIN ch : ch[at].ce # NULL /\ (MovesTable \/ ch[at].ce = Pointer(i))}

SipOfNewCall(p) ==
  LET m == LookUp(p).memory
      i == NewSlot(Table)
  IN  /\ IsSip(p)
      /\ ~Knows(p.sip.callid)
      /\ index' = Set(index, p.sip.callid, i)
      /\ \E f \in {NULL} \cup {h \in Handles : dumpers[h] = NULL} :
           /\ dumpers' = IF f = NULL THEN dumpers
                         ELSE [dumpers EXCEPT ![f] = p.sip.callid]
           /\ FileMessage(p, WithElement(p.sip.callid, f), m.cache,
                          m.stale \cup LeftBehind(m.cache, i), i)
      /\ UNCHANGED pc

-----------------------------------------------------------------------------
(* do_cleanup: K are the slots that have run out.  memset comes before the  *)
(* two indices are looked at, so that no address is erased from the cache   *)
(* and no Call-ID but the empty one from the index.                         *)
DoCleanup(K) ==
  LET closed == {Table[i].f_pcap : i \in K}
  IN  /\ pc = "running"
      /\ heap' = [heap EXCEPT ![Len(heap)] =
                    [i \in DOMAIN @ |-> IF i \in K THEN Blank ELSE @[i]]]
      /\ dumpers' = [h \in Handles |-> IF h \in closed THEN NULL ELSE dumpers[h]]
      /\ index' = Erase(index, EmptyCallId)
      /\ stale' = stale \cup {at \in DOMAIN cache : \E i \in K : cache[at].ce = Pointer(i)}
      /\ done' = Nothing
      /\ UNCHANGED <<cache, pc>>

Used == {i \in DOMAIN Table : Table[i].is_used}

Next ==
  \/ \E p \in Packets : \/ Media(p)
                        \/ MediaCrashes(p)
                        \/ Ignored(p)
                        \/ SipOfKnownCall(p)
                        \/ SipOfNewCall(p)
  \/ \E K \in SUBSET Used \ {{}} : DoCleanup(K)
  \/ pc = "crashed" /\ UNCHANGED vars

Spec == Init /\ [][Next]_vars

-----------------------------------------------------------------------------
(* Properties.                                                              *)

Element == [is_used : BOOLEAN, had_bye : BOOLEAN, call_id : CallIds \cup {NULL},
            flows : [FlowNumbers -> [at : MediaAddrs \cup {NULL}, ssrc : Nat]],
            ip_n : 0 .. MaxIpPerCall, f_pcap : Handles \cup {NULL}]

(* Every variable has the values the code's types and bounds allow, and no  *)
(* pointer of either index leads beyond a buffer (calltable.h 36-72).       *)
TypeOK ==
  /\ heap \in Seq(Seq(Element)) /\ heap # << >>
  /\ DOMAIN index \subseteq CallIds
  /\ \A id \in DOMAIN index : index[id] \in DOMAIN Table
  /\ DOMAIN cache \subseteq MediaAddrs
  /\ \A at \in DOMAIN cache :
       \/ cache[at] = Nowhere
       \/ /\ cache[at] \in [ce : [buffer : DOMAIN heap, slot : Nat],
                             irtp : FlowNumbers, ssrc : Nat]
          /\ cache[at].ce.slot \in DOMAIN heap[cache[at].ce.buffer]
  /\ dumpers \in [Handles -> CallIds \cup {NULL}]
  /\ done.pkt \in Packets \cup {NULL}
  /\ stale \subseteq DOMAIN cache
  /\ pc \in {"running", "crashed"}

(* The Call-ID of every call in progress leads to its slot, so that no call *)
(* ever has two, whatever else the index still holds: find_by_call_id       *)
(* believes the index alone.                                                *)
IndexedWhileLive ==
  \A i \in Used : /\ Table[i].call_id \in DOMAIN index
                  /\ index[Table[i].call_id] = i

(* As long as neither a clean-up nor a growing vector has taken the slot    *)
(* away from it, an entry says what a search of the table would find: the   *)
(* flow with that address, or that no unfinished call has it.  Negative     *)
(* entries are never cleaned up ("TODO", calltable.cpp 205), but add_ip_port*)
(* overwrites them.                                                         *)
CacheMatchesTable ==
  \A at \in DOMAIN cache \ stale :
    LET c == cache[at]
    IN  IF c.ce = NULL
        THEN \A i \in DOMAIN Table : Tracks(Table[i], at) => Table[i].had_bye
        ELSE /\ c.ce.buffer = Len(heap)
             /\ c.irtp <= Table[c.ce.slot].ip_n
             /\ Table[c.ce.slot].flows[c.irtp].at = at

(* A packet to an address that one recorded, unfinished call has announced  *)
(* reaches that call's file, as in the default build, unless the entry of   *)
(* the address has lost its slot: also when a finished call, whose entry is *)
(* still cached, had the same address and another SSRC.                     *)
EndedWith(j, k, at) ==
  {Table[j].flows[k].ssrc}
    \cup {cache[x].ssrc : x \in {y \in DOMAIN cache \cap {at} : cache[y].ce = Pointer(j)}}

SoleClaim(i, p) ==
  /\ ~Table[i].had_bye
  /\ Table[i].f_pcap # NULL
  /\ Tracks(Table[i], p.dst)
  /\ \A j \in DOMAIN Table \ {i} : \A k \in 1 .. Table[j].ip_n :
       Table[j].flows[k].at = p.dst =>
         Table[j].had_bye /\ p.ssrc \notin EndedWith(j, k, p.dst)

LiveCallGetsItsMedia ==
  [][LET p == done'.pkt
     IN  p # NULL /\ p.dst \notin stale =>
           \A i \in Used : SoleClaim(i, p) =>
             done'.what = "rtp" /\ done'.file = Table[i].f_pcap]_vars

(* The same without the exception, which is what the cache is for.          *)
LiveCallAlwaysGetsItsMedia ==
  [][LET p == done'.pkt
     IN  p # NULL => \A i \in Used : SoleClaim(i, p) =>
                       done'.what = "rtp" /\ done'.file = Table[i].f_pcap]_vars

(* A SIP packet of a call in progress is written to that call's file, or to *)
(* none if it has none.                                                     *)
SignallingOfLiveCallIsItsOwn ==
  [][\A i \in Used :
       done'.pkt # NULL /\ done'.what = "sip" /\ done'.pkt.sip.callid = Table[i].call_id
         => done'.file = Table[i].f_pcap]_vars

(* No pointer of the cache is followed into a buffer that has been freed.   *)
NoDanglingUse == pc # "crashed"

-----------------------------------------------------------------------------
(* The two indices notwithstanding, the table still implements the map from *)
(* Call-IDs to recordings that the default build implements, without -l.    *)
Recorder == INSTANCE CallRecorder WITH
  Keys       <- CallIds,
  SkipN      <- 1,
  known      <- {Table[i].call_id : i \in Used},
  recordings <- {[call |-> Table[i].call_id, file |-> Table[i].f_pcap] :
                   i \in {j \in Used : Table[j].f_pcap # NULL}},
  turn       <- 0

(* Every step begins calls that are not in progress, each with a file of    *)
(* its own or none, or ends some, or leaves calls and files as they are:    *)
(* what is stale in the indices misroutes packets and never the calls.      *)
ImplementsCallRecorder == Recorder!Spec
=============================================================================
