-------------------------- MODULE CachedTableProofs --------------------------
(****************************************************************************)
(* The cached call table: proofs, for any number of calls, addresses and    *)
(* packets, that its two indices stay usable and that it still implements   *)
(* CallRecorder, with CallIds free of the empty Call-ID (the only one that  *)
(* do_cleanup takes out of the index).                                      *)
(****************************************************************************)
EXTENDS CachedCallTable, SequenceTheorems, WellFoundedInduction, TLAPS

-----------------------------------------------------------------------------
(* Sequences of sequences, and the least of a set of numbers.               *)
LEMMA LeastNat ==
  ASSUME NEW S \in SUBSET Nat, S # {}
  PROVE  \E n \in S : \A m \in S : n <= m
<1>1. \E n \in S : \A m \in S : <<m, n>> \notin OpToRel(<, Nat)
  BY WFMin, NatLessThanWellFounded, Zenon
<1>2. PICK n \in S : \A m \in S : <<m, n>> \notin OpToRel(<, Nat)
  BY <1>1
<1>3. \A m \in S : ~(m < n)
  BY <1>2 DEF OpToRel
<1>4. QED
  BY <1>3

(* A heap: its buffers hold elements, and there is one at least.            *)
Heaps == {h \in Seq(Seq(Element)) : h # << >>}

LEMMA HeapFacts ==
  ASSUME NEW hp \in Heaps
  PROVE  /\ DOMAIN hp = 1 .. Len(hp) /\ Len(hp) \in Nat \ {0} /\ Len(hp) \in DOMAIN hp
         /\ \A b \in DOMAIN hp : /\ hp[b] \in Seq(Element) /\ Len(hp[b]) \in Nat
                                 /\ DOMAIN hp[b] = 1 .. Len(hp[b])
                                 /\ \A s \in DOMAIN hp[b] : hp[b][s] \in Element
BY DEF Heaps

(* The edits of a heap that the actions make, by name.                      *)
Edited(hp, b, s, x) == [hp EXCEPT ![b][s] = x]
Extended(hp, x) == [hp EXCEPT ![Len(hp)] = Append(hp[Len(hp)], x)]
Moved(hp, x) == Append(hp, Append(hp[Len(hp)], x))
Begun(e, id, f) ==
  [e EXCEPT !.is_used = TRUE, !.had_bye = FALSE, !.call_id = id, !.ip_n = 0, !.f_pcap = f]

LEMMA HeapEdit ==
  ASSUME NEW hp \in Heaps, NEW b \in DOMAIN hp, NEW s \in DOMAIN hp[b], NEW x \in Element,
         NEW g, g = Edited(hp, b, s, x)
  PROVE  /\ g \in Heaps /\ Len(g) = Len(hp) /\ DOMAIN g = DOMAIN hp
         /\ \A c \in DOMAIN hp : /\ DOMAIN g[c] = DOMAIN hp[c] /\ Len(g[c]) = Len(hp[c])
                                 /\ c # b => g[c] = hp[c]
         /\ \A t \in DOMAIN hp[b] : g[b][t] = IF t = s THEN x ELSE hp[b][t]
<1> DEFINE y == [hp[b] EXCEPT ![s] = x]
<1>1. g = [hp EXCEPT ![b] = y]
  BY DEF Edited
<1>2. /\ y \in Seq(Element) /\ Len(y) = Len(hp[b]) /\ DOMAIN y = DOMAIN hp[b]
      /\ \A t \in DOMAIN hp[b] : y[t] = IF t = s THEN x ELSE hp[b][t]
  BY HeapFacts, ExceptSeq
<1> HIDE DEF y
<1>3. /\ g \in Seq(Seq(Element)) /\ Len(g) = Len(hp) /\ DOMAIN g = DOMAIN hp
      /\ \A c \in DOMAIN hp : g[c] = IF c = b THEN y ELSE hp[c]
  <2>1. hp \in Seq(Seq(Element)) /\ b \in 1 .. Len(hp)
    BY HeapFacts DEF Heaps
  <2>2. y \in Seq(Element)
    BY <1>2
  <2>3. /\ g \in Seq(Seq(Element)) /\ Len(g) = Len(hp)
        /\ \A c \in 1 .. Len(hp) : g[c] = IF c = b THEN y ELSE hp[c]
    BY ONLY <1>1, <2>1, <2>2, ExceptSeq
  <2>4. QED
    BY <2>1, <2>3, HeapFacts
<1>4. g # << >>
  BY <1>3, HeapFacts
<1>5. QED
  BY <1>2, <1>3, <1>4 DEF Heaps

-----------------------------------------------------------------------------
(* A memory as find_ip_port_ssrc may be given it.                           *)
Pointers(hp) == {p \in [buffer : DOMAIN hp, slot : Nat] : p.slot \in DOMAIN hp[p.buffer]}

EntryOK(hp, c) ==
  c = Nowhere \/ (c \in [ce : Pointers(hp), irtp : FlowNumbers, ssrc : Nat])

MemoryOK(m) ==
  /\ m = [heap |-> m.heap, cache |-> m.cache, stale |-> m.stale]
  /\ m.heap \in Heaps
  /\ DOMAIN m.cache \subseteq MediaAddrs
  /\ \A at \in DOMAIN m.cache : EntryOK(m.heap, m.cache[at])

(* All that a search changes in a slot are SSRCs.                           *)
Alike(d, e) ==
  /\ d \in Element
  /\ d.is_used = e.is_used /\ d.had_bye = e.had_bye /\ d.call_id = e.call_id
  /\ d.ip_n = e.ip_n /\ d.f_pcap = e.f_pcap
  /\ \A k \in FlowNumbers : d.flows[k].at = e.flows[k].at

SameShape(g, hp) ==
  /\ Len(g) = Len(hp) /\ DOMAIN g = DOMAIN hp
  /\ \A b \in DOMAIN hp : /\ DOMAIN g[b] = DOMAIN hp[b] /\ Len(g[b]) = Len(hp[b])
                          /\ \A s \in DOMAIN hp[b] : Alike(g[b][s], hp[b][s])

(* CacheMatchesTable, for a memory.                                         *)
Last(hp) == hp[Len(hp)]

MatchesAt(hp, c, at) ==
  IF c.ce = NULL
  THEN \A i \in DOMAIN Last(hp) : Tracks(Last(hp)[i], at) => Last(hp)[i].had_bye
  ELSE /\ c.ce.buffer = Len(hp)
       /\ c.irtp <= Last(hp)[c.ce.slot].ip_n
       /\ Last(hp)[c.ce.slot].flows[c.irtp].at = at

Matches(m) ==
  \A at \in DOMAIN m.cache \ m.stale : MatchesAt(m.heap, m.cache[at], at)

-----------------------------------------------------------------------------
LEMMA SetFacts ==
  ASSUME NEW f, NEW x, NEW y
  PROVE  /\ DOMAIN Set(f, x, y) = DOMAIN f \cup {x} /\ Set(f, x, y)[x] = y
         /\ \A z \in DOMAIN f \ {x} : Set(f, x, y)[z] = f[z]
BY DEF Set

LEMMA EraseFacts ==
  ASSUME NEW f, NEW x
  PROVE  /\ DOMAIN Erase(f, x) = DOMAIN f \ {x}
         /\ \A z \in DOMAIN f \ {x} : Erase(f, x)[z] = f[z]
BY DEF Erase

LEMMA PointerFacts ==
  ASSUME NEW hp \in Heaps
  PROVE  /\ NULL \notin Pointers(hp)
         /\ Nowhere.ce = NULL
         /\ \A c : EntryOK(hp, c) /\ c.ce # NULL =>
              /\ c.ce \in Pointers(hp) /\ c.irtp \in FlowNumbers /\ c.ssrc \in Nat
<1>1. Pointers(hp) \subseteq [buffer : Nat, slot : Nat]
  <2>1. DOMAIN hp \subseteq Nat
    BY HeapFacts
  <2>2. QED
    BY <2>1 DEF Pointers
<1>2. QED
  BY <1>1, CacheAssumption DEF EntryOK, Nowhere

LEMMA AlikeItself ==
  ASSUME NEW hp \in Heaps
  PROVE  SameShape(hp, hp)
BY HeapFacts DEF SameShape, Alike

LEMMA AlikeTransitive ==
  ASSUME NEW f, NEW g, NEW hp, SameShape(f, g), SameShape(g, hp)
  PROVE  SameShape(f, hp)
BY DEF SameShape, Alike

(* Entries and their meaning do not depend on SSRCs.                        *)
LEMMA ShapeEntries ==
  ASSUME NEW hp \in Heaps, NEW g \in Heaps, SameShape(g, hp)
  PROVE  /\ Pointers(g) = Pointers(hp)
         /\ \A c : EntryOK(g, c) <=> EntryOK(hp, c)
<1>1. Pointers(g) = Pointers(hp)
  BY DEF SameShape, Pointers
<1>2. QED
  BY <1>1 DEF EntryOK

LEMMA ShapeTracks ==
  ASSUME NEW d, NEW e \in Element, Alike(d, e), NEW at
  PROVE  Tracks(d, at) <=> Tracks(e, at)
<1>1. 1 .. e.ip_n \subseteq FlowNumbers
  BY CacheAssumption DEF Element, FlowNumbers
<1>2. QED
  BY <1>1 DEF Alike, Tracks

LEMMA ShapeMatches ==
  ASSUME NEW hp \in Heaps, NEW g \in Heaps, SameShape(g, hp),
         NEW c, EntryOK(hp, c), NEW at, MatchesAt(hp, c, at)
  PROVE  MatchesAt(g, c, at)
<1>1. Len(g) = Len(hp) /\ Len(hp) \in DOMAIN hp /\ DOMAIN Last(g) = DOMAIN Last(hp)
      /\ \A i \in DOMAIN Last(hp) : /\ Last(hp)[i] \in Element
                                    /\ Alike(Last(g)[i], Last(hp)[i])
  BY HeapFacts DEF SameShape, Last
<1>2. CASE c.ce = NULL
  <2>1. ASSUME NEW i \in DOMAIN Last(g), Tracks(Last(g)[i], at)
        PROVE  Last(g)[i].had_bye
    <3>1. Tracks(Last(hp)[i], at)
      BY <1>1, <2>1, ShapeTracks
    <3>2. QED
      BY <1>1, <1>2, <3>1 DEF MatchesAt, Alike
  <2>2. QED
    BY <1>2, <2>1 DEF MatchesAt
<1>3. CASE c.ce # NULL
  <2>1. c.ce \in Pointers(hp) /\ c.irtp \in FlowNumbers /\ c.ce.buffer = Len(hp)
    BY <1>3, PointerFacts DEF MatchesAt
  <2>2. c.ce.slot \in DOMAIN Last(hp)
    BY <2>1 DEF Pointers, Last
  <2>3. QED
    BY <1>1, <1>3, <2>1, <2>2 DEF MatchesAt, Alike
<1>4. QED
  BY <1>2, <1>3

-----------------------------------------------------------------------------
(* The SSRC of a flow and of an entry.                                      *)
Remembered(m, r, at, p, k, ssrc) ==
  /\ r.stale = m.stale
  /\ DOMAIN r.cache = DOMAIN m.cache \cup {at}
  /\ r.cache[at] = [ce |-> p, irtp |-> k, ssrc |-> ssrc]
  /\ \A x \in DOMAIN m.cache \ {at} : r.cache[x] = m.cache[x]
  /\ r.heap \in Heaps /\ SameShape(r.heap, m.heap)
  /\ MemoryOK(r)

LEMMA RememberFacts ==
  ASSUME NEW m, MemoryOK(m), NEW at \in MediaAddrs, NEW p \in Pointers(m.heap),
         NEW k \in FlowNumbers, NEW ssrc \in Nat
  PROVE  Remembered(m, Remember(m, at, p, k, ssrc), at, p, k, ssrc)
<1> DEFINE e == m.heap[p.buffer][p.slot]
           d == [e EXCEPT !.flows[k].ssrc = ssrc]
           g == [m.heap EXCEPT ![p.buffer][p.slot] = d]
           ch == Set(m.cache, at, [ce |-> p, irtp |-> k, ssrc |-> ssrc])
<1> SUFFICES ASSUME NEW r, r = Remember(m, at, p, k, ssrc)
             PROVE  Remembered(m, r, at, p, k, ssrc)
  OBVIOUS
<1>1. m.heap \in Heaps /\ p.buffer \in DOMAIN m.heap /\ p.slot \in DOMAIN m.heap[p.buffer]
  BY DEF MemoryOK, Pointers
<1>2. e \in Element
  BY <1>1, HeapFacts
<1>3. d \in Element /\ Alike(d, e)
  <2>1. e.flows \in [FlowNumbers -> [at : MediaAddrs \cup {NULL}, ssrc : Nat]]
    BY <1>2 DEF Element
  <2> DEFINE fl == [e.flows EXCEPT ![k].ssrc = ssrc]
  <2>2. /\ fl \in [FlowNumbers -> [at : MediaAddrs \cup {NULL}, ssrc : Nat]]
        /\ \A j \in FlowNumbers : fl[j].at = e.flows[j].at
    BY <2>1
  <2>3. d = [e EXCEPT !.flows = fl]
    OBVIOUS
  <2> HIDE DEF fl, e
  <2>4. QED
    BY <1>2, <2>2, <2>3 DEF Element, Alike
<1>4. r = [heap |-> g, cache |-> ch, stale |-> m.stale]
  BY DEF Remember, MemoryOK
<1> HIDE DEF d, g, ch
<1>5. /\ g \in Heaps /\ Len(g) = Len(m.heap) /\ DOMAIN g = DOMAIN m.heap
      /\ \A c \in DOMAIN m.heap : /\ DOMAIN g[c] = DOMAIN m.heap[c]
                                  /\ Len(g[c]) = Len(m.heap[c])
                                  /\ c # p.buffer => g[c] = m.heap[c]
      /\ \A t \in DOMAIN m.heap[p.buffer] :
           g[p.buffer][t] = IF t = p.slot THEN d ELSE m.heap[p.buffer][t]
  <2>1. g = Edited(m.heap, p.buffer, p.slot, d)
    BY DEF g, Edited
  <2>2. QED
    BY <1>1, <1>3, <2>1, HeapEdit
<1>6. SameShape(g, m.heap)
  <2>1. SameShape(m.heap, m.heap)
    BY <1>1, AlikeItself
  <2>2. QED
    BY <1>3, <1>5, <2>1 DEF SameShape
<1>7. /\ DOMAIN ch = DOMAIN m.cache \cup {at}
      /\ ch[at] = [ce |-> p, irtp |-> k, ssrc |-> ssrc]
      /\ \A x \in DOMAIN m.cache \ {at} : ch[x] = m.cache[x]
  BY DEF ch, Set
<1>8. MemoryOK(r)
  <2>1. EntryOK(m.heap, [ce |-> p, irtp |-> k, ssrc |-> ssrc])
    BY DEF EntryOK
  <2>2. /\ DOMAIN ch \subseteq MediaAddrs
        /\ \A x \in DOMAIN ch : EntryOK(m.heap, ch[x])
    BY <1>7, <2>1 DEF MemoryOK
  <2>3. \A x \in DOMAIN ch : EntryOK(g, ch[x])
    BY <1>1, <1>5, <1>6, <2>2, ShapeEntries
  <2>4. QED
    BY <1>4, <1>5, <2>2, <2>3 DEF MemoryOK
<1>9. QED
  BY <1>4, <1>5, <1>6, <1>7, <1>8 DEF Remembered

(* What find_ip_port_ssrc leaves of a memory, and what it finds there.      *)
GoodResult(m, r) ==
  /\ MemoryOK(r.memory) /\ SameShape(r.memory.heap, m.heap)
  /\ r.memory.stale \subseteq m.stale \cap DOMAIN r.memory.cache
  /\ Matches(m) => Matches(r.memory)
  /\ \/ r.ce = NULL /\ r.memory.heap = m.heap
     \/ r.ce \in Pointers(m.heap)

(* The first of a set of pairs of numbers, row by row.                      *)
First(H) == CHOOSE h \in H : \A g \in H : h[1] < g[1] \/ (h[1] = g[1] /\ h[2] <= g[2])

LEMMA FirstPair ==
  ASSUME NEW H, H \subseteq Nat \X Nat, H # {}
  PROVE  First(H) \in H
<1> DEFINE A == {i \in Nat : \E h \in H : h[1] = i}
<1>1. \A h \in H : h[1] \in Nat /\ h[2] \in Nat
  OBVIOUS
<1>2. A \in SUBSET Nat /\ A # {}
  BY <1>1
<1>3. PICK i \in A : \A j \in A : i <= j
  BY <1>2, LeastNat
<1> DEFINE B == {k \in Nat : \E h \in H : h[1] = i /\ h[2] = k}
<1>4. B \in SUBSET Nat /\ B # {}
  BY <1>1
<1>5. PICK k \in B : \A l \in B : k <= l
  BY <1>4, LeastNat
<1>6. PICK h \in H : h[1] = i /\ h[2] = k
  OBVIOUS
<1>7. ASSUME NEW g \in H
      PROVE  h[1] < g[1] \/ (h[1] = g[1] /\ h[2] <= g[2])
  <2>1. g[1] \in A /\ (g[1] = i => g[2] \in B)
    BY <1>1
  <2>2. i <= g[1] /\ (g[1] = i => k <= g[2]) /\ i \in Nat /\ g[1] \in Nat
    BY <1>2, <1>3, <1>5, <2>1
  <2>3. QED
    BY <1>6, <2>2
<1>8. QED
  BY <1>7 DEF First

(* The flows a full search may find.                                        *)
Hits(t, at, ssrc) == {h \in (DOMAIN t) \X FlowNumbers : Accepts(t[h[1]], h[2], at, ssrc)}

LEMMA FirstHit ==
  ASSUME NEW t \in Seq(Element), NEW at, NEW ssrc, Hits(t, at, ssrc) # {}
  PROVE  LET h == First(Hits(t, at, ssrc))
         IN  /\ h[1] \in DOMAIN t /\ h[2] \in FlowNumbers
             /\ Accepts(t[h[1]], h[2], at, ssrc)
<1>1. Hits(t, at, ssrc) \subseteq Nat \X Nat
  <2>1. DOMAIN t \subseteq Nat /\ FlowNumbers \subseteq Nat
    BY CacheAssumption DEF FlowNumbers
  <2>2. QED
    BY <2>1 DEF Hits
<1>2. First(Hits(t, at, ssrc)) \in Hits(t, at, ssrc)
  BY <1>1, FirstPair
<1>3. ASSUME NEW h \in Hits(t, at, ssrc)
      PROVE  /\ h[1] \in DOMAIN t /\ h[2] \in FlowNumbers
             /\ Accepts(t[h[1]], h[2], at, ssrc)
  BY <1>3 DEF Hits
<1>4. QED
  BY <1>2, <1>3

-----------------------------------------------------------------------------
LEMMA SearchFacts ==
  ASSUME NEW m, MemoryOK(m), NEW at \in MediaAddrs, NEW ssrc \in Nat,
         m.stale \subseteq DOMAIN m.cache \cup {at}, NEW r, r = Search(m, at, ssrc)
  PROVE  LET H == Hits(Last(m.heap), at, ssrc)
         IN  /\ GoodResult(m, r)
             /\ H = {} => r.ce = NULL
             /\ H # {} => /\ r.ce # NULL /\ r.ce.buffer = Len(m.heap)
                          /\ r.ce.slot = First(H)[1]
<1> DEFINE H == Hits(Last(m.heap), at, ssrc)
           n == [m EXCEPT !.stale = @ \ {at}]
           p == [buffer |-> Len(m.heap), slot |-> First(H)[1]]
<1>1. m.heap \in Heaps /\ Last(m.heap) \in Seq(Element) /\ Len(m.heap) \in DOMAIN m.heap
  BY HeapFacts DEF MemoryOK, Last
<1>2. /\ n = [heap |-> m.heap, cache |-> m.cache, stale |-> m.stale \ {at}]
      /\ MemoryOK(n)
  BY DEF MemoryOK
<1>3. r = IF H = {} THEN NotFound([n EXCEPT !.cache = Set(@, at, Nowhere)])
          ELSE Found(Remember(n, at, p, First(H)[2], ssrc), p, First(H)[2])
  BY <1>2 DEF Search, Hits, First, Last
<1>4. ASSUME NEW x \in DOMAIN m.cache, x # at, x \notin m.stale \ {at}, Matches(m)
      PROVE  MatchesAt(m.heap, m.cache[x], x)
  BY <1>4 DEF Matches
<1> HIDE DEF n, H
<1>5. CASE H = {}
  <2> DEFINE ch == Set(m.cache, at, Nowhere)
             w == [heap |-> m.heap, cache |-> ch, stale |-> m.stale \ {at}]
  <2>1. r.memory = w /\ r.ce = NULL
    BY <1>2, <1>3, <1>5 DEF NotFound
  <2>2. /\ DOMAIN ch = DOMAIN m.cache \cup {at} /\ ch[at] = Nowhere
        /\ \A x \in DOMAIN m.cache \ {at} : ch[x] = m.cache[x]
    BY DEF Set
  <2> HIDE DEF ch
  <2>3. MemoryOK(w)
    BY <1>1, <2>2 DEF MemoryOK, EntryOK
  <2>4. MatchesAt(m.heap, Nowhere, at)
    <3>1. ASSUME NEW i \in DOMAIN Last(m.heap), Tracks(Last(m.heap)[i], at)
          PROVE  Last(m.heap)[i].had_bye
      <4>1. Last(m.heap)[i] \in Element
        BY <1>1
      <4>2. PICK k \in FlowNumbers : k <= Last(m.heap)[i].ip_n
                                     /\ Last(m.heap)[i].flows[k].at = at
        BY <3>1, <4>1, CacheAssumption DEF Tracks, Element, FlowNumbers
      <4>3. <<i, k>> \notin H
        BY <1>5
      <4>4. QED
        BY <4>2, <4>3 DEF H, Hits, Accepts
    <3>2. QED
      BY <1>1, <3>1, PointerFacts DEF MatchesAt
  <2>5. Matches(m) => Matches(w)
    BY <1>4, <2>2, <2>4 DEF Matches
  <2>6. QED
    BY <1>1, <1>5, <2>1, <2>2, <2>3, <2>5, AlikeItself DEF GoodResult, H
<1>6. CASE H # {}
  <2> DEFINE k == First(H)[2]
             w == Remember(n, at, p, k, ssrc)
  <2>1. r.memory = w /\ r.ce = p
    BY <1>3, <1>6 DEF Found
  <2>2. /\ First(H)[1] \in DOMAIN Last(m.heap) /\ k \in FlowNumbers
        /\ Accepts(Last(m.heap)[First(H)[1]], k, at, ssrc)
    BY <1>1, <1>6, FirstHit DEF H
  <2>3. p \in Pointers(m.heap) /\ p.buffer = Len(m.heap) /\ p.slot = First(H)[1]
    BY <1>1, <2>2, HeapFacts DEF Pointers, Last
  <2> HIDE DEF k, p
  <2>4. Remembered(n, w, at, p, k, ssrc)
    BY <1>2, <2>2, <2>3, RememberFacts
  <2> HIDE DEF w
  <2>5. /\ DOMAIN w.cache = DOMAIN m.cache \cup {at}
        /\ w.cache[at] = [ce |-> p, irtp |-> k, ssrc |-> ssrc]
        /\ \A x \in DOMAIN m.cache \ {at} : w.cache[x] = m.cache[x]
    BY <1>2, <2>4 DEF Remembered
  <2>6. n.heap = m.heap /\ n.stale = m.stale \ {at} /\ w.stale = m.stale \ {at}
    BY <1>2, <2>4 DEF Remembered
  <2>7. p # NULL /\ MatchesAt(m.heap, w.cache[at], at) /\ EntryOK(m.heap, w.cache[at])
    BY <1>1, <2>2, <2>3, <2>5, PointerFacts DEF MatchesAt, Accepts, EntryOK
  <2>8. Matches(m) => Matches(w)
    <3>1. SUFFICES ASSUME Matches(m), NEW x \in DOMAIN w.cache \ w.stale
                   PROVE  MatchesAt(w.heap, w.cache[x], x)
      BY DEF Matches
    <3>2. MatchesAt(m.heap, w.cache[x], x) /\ EntryOK(m.heap, w.cache[x])
      BY <1>4, <2>5, <2>6, <2>7, <3>1 DEF MemoryOK
    <3>3. QED
      BY <1>1, <2>4, <2>6, <3>2, ShapeMatches DEF Remembered
  <2>9. QED
    BY <1>6, <2>1, <2>3, <2>4, <2>5, <2>6, <2>7, <2>8 DEF GoodResult, Remembered, H
<1>7. QED
  BY <1>5, <1>6

LEMMA FindFacts ==
  ASSUME NEW m, MemoryOK(m), m.stale \subseteq DOMAIN m.cache,
         NEW at \in MediaAddrs, NEW ssrc \in Nat
  PROVE  GoodResult(m, Find(m, at, ssrc))
<1> DEFINE e == m.cache[at]
<1> SUFFICES ASSUME NEW r, r = Find(m, at, ssrc)
             PROVE  GoodResult(m, r)
  OBVIOUS
<1>1. m.heap \in Heaps /\ SameShape(m.heap, m.heap)
  BY AlikeItself DEF MemoryOK
<1>2. CASE at \notin DOMAIN m.cache
  <2>1. r = Search(m, at, ssrc)
    BY <1>2 DEF Find
  <2>2. QED
    BY <2>1, SearchFacts
<1>3. CASE at \in DOMAIN m.cache /\ e.ce = NULL
  <2>1. r.memory = m /\ r.ce = NULL
    BY <1>3 DEF Find, NotFound
  <2>2. QED
    BY <1>1, <2>1 DEF GoodResult
<1>4. ASSUME at \in DOMAIN m.cache, e.ce # NULL
      PROVE  e.ce \in Pointers(m.heap) /\ e.irtp \in FlowNumbers
  BY <1>1, <1>4, PointerFacts DEF MemoryOK
<1>5. CASE at \in DOMAIN m.cache /\ e.ce # NULL /\ e.ssrc = ssrc
  <2>1. r.memory = m /\ r.ce = e.ce
    BY <1>5 DEF Find, Found
  <2>2. QED
    BY <1>1, <1>4, <1>5, <2>1 DEF GoodResult
<1>6. CASE /\ at \in DOMAIN m.cache /\ e.ce # NULL /\ e.ssrc # ssrc
           /\ m.heap[e.ce.buffer][e.ce.slot].had_bye
  <2> DEFINE n == [m EXCEPT !.cache = Erase(@, at)]
             ch == Erase(m.cache, at)
  <2>1. r = Search(n, at, ssrc)
    BY <1>6 DEF Find
  <2>2. n = [heap |-> m.heap, cache |-> ch, stale |-> m.stale]
    BY DEF MemoryOK
  <2>3. DOMAIN ch = DOMAIN m.cache \ {at} /\ \A x \in DOMAIN ch : ch[x] = m.cache[x]
    BY EraseFacts
  <2> HIDE DEF n, ch
  <2>4. MemoryOK(n) /\ n.stale \subseteq DOMAIN n.cache \cup {at}
    BY <2>2, <2>3 DEF MemoryOK
  <2>5. GoodResult(n, r)
    BY <2>1, <2>4, SearchFacts
  <2>6. Matches(m) => Matches(n)
    BY <2>2, <2>3 DEF Matches
  <2>7. n.heap = m.heap /\ n.stale = m.stale
    BY <2>2
  <2>8. QED
    BY <2>5, <2>6, <2>7 DEF GoodResult
<1>7. CASE /\ at \in DOMAIN m.cache /\ e.ce # NULL /\ e.ssrc # ssrc
           /\ ~m.heap[e.ce.buffer][e.ce.slot].had_bye
  <2> DEFINE w == Remember(m, at, e.ce, e.irtp, ssrc)
  <2>1. r = Found(w, e.ce, e.irtp)
    BY <1>7 DEF Find
  <2>2. Remembered(m, w, at, e.ce, e.irtp, ssrc)
    BY <1>4, <1>7, RememberFacts
  <2> HIDE DEF w
  <2>3. r.memory = w /\ r.ce = e.ce
    BY <2>1 DEF Found
  <2>4. DOMAIN w.cache = DOMAIN m.cache /\ w.stale = m.stale
    BY <1>7, <2>2 DEF Remembered
  <2>5. Matches(m) => Matches(w)
    <3>1. SUFFICES ASSUME Matches(m), NEW x \in DOMAIN w.cache \ w.stale
                   PROVE  MatchesAt(w.heap, w.cache[x], x)
      BY DEF Matches
    <3>2. MatchesAt(m.heap, m.cache[x], x) /\ EntryOK(m.heap, m.cache[x])
      BY <2>4, <3>1 DEF Matches, MemoryOK
    <3>3. MatchesAt(w.heap, m.cache[x], x)
      BY <1>1, <2>2, <3>2, ShapeMatches DEF Remembered
    <3>4. CASE x = at
      <4>1. w.cache[x].ce = e.ce /\ w.cache[x].irtp = e.irtp
        BY <2>2, <3>4 DEF Remembered
      <4>2. QED
        BY <3>3, <3>4, <4>1 DEF MatchesAt
    <3>5. CASE x # at
      BY <2>2, <2>4, <3>1, <3>3, <3>5 DEF Remembered
    <3>6. QED
      BY <3>4, <3>5
  <2>6. QED
    BY <1>4, <1>7, <2>2, <2>3, <2>4, <2>5 DEF GoodResult, Remembered
<1>8. QED
  BY <1>2, <1>3, <1>5, <1>6, <1>7

(* Two look-ups in a row.                                                   *)
LEMMA GoodAfterGood ==
  ASSUME NEW m, MemoryOK(m), NEW d, GoodResult(m, d), d.ce = NULL,
         NEW r, GoodResult(d.memory, r)
  PROVE  GoodResult(m, r)
<1>1. r.memory.stale \subseteq m.stale \cap DOMAIN r.memory.cache
  BY DEF GoodResult
<1>2. SameShape(r.memory.heap, m.heap)
  BY AlikeTransitive DEF GoodResult
<1>3. d.memory.heap = m.heap
  <2>1. NULL \notin Pointers(m.heap)
    BY PointerFacts DEF MemoryOK
  <2>2. QED
    BY <2>1 DEF GoodResult
<1>4. QED
  BY <1>1, <1>2, <1>3 DEF GoodResult

-----------------------------------------------------------------------------
(* The state, as a memory and the rest.                                     *)
Rest ==
  /\ DOMAIN index \subseteq CallIds
  /\ \A id \in DOMAIN index : index[id] \in DOMAIN Last(heap)
  /\ dumpers \in [Handles -> CallIds \cup {NULL}]
  /\ done.pkt \in Packets \cup {NULL}
  /\ pc \in {"running", "crashed"}

LEMMA EntryIsTyped ==
  ASSUME NEW hp \in Heaps, NEW c
  PROVE  EntryOK(hp, c) <=>
           \/ c = Nowhere
           \/ /\ c \in [ce : [buffer : DOMAIN hp, slot : Nat], irtp : FlowNumbers, ssrc : Nat]
              /\ c.ce.slot \in DOMAIN hp[c.ce.buffer]
BY DEF EntryOK, Pointers

LEMMA TypeByParts ==
  TypeOK <=> MemoryOK(Memory) /\ stale \subseteq DOMAIN cache /\ Rest
<1>1. CASE heap \in Heaps
  <2>1. \A at \in DOMAIN cache : EntryOK(heap, cache[at]) <=>
          \/ cache[at] = Nowhere
          \/ /\ cache[at] \in [ce : [buffer : DOMAIN heap, slot : Nat],
                               irtp : FlowNumbers, ssrc : Nat]
             /\ cache[at].ce.slot \in DOMAIN heap[cache[at].ce.buffer]
    BY <1>1, EntryIsTyped
  <2>2. QED
    BY <1>1, <2>1 DEF TypeOK, MemoryOK, Memory, Rest, Heaps, Table, Last
<1>2. CASE heap \notin Heaps
  BY <1>2 DEF TypeOK, MemoryOK, Memory, Heaps
<1>3. QED
  BY <1>1, <1>2

LEMMA LookUpFacts ==
  ASSUME TypeOK, NEW p \in Packets
  PROVE  GoodResult(Memory, LookUp(p))
<1> DEFINE d == Find(Memory, p.dst, p.ssrc)
<1>1. p.dst \in MediaAddrs /\ p.src \in MediaAddrs /\ p.ssrc \in Nat
  BY PacketsAssumption
<1>2. MemoryOK(Memory) /\ Memory.stale \subseteq DOMAIN Memory.cache
  BY TypeByParts DEF Memory
<1>3. GoodResult(Memory, d)
  BY <1>1, <1>2, FindFacts
<1>4. LookUp(p) = IF d.ce # NULL THEN d ELSE Find(d.memory, p.src, p.ssrc)
  BY DEF LookUp
<1> HIDE DEF d
<1>5. MemoryOK(d.memory) /\ d.memory.stale \subseteq DOMAIN d.memory.cache
  BY <1>3 DEF GoodResult
<1>6. CASE d.ce # NULL
  BY <1>3, <1>4, <1>6
<1>7. CASE d.ce = NULL
  <2>1. GoodResult(d.memory, Find(d.memory, p.src, p.ssrc))
    BY <1>1, <1>5, FindFacts
  <2>2. QED
    BY <1>2, <1>3, <1>4, <1>7, <2>1, GoodAfterGood
<1>8. QED
  BY <1>6, <1>7

(* What the packet has not found leaves the heap as it is.                  *)
LEMMA LookUpFails ==
  ASSUME TypeOK, NEW p \in Packets, LookUp(p).ce = NULL
  PROVE  LookUp(p).memory.heap = heap
<1>1. NULL \notin Pointers(Memory.heap)
  BY TypeByParts, PointerFacts DEF MemoryOK
<1>2. QED
  BY <1>1, LookUpFacts DEF GoodResult, Memory

(* The slot for a new call.                                                 *)
LEMMA NewSlotFacts ==
  ASSUME NEW t \in Seq(Element)
  PROVE  /\ NewSlot(t) \in 1 .. Len(t) + 1
         /\ NewSlot(t) \in DOMAIN t <=> \E i \in DOMAIN t : ~t[i].is_used
         /\ NewSlot(t) \in DOMAIN t => ~t[NewSlot(t)].is_used
<1> DEFINE S == {i \in DOMAIN t : ~t[i].is_used}
<1>1. DOMAIN t = 1 .. Len(t) /\ Len(t) \in Nat
  OBVIOUS
<1>2. CASE S = {}
  <2>1. NewSlot(t) = Len(t) + 1
    BY <1>2 DEF NewSlot
  <2>2. QED
    BY <1>1, <1>2, <2>1
<1>3. CASE S # {}
  <2>1. PICK i \in S : \A j \in S : i <= j
    <3>1. S \in SUBSET Nat
      BY <1>1
    <3>2. QED
      BY <1>3, <3>1, LeastNat
  <2>2. i \in DOMAIN t /\ ~t[i].is_used /\ \A j \in 1 .. i - 1 : t[j].is_used
    BY <1>1, <2>1
  <2>3. NewSlot(t) \in DOMAIN t /\ ~t[NewSlot(t)].is_used
    BY <2>2 DEF NewSlot
  <2>4. QED
    BY <1>1, <2>3
<1>4. QED
  BY <1>2, <1>3

(* A heap whose table has got the element x in its slot i.                  *)
Got(g, hp, i, x) ==
  /\ g \in Heaps
  /\ DOMAIN hp \subseteq DOMAIN g
  /\ \A b \in DOMAIN hp : DOMAIN hp[b] \subseteq DOMAIN g[b]
  /\ DOMAIN Last(g) = DOMAIN Last(hp) \cup {i}
  /\ \A j \in DOMAIN Last(hp) \ {i} : Last(g)[j] = Last(hp)[j]
  /\ Last(g)[i] = x

LEMMA GotByReuse ==
  ASSUME NEW hp \in Heaps, NEW i \in DOMAIN Last(hp), NEW x \in Element,
         NEW g, g = Edited(hp, Len(hp), i, x)
  PROVE  Got(g, hp, i, x) /\ Len(g) = Len(hp)
<1> DEFINE n == Len(hp)
<1>1. n \in DOMAIN hp /\ Last(hp) = hp[n]
  BY HeapFacts DEF Last
<1>2. g = Edited(hp, n, i, x) /\ i \in DOMAIN hp[n]
  BY <1>1
<1> HIDE DEF n
<1>3. /\ g \in Heaps /\ Len(g) = Len(hp) /\ DOMAIN g = DOMAIN hp
      /\ \A c \in DOMAIN hp : /\ DOMAIN g[c] = DOMAIN hp[c]
                              /\ c # n => g[c] = hp[c]
      /\ \A t \in DOMAIN hp[n] : g[n][t] = IF t = i THEN x ELSE hp[n][t]
  BY <1>1, <1>2, HeapEdit
<1>4. Last(g) = g[n]
  BY <1>3 DEF Last, n
<1>5. QED
  BY <1>1, <1>2, <1>3, <1>4 DEF Got

LEMMA AppendElement ==
  ASSUME NEW t \in Seq(Element), NEW x \in Element, NEW u, u = Append(t, x)
  PROVE  /\ u \in Seq(Element) /\ DOMAIN u = 1 .. Len(t) + 1 /\ u[Len(t) + 1] = x
         /\ \A j \in 1 .. Len(t) : u[j] = t[j]
         /\ DOMAIN t = 1 .. Len(t) /\ Len(t) \in Nat
BY AppendProperties

LEMMA GotByAppend ==
  ASSUME NEW hp \in Heaps, NEW x \in Element,
         NEW g, g = Extended(hp, x)
  PROVE  Got(g, hp, Len(Last(hp)) + 1, x) /\ Len(g) = Len(hp)
<1> DEFINE u == Append(Last(hp), x)
           n == Len(hp)
<1>1. /\ hp \in Seq(Seq(Element)) /\ n \in 1 .. Len(hp) /\ DOMAIN hp = 1 .. Len(hp)
      /\ Last(hp) \in Seq(Element) /\ Last(hp) = hp[n] /\ n \in Nat \ {0}
  BY HeapFacts DEF Heaps, Last
<1>2. /\ u \in Seq(Element) /\ DOMAIN u = 1 .. Len(Last(hp)) + 1
      /\ u[Len(Last(hp)) + 1] = x
      /\ \A j \in 1 .. Len(Last(hp)) : u[j] = Last(hp)[j]
      /\ DOMAIN Last(hp) = 1 .. Len(Last(hp)) /\ Len(Last(hp)) \in Nat
  BY <1>1, AppendElement
<1>3. g = [hp EXCEPT ![n] = u]
  BY DEF Extended, Last
<1> HIDE DEF u, n
<1>4. /\ g \in Seq(Seq(Element)) /\ Len(g) = Len(hp)
      /\ \A b \in 1 .. Len(hp) : g[b] = IF b = n THEN u ELSE hp[b]
  BY ONLY <1>1, <1>2, <1>3, ExceptSeq
<1>5. g # << >> /\ DOMAIN g = DOMAIN hp
  BY <1>1, <1>4, HeapFacts
<1>6. Last(g) = u
  BY <1>1, <1>4 DEF Last, n
<1>7. \A b \in DOMAIN hp : DOMAIN hp[b] \subseteq DOMAIN g[b]
  <2>1. \A b \in DOMAIN hp : b # n => g[b] = hp[b]
    BY <1>1, <1>4
  <2>2. g[n] = u /\ DOMAIN hp[n] \subseteq DOMAIN u
    BY <1>1, <1>2, <1>4
  <2>3. QED
    BY <2>1, <2>2
<1>8. DOMAIN u = DOMAIN Last(hp) \cup {Len(Last(hp)) + 1}
  BY <1>2
<1>9. QED
  BY <1>2, <1>4, <1>5, <1>6, <1>7, <1>8 DEF Got, Heaps

LEMMA GotByMove ==
  ASSUME NEW hp \in Heaps, NEW x \in Element,
         NEW g, g = Moved(hp, x)
  PROVE  Got(g, hp, Len(Last(hp)) + 1, x) /\ Len(g) = Len(hp) + 1
<1> DEFINE u == Append(Last(hp), x)
<1>1. /\ hp \in Seq(Seq(Element)) /\ DOMAIN hp = 1 .. Len(hp) /\ Len(hp) \in Nat
      /\ Last(hp) \in Seq(Element)
  BY HeapFacts DEF Heaps, Last
<1>2. /\ u \in Seq(Element) /\ DOMAIN u = 1 .. Len(Last(hp)) + 1
      /\ u[Len(Last(hp)) + 1] = x
      /\ \A j \in 1 .. Len(Last(hp)) : u[j] = Last(hp)[j]
      /\ DOMAIN Last(hp) = 1 .. Len(Last(hp)) /\ Len(Last(hp)) \in Nat
  BY <1>1, AppendElement
<1> HIDE DEF u
<1>3. g = Append(hp, u)
  BY DEF u, Moved, Last
<1>4. /\ g \in Seq(Seq(Element)) /\ g # << >> /\ Len(g) = Len(hp) + 1
      /\ \A b \in 1 .. Len(hp) : g[b] = hp[b]
      /\ g[Len(hp) + 1] = u
  BY <1>1, <1>2, <1>3, AppendProperties
<1>5. Last(g) = u /\ DOMAIN g = 1 .. Len(hp) + 1
  BY <1>1, <1>4 DEF Last
<1>6. DOMAIN u = DOMAIN Last(hp) \cup {Len(Last(hp)) + 1}
  BY <1>2
<1>7. Len(hp) + 1 = Len(g) /\ Len(Last(hp)) + 1 \in DOMAIN u /\ g \in Heaps
  BY <1>1, <1>4, <1>6 DEF Heaps
<1> HIDE DEF Heaps
<1>8. QED
  BY <1>1, <1>2, <1>4, <1>5, <1>6, <1>7 DEF Got

LEMMA BlankIsElement ==
  Blank \in Element /\ Blank.is_used = FALSE /\ Blank.ip_n = 0
BY CacheAssumption DEF Blank, Element, NoFlows, FlowNumbers

LEMMA BegunFacts ==
  ASSUME NEW e \in Element, NEW id \in CallIds, NEW f \in Handles \cup {NULL}, NEW x,
         x = Begun(e, id, f)
  PROVE  /\ x \in Element
         /\ x.is_used /\ ~x.had_bye /\ x.call_id = id /\ x.ip_n = 0 /\ x.f_pcap = f
<1>1. x = [is_used |-> TRUE, had_bye |-> FALSE, call_id |-> id, flows |-> e.flows,
           ip_n |-> 0, f_pcap |-> f]
  BY DEF Element, Begun
<1>2. /\ 0 \in 0 .. MaxIpPerCall
      /\ e.flows \in [FlowNumbers -> [at : MediaAddrs \cup {NULL}, ssrc : Nat]]
  BY CacheAssumption DEF Element
<1>3. QED
  BY <1>1, <1>2 DEF Element

(* What add makes of a heap: i is the slot it takes.                        *)
Added(g, id, f, i) ==
  /\ Got(g, heap, i, Last(g)[i])
  /\ Len(g) = IF MovesTable THEN Len(heap) + 1 ELSE Len(heap)
  /\ i \in DOMAIN Last(heap) => ~Last(heap)[i].is_used
  /\ LET e == Last(g)[i]
     IN  e.is_used /\ ~e.had_bye /\ e.call_id = id /\ e.ip_n = 0 /\ e.f_pcap = f

LEMMA WithElementFacts ==
  ASSUME heap \in Heaps, NEW id \in CallIds, NEW f \in Handles \cup {NULL}
  PROVE  Added(WithElement(id, f), id, f, NewSlot(Table))
<1> SUFFICES ASSUME NEW g, g = WithElement(id, f), NEW i, i = NewSlot(Table)
             PROVE  Added(g, id, f, i)
  OBVIOUS
<1>1. /\ Table \in Seq(Element) /\ Last(heap) = Table
      /\ DOMAIN Table = 1 .. Len(Table) /\ Len(Table) \in Nat
  BY HeapFacts DEF Last, Table
<1>2. /\ i \in 1 .. Len(Table) + 1
      /\ i \in DOMAIN Table <=> \E j \in DOMAIN Table : ~Table[j].is_used
      /\ i \in DOMAIN Table => ~Table[i].is_used
  BY <1>1, NewSlotFacts
<1> DEFINE old == IF i \in DOMAIN Table THEN Table[i] ELSE Blank
<1>3. PICK new : new = Begun(old, id, f)
  OBVIOUS
<1>4. g = CASE i \in DOMAIN Table -> Edited(heap, Len(heap), i, new)
            [] i \notin DOMAIN Table /\ IsFull(Table) -> Moved(heap, new)
            [] OTHER -> Extended(heap, new)
  BY <1>3 DEF WithElement, Begun, Edited, Moved, Extended, Table
<1>5. old \in Element
  BY <1>1, BlankIsElement
<1> HIDE DEF old
<1>6. /\ new \in Element
      /\ new.is_used /\ ~new.had_bye /\ new.call_id = id /\ new.ip_n = 0 /\ new.f_pcap = f
  BY <1>3, <1>5, BegunFacts
<1>7. MovesTable <=> IsFull(Table) /\ i \notin DOMAIN Table
  BY <1>1, <1>2 DEF MovesTable
<1>8. Got(g, heap, i, new) /\ Len(g) = IF MovesTable THEN Len(heap) + 1 ELSE Len(heap)
  <2>1. CASE i \in DOMAIN Table
    <3>1. g = Edited(heap, Len(heap), i, new)
      BY <1>4, <2>1
    <3>2. i \in DOMAIN Last(heap) /\ ~MovesTable
      BY <1>1, <1>7, <2>1
    <3>3. Got(g, heap, i, new) /\ Len(g) = Len(heap)
      BY <1>6, <3>1, <3>2, GotByReuse
    <3>4. QED
      BY <3>2, <3>3
  <2>2. CASE i \notin DOMAIN Table /\ IsFull(Table)
    <3>1. g = Moved(heap, new)
      BY <1>4, <2>2
    <3>2. i = Len(Table) + 1
      BY <1>1, <1>2, <2>2
    <3>3. QED
      BY <1>1, <1>6, <1>7, <2>2, <3>1, <3>2, GotByMove
  <2>3. CASE i \notin DOMAIN Table /\ ~IsFull(Table)
    <3>1. g = Extended(heap, new)
      BY <1>4, <2>3
    <3>2. i = Len(Table) + 1
      BY <1>1, <1>2, <2>3
    <3>3. QED
      BY <1>1, <1>6, <1>7, <2>3, <3>1, <3>2, GotByAppend
  <2>4. QED
    BY <2>1, <2>2, <2>3
<1>9. Last(g)[i] = new
  BY <1>8 DEF Got
<1>10. QED
  BY <1>1, <1>2, <1>6, <1>8, <1>9 DEF Added

-----------------------------------------------------------------------------
(* A SIP packet of the call in a slot.                                      *)
Sips == [callid : CallIds, bye : BOOLEAN, at : {NULL} \cup MediaAddrs]

LEMMA SipOfPacket ==
  ASSUME NEW p \in Packets, p.sip # NULL
  PROVE  p.sip \in Sips
BY PacketsAssumption DEF Sips

Filed(e, sip) == [WithIpPort(e, sip.at) EXCEPT !.had_bye = @ \/ sip.bye]

(* What becomes of the slot: nothing of it but the BYE and a flow.          *)
Messaged(x, e, sip) ==
  /\ x \in Element
  /\ x.is_used = e.is_used /\ x.call_id = e.call_id /\ x.f_pcap = e.f_pcap
  /\ x.had_bye <=> e.had_bye \/ sip.bye
  /\ x.ip_n = IF AddsIpPort(e, sip.at) THEN e.ip_n + 1 ELSE e.ip_n
  /\ \A k \in FlowNumbers :
       x.flows[k].at = IF AddsIpPort(e, sip.at) /\ k = e.ip_n + 1 THEN sip.at
                       ELSE e.flows[k].at

LEMMA FiledFacts ==
  ASSUME NEW e \in Element, NEW sip \in Sips, NEW x, x = Filed(e, sip)
  PROVE  Messaged(x, e, sip)
<1>1. /\ e.flows \in [FlowNumbers -> [at : MediaAddrs \cup {NULL}, ssrc : Nat]]
      /\ e.ip_n \in 0 .. MaxIpPerCall /\ e.had_bye \in BOOLEAN /\ e.is_used \in BOOLEAN
      /\ e.call_id \in CallIds \cup {NULL} /\ e.f_pcap \in Handles \cup {NULL}
      /\ e = [is_used |-> e.is_used, had_bye |-> e.had_bye, call_id |-> e.call_id,
              flows |-> e.flows, ip_n |-> e.ip_n, f_pcap |-> e.f_pcap]
  BY DEF Element
<1>2. sip.at \in MediaAddrs \cup {NULL} /\ sip.bye \in BOOLEAN
  BY DEF Sips
<1>3. CASE AddsIpPort(e, sip.at)
  <2> DEFINE k == e.ip_n + 1
             fl == [e.flows EXCEPT ![k].at = sip.at]
  <2>1. k \in FlowNumbers /\ k \in 0 .. MaxIpPerCall
    BY <1>1, <1>3, CacheAssumption DEF AddsIpPort, FlowNumbers
  <2>2. /\ fl \in [FlowNumbers -> [at : MediaAddrs \cup {NULL}, ssrc : Nat]]
        /\ \A j \in FlowNumbers : fl[j].at = IF j = k THEN sip.at ELSE e.flows[j].at
    BY <1>1, <1>2, <2>1
  <2>3. x = [is_used |-> e.is_used, had_bye |-> e.had_bye \/ sip.bye, call_id |-> e.call_id,
             flows |-> fl, ip_n |-> k, f_pcap |-> e.f_pcap]
    BY <1>1, <1>3 DEF Filed, WithIpPort
  <2> HIDE DEF fl
  <2>4. QED
    BY <1>1, <1>2, <1>3, <2>1, <2>2, <2>3 DEF Messaged, Element
<1>4. CASE ~AddsIpPort(e, sip.at)
  <2>1. x = [is_used |-> e.is_used, had_bye |-> e.had_bye \/ sip.bye, call_id |-> e.call_id,
             flows |-> e.flows, ip_n |-> e.ip_n, f_pcap |-> e.f_pcap]
    BY <1>1, <1>4 DEF Filed, WithIpPort
  <2>2. QED
    BY <1>1, <1>2, <1>4, <2>1 DEF Messaged, Element
<1>5. QED
  BY <1>3, <1>4

(* The memory after it.                                                     *)
AfterMessage(r, m, sip, i) ==
  LET e == Last(m.heap)[i]
      entry == [ce |-> [buffer |-> Len(m.heap), slot |-> i], irtp |-> e.ip_n + 1, ssrc |-> 0]
  IN  /\ r = [heap |-> r.heap, cache |-> r.cache, stale |-> r.stale]
      /\ r.heap = Edited(m.heap, Len(m.heap), i, Filed(e, sip))
      /\ r.cache = IF AddsIpPort(e, sip.at) THEN Set(m.cache, sip.at, entry) ELSE m.cache
      /\ r.stale = IF AddsIpPort(e, sip.at) THEN m.stale \ {sip.at} ELSE m.stale

(* The shape of the heap but for what the slot i of the table holds.        *)
ShapeBut(g, hp, i, x) ==
  /\ g \in Heaps /\ Len(g) = Len(hp) /\ DOMAIN g = DOMAIN hp
  /\ \A b \in DOMAIN hp : DOMAIN g[b] = DOMAIN hp[b]
  /\ DOMAIN Last(g) = DOMAIN Last(hp) /\ Pointers(g) = Pointers(hp)
  /\ \A j \in DOMAIN Last(hp) : Last(g)[j] = IF j = i THEN x ELSE Last(hp)[j]

LEMMA EditedShape ==
  ASSUME NEW hp \in Heaps, NEW i \in DOMAIN Last(hp), NEW x \in Element,
         NEW g, g = Edited(hp, Len(hp), i, x)
  PROVE  ShapeBut(g, hp, i, x)
<1> DEFINE n == Len(hp)
<1>1. n \in DOMAIN hp /\ Last(hp) = hp[n]
  BY HeapFacts DEF Last
<1>2. g = Edited(hp, n, i, x) /\ i \in DOMAIN hp[n]
  BY <1>1
<1> HIDE DEF n
<1>3. /\ g \in Heaps /\ Len(g) = Len(hp) /\ DOMAIN g = DOMAIN hp
      /\ \A c \in DOMAIN hp : DOMAIN g[c] = DOMAIN hp[c]
      /\ \A t \in DOMAIN hp[n] : g[n][t] = IF t = i THEN x ELSE hp[n][t]
  BY <1>1, <1>2, HeapEdit
<1>4. Last(g) = g[n]
  BY <1>3 DEF Last, n
<1>5. Pointers(g) = Pointers(hp)
  BY <1>3 DEF Pointers
<1>6. QED
  BY <1>1, <1>3, <1>4, <1>5 DEF ShapeBut

LEMMA MessageFacts ==
  ASSUME NEW m, MemoryOK(m), m.stale \subseteq DOMAIN m.cache,
         NEW sip \in Sips, NEW i \in DOMAIN Last(m.heap),
         NEW r, AfterMessage(r, m, sip, i)
  PROVE  /\ MemoryOK(r) /\ r.stale \subseteq DOMAIN r.cache
         /\ ShapeBut(r.heap, m.heap, i, Last(r.heap)[i])
         /\ Messaged(Last(r.heap)[i], Last(m.heap)[i], sip)
         /\ Matches(m) => Matches(r)
<1> DEFINE e == Last(m.heap)[i]
           n == Len(m.heap)
           entry == [ce |-> [buffer |-> n, slot |-> i], irtp |-> e.ip_n + 1, ssrc |-> 0]
<1>1. /\ m.heap \in Heaps /\ n \in DOMAIN m.heap /\ Last(m.heap) = m.heap[n]
      /\ DOMAIN Last(m.heap) \subseteq Nat
      /\ \A j \in DOMAIN Last(m.heap) : Last(m.heap)[j] \in Element
  BY HeapFacts DEF MemoryOK, Last
<1>2. PICK x : x = Filed(e, sip)
  OBVIOUS
<1>3. Messaged(x, e, sip) /\ x \in Element
  <2>1. Messaged(x, e, sip)
    BY <1>1, <1>2, FiledFacts
  <2>2. QED
    BY <2>1 DEF Messaged
<1>4. ShapeBut(r.heap, m.heap, i, x)
  BY <1>1, <1>2, <1>3, EditedShape DEF AfterMessage
<1>5. Last(r.heap)[i] = x
  BY <1>4 DEF ShapeBut
<1>6. ASSUME AddsIpPort(e, sip.at)
      PROVE  /\ DOMAIN r.cache = DOMAIN m.cache \cup {sip.at} /\ r.cache[sip.at] = entry
             /\ \A y \in DOMAIN m.cache \ {sip.at} : r.cache[y] = m.cache[y]
             /\ r.stale = m.stale \ {sip.at}
             /\ sip.at \in MediaAddrs
             /\ e.ip_n + 1 \in FlowNumbers
  <2>1. r.cache = Set(m.cache, sip.at, entry) /\ r.stale = m.stale \ {sip.at}
    BY <1>6 DEF AfterMessage
  <2>2. sip.at \in MediaAddrs
    BY <1>6 DEF AddsIpPort, Sips
  <2>3. e.ip_n + 1 \in FlowNumbers
    BY <1>1, <1>6, CacheAssumption DEF AddsIpPort, Element, FlowNumbers
  <2> HIDE DEF entry
  <2> DEFINE ch == Set(m.cache, sip.at, entry)
  <2>4. /\ DOMAIN ch = DOMAIN m.cache \cup {sip.at} /\ ch[sip.at] = entry
        /\ \A y \in DOMAIN m.cache \ {sip.at} : ch[y] = m.cache[y]
    BY DEF Set
  <2> HIDE DEF ch
  <2>5. r.cache = ch
    BY <2>1 DEF ch
  <2>6. QED
    BY <2>1, <2>2, <2>3, <2>4, <2>5
<1>7. ASSUME ~AddsIpPort(e, sip.at)
      PROVE  r.cache = m.cache /\ r.stale = m.stale
  BY <1>7 DEF AfterMessage
<1>8. \A c : EntryOK(m.heap, c) => EntryOK(r.heap, c)
  BY <1>4 DEF ShapeBut, EntryOK
<1>9. AddsIpPort(e, sip.at) => EntryOK(m.heap, entry)
  BY <1>1, <1>6 DEF EntryOK, Pointers
<1>10. MemoryOK(r) /\ r.stale \subseteq DOMAIN r.cache
  <2>1. DOMAIN r.cache \subseteq MediaAddrs /\ r.stale \subseteq DOMAIN r.cache
    BY <1>6, <1>7 DEF MemoryOK
  <2>2. ASSUME NEW y \in DOMAIN r.cache
        PROVE  EntryOK(r.heap, r.cache[y])
    <3>1. EntryOK(m.heap, r.cache[y])
      BY <1>6, <1>7, <1>9, <2>2 DEF MemoryOK
    <3>2. QED
      BY <1>8, <3>1
  <2>3. r = [heap |-> r.heap, cache |-> r.cache, stale |-> r.stale] /\ r.heap \in Heaps
    BY <1>4 DEF AfterMessage, ShapeBut
  <2>4. QED
    BY <2>1, <2>2, <2>3 DEF MemoryOK
<1> HIDE DEF e, n
<1>11. ASSUME Matches(m), NEW y \in DOMAIN r.cache \ r.stale
       PROVE  MatchesAt(r.heap, r.cache[y], y)
  <2>1. CASE AddsIpPort(e, sip.at) /\ y = sip.at
    <3>1. r.cache[y] = entry /\ entry.ce # NULL
      <4>1. [buffer |-> n, slot |-> i] \in Pointers(m.heap)
        BY <1>1 DEF Pointers
      <4>2. QED
        BY <1>1, <1>6, <2>1, <4>1, PointerFacts
    <3>2. /\ x.ip_n = e.ip_n + 1 /\ x.flows[e.ip_n + 1].at = y
      BY <1>3, <1>6, <2>1 DEF Messaged
    <3>3. e.ip_n + 1 <= x.ip_n
      BY <1>6, <2>1, <3>2 DEF FlowNumbers
    <3>4. Len(r.heap) = n
      BY <1>4 DEF ShapeBut, n
    <3>5. QED
      BY <1>5, <3>1, <3>2, <3>3, <3>4 DEF MatchesAt
  <2>2. CASE ~(AddsIpPort(e, sip.at) /\ y = sip.at)
    <3>1. /\ y \in DOMAIN m.cache \ m.stale /\ r.cache[y] = m.cache[y]
      BY <1>6, <1>7, <1>11, <2>2
    <3>2. PICK c : c = m.cache[y]
      OBVIOUS
    <3>3. MatchesAt(m.heap, c, y) /\ EntryOK(m.heap, c)
      BY <1>11, <3>1, <3>2 DEF Matches, MemoryOK
    <3>4. \A k \in 1 .. x.ip_n : x.flows[k].at = y => Tracks(e, y)
      <4>1. e \in Element
        BY <1>1 DEF e
      <4>2. SUFFICES ASSUME NEW k \in 1 .. x.ip_n, x.flows[k].at = y
                     PROVE  Tracks(e, y)
        OBVIOUS
      <4>3. k \in FlowNumbers /\ e.ip_n \in Nat
        BY <1>3, <4>1, CacheAssumption DEF Element, FlowNumbers
      <4>4. ~(AddsIpPort(e, sip.at) /\ k = e.ip_n + 1)
        BY <1>3, <2>2, <4>2, <4>3 DEF Messaged
      <4>5. k \in 1 .. e.ip_n /\ e.flows[k].at = y
        BY <1>3, <4>2, <4>3, <4>4 DEF Messaged
      <4>6. QED
        BY <4>5 DEF Tracks
    <3>5. CASE c.ce = NULL
      <4>1. ASSUME NEW j \in DOMAIN Last(r.heap), Tracks(Last(r.heap)[j], y)
            PROVE  Last(r.heap)[j].had_bye
        <5>1. j \in DOMAIN Last(m.heap)
          BY <1>4, <4>1 DEF ShapeBut
        <5>2. Tracks(Last(m.heap)[j], y)
          BY <1>4, <3>4, <4>1, <5>1 DEF ShapeBut, Tracks, e
        <5>3. Last(m.heap)[j].had_bye
          BY <3>3, <3>5, <5>1, <5>2 DEF MatchesAt
        <5>4. QED
          BY <1>3, <1>4, <5>1, <5>3 DEF ShapeBut, Messaged, e
      <4>2. QED
        BY <3>1, <3>2, <3>5, <4>1 DEF MatchesAt
    <3>6. CASE c.ce # NULL
      <4>1. c.ce \in Pointers(m.heap) /\ c.irtp \in FlowNumbers /\ c.ce.buffer = Len(m.heap)
            /\ c.irtp <= Last(m.heap)[c.ce.slot].ip_n
            /\ Last(m.heap)[c.ce.slot].flows[c.irtp].at = y
        BY <1>1, <3>3, <3>6, PointerFacts DEF MatchesAt
      <4>2. c.ce.slot \in DOMAIN Last(m.heap)
        BY <4>1 DEF Pointers, Last
      <4>3. c.irtp <= e.ip_n => c.irtp <= x.ip_n /\ x.flows[c.irtp].at = e.flows[c.irtp].at
        <5>1. e.ip_n \in Nat /\ c.irtp \in Nat
          BY <1>1, <4>1, CacheAssumption DEF e, Element, FlowNumbers
        <5>2. QED
          BY <1>3, <4>1, <5>1 DEF Messaged
      <4>4. /\ c.irtp <= Last(r.heap)[c.ce.slot].ip_n
            /\ Last(r.heap)[c.ce.slot].flows[c.irtp].at = y
        BY <1>4, <4>1, <4>2, <4>3 DEF ShapeBut, e
      <4>5. c.ce.buffer = Len(r.heap)
        BY <1>4, <4>1 DEF ShapeBut
      <4>6. QED
        BY <3>1, <3>2, <3>6, <4>4, <4>5 DEF MatchesAt
    <3>7. QED
      BY <3>5, <3>6
  <2>3. QED
    BY <2>1, <2>2
<1>12. Matches(m) => Matches(r)
  BY <1>11 DEF Matches
<1>13. QED
  BY <1>3, <1>4, <1>5, <1>10, <1>12 DEF e

-----------------------------------------------------------------------------
(* The memory after add.                                                    *)
LEMMA AddedMemory ==
  ASSUME NEW m, MemoryOK(m), m.heap = heap, m.stale \subseteq DOMAIN m.cache,
         NEW id, NEW f, NEW i, NEW g, Added(g, id, f, i),
         NEW r, r = [heap |-> g, cache |-> m.cache,
                     stale |-> m.stale \cup LeftBehind(m.cache, i)]
  PROVE  /\ MemoryOK(r) /\ r.stale \subseteq DOMAIN r.cache
         /\ Matches(m) => Matches(r)
<1>1. /\ heap \in Heaps /\ g \in Heaps /\ Got(g, heap, i, Last(g)[i])
      /\ r.heap = g /\ r.cache = m.cache
      /\ r.stale = m.stale \cup LeftBehind(m.cache, i)
  BY DEF MemoryOK, Added, Got
<1>2. \A c : EntryOK(heap, c) => EntryOK(g, c)
  <2>1. Pointers(heap) \subseteq Pointers(g)
    BY <1>1 DEF Got, Pointers
  <2>2. QED
    BY <2>1 DEF EntryOK
<1>3. MemoryOK(r) /\ r.stale \subseteq DOMAIN r.cache
  <2>1. r.stale \subseteq DOMAIN r.cache
    BY <1>1 DEF LeftBehind
  <2>2. \A y \in DOMAIN r.cache : EntryOK(g, r.cache[y])
    BY <1>1, <1>2 DEF MemoryOK
  <2>3. QED
    BY <1>1, <2>1, <2>2 DEF MemoryOK
<1>4. ASSUME Matches(m), NEW y \in DOMAIN r.cache \ r.stale
      PROVE  MatchesAt(g, r.cache[y], y)
  <2>1. PICK c : c = m.cache[y]
    OBVIOUS
  <2>2. MatchesAt(heap, c, y) /\ EntryOK(heap, c) /\ r.cache[y] = c
    BY <1>1, <1>4, <2>1 DEF Matches, MemoryOK
  <2>3. ~Tracks(Last(g)[i], y)
    BY DEF Added, Tracks
  <2>4. CASE c.ce = NULL
    <3>1. ASSUME NEW j \in DOMAIN Last(g), Tracks(Last(g)[j], y)
          PROVE  Last(g)[j].had_bye
      <4>1. j \in DOMAIN Last(heap) /\ Last(g)[j] = Last(heap)[j]
        BY <1>1, <2>3, <3>1 DEF Got
      <4>2. QED
        BY <2>2, <2>4, <3>1, <4>1 DEF MatchesAt
    <3>2. QED
      BY <2>2, <2>4, <3>1 DEF MatchesAt
  <2>5. CASE c.ce # NULL
    <3>1. /\ c.ce \in Pointers(heap) /\ c.ce.buffer = Len(heap)
          /\ c.irtp <= Last(heap)[c.ce.slot].ip_n
          /\ Last(heap)[c.ce.slot].flows[c.irtp].at = y
      BY <1>1, <2>2, <2>5, PointerFacts DEF MatchesAt
    <3>2. ~MovesTable /\ c.ce # Pointer(i)
      BY <1>1, <1>4, <2>1, <2>5 DEF LeftBehind
    <3>3. c.ce.slot \in DOMAIN Last(heap) /\ c.ce.slot # i
      BY <3>1, <3>2 DEF Pointers, Pointer, Last
    <3>4. Last(g)[c.ce.slot] = Last(heap)[c.ce.slot]
      BY <1>1, <3>3 DEF Got
    <3>5. Len(g) = Len(heap)
      BY <3>2 DEF Added
    <3>6. QED
      BY <2>2, <2>5, <3>1, <3>4, <3>5 DEF MatchesAt
  <2>6. QED
    BY <2>4, <2>5
<1>5. QED
  BY <1>1, <1>3, <1>4 DEF Matches

(* The heap after a clean-up of the slots K.                                *)
Swept(hp, K) ==
  [hp EXCEPT ![Len(hp)] = [j \in DOMAIN hp[Len(hp)] |->
                             IF j \in K THEN Blank ELSE hp[Len(hp)][j]]]

LEMMA SweptShape ==
  ASSUME NEW hp \in Heaps, NEW K, NEW g, g = Swept(hp, K)
  PROVE  /\ g \in Heaps /\ Len(g) = Len(hp) /\ DOMAIN g = DOMAIN hp
         /\ DOMAIN Last(g) = DOMAIN Last(hp) /\ Pointers(g) = Pointers(hp)
         /\ \A j \in DOMAIN Last(hp) : Last(g)[j] = IF j \in K THEN Blank ELSE Last(hp)[j]
<1> DEFINE n == Len(hp)
           u == [j \in DOMAIN Last(hp) |-> IF j \in K THEN Blank ELSE Last(hp)[j]]
<1>1. /\ hp \in Seq(Seq(Element)) /\ n \in 1 .. Len(hp) /\ DOMAIN hp = 1 .. Len(hp)
      /\ Last(hp) \in Seq(Element) /\ Last(hp) = hp[n] /\ Len(hp) \in Nat \ {0}
      /\ DOMAIN Last(hp) = 1 .. Len(Last(hp)) /\ Len(Last(hp)) \in Nat
  BY HeapFacts DEF Heaps, Last
<1>2. u \in Seq(Element)
  <2>1. \A j \in 1 .. Len(Last(hp)) : (IF j \in K THEN Blank ELSE Last(hp)[j]) \in Element
    BY <1>1, BlankIsElement
  <2>2. u = [j \in 1 .. Len(Last(hp)) |-> IF j \in K THEN Blank ELSE Last(hp)[j]]
    BY <1>1
  <2>3. u \in [1 .. Len(Last(hp)) -> Element]
    BY <2>1, <2>2, Zenon
  <2>4. QED
    BY <1>1, <2>3, SeqDef
<1>3. /\ DOMAIN u = DOMAIN Last(hp)
      /\ \A j \in DOMAIN Last(hp) : u[j] = IF j \in K THEN Blank ELSE Last(hp)[j]
  OBVIOUS
<1>4. g = [hp EXCEPT ![n] = u]
  BY DEF Swept, Last
<1> HIDE DEF u, n
<1>5. /\ g \in Seq(Seq(Element)) /\ Len(g) = Len(hp)
      /\ \A b \in 1 .. Len(hp) : g[b] = IF b = n THEN u ELSE hp[b]
  BY ONLY <1>1, <1>2, <1>4, ExceptSeq
<1>6. g # << >> /\ DOMAIN g = DOMAIN hp
  BY <1>1, <1>5, HeapFacts
<1>7. Last(g) = u
  BY <1>1, <1>5 DEF Last, n
<1>8. \A b \in DOMAIN hp : DOMAIN g[b] = DOMAIN hp[b]
  BY <1>1, <1>3, <1>5
<1>9. Pointers(g) = Pointers(hp)
  BY <1>6, <1>8 DEF Pointers
<1>10. QED
  BY <1>3, <1>5, <1>6, <1>7, <1>9 DEF Heaps

(* The entries that lead to slots of the table among K.                      *)
Leading(m, K) ==
  {at \in DOMAIN m.cache : \E j \in K : m.cache[at].ce = [buffer |-> Len(m.heap), slot |-> j]}

LEMMA SweptMemory ==
  ASSUME NEW m, MemoryOK(m), m.stale \subseteq DOMAIN m.cache, NEW K,
         NEW g, g = Swept(m.heap, K),
         NEW r, r = [heap |-> g, cache |-> m.cache, stale |-> m.stale \cup Leading(m, K)]
  PROVE  /\ MemoryOK(r) /\ r.stale \subseteq DOMAIN r.cache
         /\ Matches(m) => Matches(r)
<1> DEFINE hp == m.heap
<1>1. hp \in Heaps /\ r.heap = g /\ r.cache = m.cache
  BY DEF MemoryOK
<1>2. /\ g \in Heaps /\ Len(g) = Len(hp) /\ DOMAIN Last(g) = DOMAIN Last(hp)
      /\ Pointers(g) = Pointers(hp)
      /\ \A j \in DOMAIN Last(hp) : Last(g)[j] = IF j \in K THEN Blank ELSE Last(hp)[j]
  BY <1>1, SweptShape
<1>3. r.stale \subseteq DOMAIN r.cache
  BY DEF Leading
<1>4. MemoryOK(r)
  BY <1>1, <1>2 DEF MemoryOK, EntryOK
<1>5. ASSUME Matches(m), NEW y \in DOMAIN r.cache \ r.stale
      PROVE  MatchesAt(g, r.cache[y], y)
  <2>1. PICK c : c = m.cache[y]
    OBVIOUS
  <2>2. MatchesAt(hp, c, y) /\ EntryOK(hp, c) /\ r.cache[y] = c
    BY <1>1, <1>5, <2>1 DEF Matches, MemoryOK
  <2>3. ~Tracks(Blank, y)
    BY BlankIsElement DEF Tracks
  <2>4. CASE c.ce = NULL
    <3>1. ASSUME NEW j \in DOMAIN Last(g), Tracks(Last(g)[j], y)
          PROVE  Last(g)[j].had_bye
      <4>1. j \in DOMAIN Last(hp) /\ Last(g)[j] = Last(hp)[j]
        BY <1>2, <2>3, <3>1
      <4>2. QED
        BY <2>2, <2>4, <3>1, <4>1 DEF MatchesAt
    <3>2. QED
      BY <2>2, <2>4, <3>1 DEF MatchesAt
  <2>5. CASE c.ce # NULL
    <3>1. /\ c.ce \in Pointers(hp) /\ c.ce.buffer = Len(hp)
          /\ c.irtp <= Last(hp)[c.ce.slot].ip_n
          /\ Last(hp)[c.ce.slot].flows[c.irtp].at = y
      BY <1>1, <2>2, <2>5, PointerFacts DEF MatchesAt
    <3>2. c.ce = [buffer |-> Len(hp), slot |-> c.ce.slot]
      BY <3>1 DEF Pointers
    <3>3. c.ce.slot \notin K
      BY <1>5, <2>1, <3>2 DEF Leading
    <3>4. c.ce.slot \in DOMAIN Last(hp)
      BY <3>1 DEF Pointers, Last
    <3>5. QED
      BY <1>2, <2>2, <2>5, <3>1, <3>3, <3>4 DEF MatchesAt
  <2>6. QED
    BY <2>4, <2>5
<1>6. QED
  BY <1>1, <1>3, <1>4, <1>5 DEF Matches

-----------------------------------------------------------------------------
(* The steps.  What they may do to the calls of the table, of which neither *)
(* BYE nor flows count:                                                     *)
SameCall(d, e) == d.is_used = e.is_used /\ d.call_id = e.call_id /\ d.f_pcap = e.f_pcap

KeepsCalls(g, hp) ==
  /\ DOMAIN Last(g) = DOMAIN Last(hp)
  /\ \A i \in DOMAIN Last(hp) : SameCall(Last(g)[i], Last(hp)[i])

BeginsCall(g, hp, id, f, i) ==
  /\ DOMAIN Last(g) = DOMAIN Last(hp) \cup {i}
  /\ i \in DOMAIN Last(hp) => ~Last(hp)[i].is_used
  /\ \A j \in DOMAIN Last(hp) \ {i} : SameCall(Last(g)[j], Last(hp)[j])
  /\ Last(g)[i].is_used /\ Last(g)[i].call_id = id /\ Last(g)[i].f_pcap = f

EndsCalls(g, hp, K) ==
  /\ DOMAIN Last(g) = DOMAIN Last(hp)
  /\ \A i \in K : ~Last(g)[i].is_used
  /\ \A i \in DOMAIN Last(hp) \ K : Last(g)[i] = Last(hp)[i]

(* The next state by parts.                                                 *)
LEMMA TypeNext ==
  ASSUME NEW r, r = [heap |-> heap', cache |-> cache', stale |-> stale'],
         MemoryOK(r), r.stale \subseteq DOMAIN r.cache, Rest'
  PROVE  TypeOK'
<1>1. /\ heap' \in Heaps /\ DOMAIN cache' \subseteq MediaAddrs
      /\ stale' \subseteq DOMAIN cache'
      /\ \A at \in DOMAIN cache' : EntryOK(heap', cache'[at])
  BY DEF MemoryOK
<1>2. \A at \in DOMAIN cache' :
        \/ cache'[at] = Nowhere
        \/ /\ cache'[at] \in [ce : [buffer : DOMAIN heap', slot : Nat],
                               irtp : FlowNumbers, ssrc : Nat]
           /\ cache'[at].ce.slot \in DOMAIN heap'[cache'[at].ce.buffer]
  BY <1>1, EntryIsTyped
<1>3. QED
  BY <1>1, <1>2 DEF TypeOK, Rest, Heaps, Table, Last

LEMMA MatchesNow ==
  CacheMatchesTable <=> Matches(Memory)
BY DEF CacheMatchesTable, Matches, MatchesAt, Memory, Table, Last

LEMMA MatchesNext ==
  ASSUME NEW r, r = [heap |-> heap', cache |-> cache', stale |-> stale']
  PROVE  CacheMatchesTable' <=> Matches(r)
BY DEF CacheMatchesTable, Matches, MatchesAt, Table, Last

LEMMA ShapeKeepsCalls ==
  ASSUME NEW hp \in Heaps, NEW g \in Heaps, SameShape(g, hp)
  PROVE  KeepsCalls(g, hp)
<1>1. Len(g) = Len(hp) /\ Len(hp) \in DOMAIN hp
  BY HeapFacts DEF SameShape
<1>2. QED
  BY <1>1 DEF SameShape, Alike, KeepsCalls, SameCall, Last

(* A look-up, and nothing else.                                             *)
LEMMA LookUpStep ==
  ASSUME TypeOK, NEW r, r = [heap |-> heap', cache |-> cache', stale |-> stale'],
         NEW d, GoodResult(Memory, d), r = d.memory,
         done'.pkt \in Packets \cup {NULL}, UNCHANGED <<index, dumpers, pc>>
  PROVE  /\ TypeOK' /\ (CacheMatchesTable => CacheMatchesTable')
         /\ KeepsCalls(heap', heap)
<1>1. /\ MemoryOK(r) /\ r.stale \subseteq DOMAIN r.cache /\ SameShape(heap', heap)
      /\ Matches(Memory) => Matches(r)
      /\ heap' \in Heaps /\ heap \in Heaps
  BY TypeByParts DEF GoodResult, MemoryOK, Memory
<1>2. KeepsCalls(heap', heap)
  BY <1>1, ShapeKeepsCalls
<1>3. Rest'
  BY <1>2, TypeByParts DEF Rest, KeepsCalls
<1>4. QED
  BY <1>1, <1>2, <1>3, TypeNext, MatchesNow, MatchesNext

LEMMA QuietStep ==
  ASSUME TypeOK, NEW p \in Packets, Media(p) \/ MediaCrashes(p) \/ Ignored(p)
  PROVE  /\ TypeOK' /\ (CacheMatchesTable => CacheMatchesTable')
         /\ KeepsCalls(heap', heap) /\ UNCHANGED <<index, dumpers>>
<1>1. PICK r : r = [heap |-> heap', cache |-> cache', stale |-> stale']
  OBVIOUS
<1>2. PICK d : d = LookUp(p)
  OBVIOUS
<1>3. GoodResult(Memory, d)
  BY <1>2, LookUpFacts
<1>4. d.memory = [heap |-> d.memory.heap, cache |-> d.memory.cache, stale |-> d.memory.stale]
  BY <1>3 DEF GoodResult, MemoryOK
<1>5. CASE Media(p)
  <2>1. /\ heap' = d.memory.heap /\ cache' = d.memory.cache /\ stale' = d.memory.stale
        /\ done'.pkt = p /\ UNCHANGED <<index, dumpers, pc>>
    BY <1>2, <1>5 DEF Media
  <2>2. r = d.memory
    BY <1>1, <1>4, <2>1
  <2>3. QED
    BY <1>1, <1>3, <2>1, <2>2, LookUpStep
<1>6. CASE Ignored(p)
  <2>1. d.ce = NULL
    BY <1>2, <1>6 DEF Ignored
  <2>2. d.memory.heap = heap
    BY <1>2, <2>1, LookUpFails
  <2>3. /\ heap' = d.memory.heap /\ cache' = d.memory.cache /\ stale' = d.memory.stale
        /\ done'.pkt = p /\ UNCHANGED <<index, dumpers, pc>>
    BY <1>2, <1>6, <2>2 DEF Ignored, Nothing
  <2>4. r = d.memory
    BY <1>1, <1>4, <2>3
  <2>5. QED
    BY <1>1, <1>3, <2>3, <2>4, LookUpStep
<1>7. CASE MediaCrashes(p)
  <2>1. /\ UNCHANGED <<heap, index, cache, dumpers, stale>>
        /\ done'.pkt = NULL /\ pc' = "crashed"
    BY <1>7 DEF MediaCrashes, Nothing
  <2>2. TypeOK'
    BY <2>1 DEF TypeOK, Table
  <2>3. CacheMatchesTable => CacheMatchesTable'
    BY <2>1 DEF CacheMatchesTable, Table
  <2>4. KeepsCalls(heap', heap)
    BY <2>1 DEF KeepsCalls, SameCall
  <2>5. QED
    BY <2>1, <2>2, <2>3, <2>4
<1>8. QED
  BY <1>5, <1>6, <1>7

(* The effect of FileMessage, as AfterMessage sees it.                      *)
LEMMA MessageStep ==
  ASSUME NEW p \in Packets, p.sip # NULL, NEW m, MemoryOK(m), m.stale \subseteq DOMAIN m.cache,
         NEW i \in DOMAIN Last(m.heap), FileMessage(p, m.heap, m.cache, m.stale, i),
         NEW r, r = [heap |-> heap', cache |-> cache', stale |-> stale']
  PROVE  /\ MemoryOK(r) /\ r.stale \subseteq DOMAIN r.cache
         /\ Matches(m) => Matches(r)
         /\ KeepsCalls(heap', m.heap)
         /\ done'.pkt = p /\ done'.file = Last(m.heap)[i].f_pcap
<1>1. AfterMessage(r, m, p.sip, i)
  <2> DEFINE n == Len(m.heap)
             e == Last(m.heap)[i]
             entry == [ce |-> [buffer |-> n, slot |-> i], irtp |-> e.ip_n + 1, ssrc |-> 0]
  <2>1. e = m.heap[n][i]
    BY DEF Last
  <2>2. heap' = Edited(m.heap, n, i, Filed(e, p.sip))
    BY DEF FileMessage, Edited, Filed, Last
  <2>3. /\ cache' = IF AddsIpPort(e, p.sip.at) THEN Set(m.cache, p.sip.at, entry) ELSE m.cache
        /\ stale' = IF AddsIpPort(e, p.sip.at) THEN m.stale \ {p.sip.at} ELSE m.stale
    BY <2>1 DEF FileMessage, EntryFor, IndexedFlow
  <2> HIDE DEF entry
  <2>4. QED
    BY <2>2, <2>3 DEF AfterMessage, entry
<1>2. p.sip \in Sips
  BY SipOfPacket
<1>3. /\ MemoryOK(r) /\ r.stale \subseteq DOMAIN r.cache
      /\ ShapeBut(heap', m.heap, i, Last(heap')[i])
      /\ Messaged(Last(heap')[i], Last(m.heap)[i], p.sip)
      /\ Matches(m) => Matches(r)
  BY <1>1, <1>2, MessageFacts
<1>4. KeepsCalls(heap', m.heap)
  BY <1>3 DEF KeepsCalls, SameCall, ShapeBut, Messaged
<1>5. done'.pkt = p /\ done'.file = Last(m.heap)[i].f_pcap
  BY DEF FileMessage, Last
<1>6. QED
  BY <1>3, <1>4, <1>5

LEMMA KnownStep ==
  ASSUME TypeOK, NEW p \in Packets, SipOfKnownCall(p)
  PROVE  /\ TypeOK' /\ (CacheMatchesTable => CacheMatchesTable')
         /\ KeepsCalls(heap', heap) /\ UNCHANGED <<index, dumpers>>
         /\ done'.pkt = p /\ p.sip.callid \in DOMAIN index
         /\ done'.file = Last(heap)[index[p.sip.callid]].f_pcap
<1>1. PICK r : r = [heap |-> heap', cache |-> cache', stale |-> stale']
  OBVIOUS
<1>2. PICK d : d = LookUp(p)
  OBVIOUS
<1>3. PICK m : m = d.memory
  OBVIOUS
<1>4. /\ p.sip # NULL /\ d.ce = NULL /\ p.sip.callid \in DOMAIN index
      /\ FileMessage(p, heap, m.cache, m.stale, index[p.sip.callid])
      /\ UNCHANGED <<index, dumpers, pc>>
  BY <1>2, <1>3 DEF SipOfKnownCall, IsSip, Knows
<1>5. GoodResult(Memory, d) /\ m.heap = heap
  BY <1>2, <1>3, <1>4, LookUpFacts, LookUpFails
<1>6. /\ MemoryOK(m) /\ m.stale \subseteq DOMAIN m.cache
      /\ Matches(Memory) => Matches(m)
  BY <1>3, <1>5 DEF GoodResult
<1>7. index[p.sip.callid] \in DOMAIN Last(heap)
  BY <1>4, TypeByParts DEF Rest
<1>8. /\ MemoryOK(r) /\ r.stale \subseteq DOMAIN r.cache
      /\ Matches(m) => Matches(r)
      /\ KeepsCalls(heap', heap)
      /\ done'.pkt = p /\ done'.file = Last(heap)[index[p.sip.callid]].f_pcap
  BY <1>1, <1>4, <1>5, <1>6, <1>7, MessageStep
<1>9. Rest'
  BY <1>4, <1>8, TypeByParts DEF Rest, KeepsCalls
<1>10. QED
  BY <1>1, <1>4, <1>6, <1>8, <1>9, TypeNext, MatchesNow, MatchesNext

(* The file and the index entry of a new call.                              *)
Opened(f, id) ==
  \/ f = NULL /\ dumpers' = dumpers
  \/ f \in Handles /\ dumpers[f] = NULL /\ dumpers' = [dumpers EXCEPT ![f] = id]

NewCall(p, f, i) ==
  /\ p.sip.callid \in CallIds \ DOMAIN index
  /\ index' = Set(index, p.sip.callid, i)
  /\ Opened(f, p.sip.callid)
  /\ i \in DOMAIN Last(heap')
  /\ BeginsCall(heap', heap, p.sip.callid, f, i)
  /\ done'.pkt = p /\ done'.file = f

LEMMA NewStep ==
  ASSUME TypeOK, NEW p \in Packets, SipOfNewCall(p)
  PROVE  /\ TypeOK' /\ (CacheMatchesTable => CacheMatchesTable')
         /\ \E f \in {NULL} \cup Handles : \E i \in Nat : NewCall(p, f, i)
<1>1. PICK r : r = [heap |-> heap', cache |-> cache', stale |-> stale']
  OBVIOUS
<1>2. PICK d : d = LookUp(p)
  OBVIOUS
<1>3. PICK m : m = d.memory
  OBVIOUS
<1>4. PICK i : i = NewSlot(Table)
  OBVIOUS
<1>5. PICK id : id = p.sip.callid
  OBVIOUS
<1>6. /\ p.sip # NULL /\ d.ce = NULL /\ id \notin DOMAIN index
      /\ index' = Set(index, id, i) /\ pc' = pc
  BY <1>2, <1>4, <1>5 DEF SipOfNewCall, IsSip, Knows
<1>7. PICK f \in {NULL} \cup {h \in Handles : dumpers[h] = NULL} :
        /\ dumpers' = IF f = NULL THEN dumpers ELSE [dumpers EXCEPT ![f] = id]
        /\ FileMessage(p, WithElement(id, f), m.cache,
                       m.stale \cup LeftBehind(m.cache, i), i)
  BY <1>2, <1>3, <1>4, <1>5 DEF SipOfNewCall
<1>8. PICK g : g = WithElement(id, f)
  OBVIOUS
<1>9. id \in CallIds
  BY <1>5, <1>6, SipOfPacket DEF Sips
<1>10. GoodResult(Memory, d) /\ m.heap = heap /\ heap \in Heaps
  BY <1>2, <1>3, <1>6, LookUpFacts, LookUpFails, TypeByParts DEF MemoryOK, Memory
<1>11. Added(g, id, f, i)
  BY <1>4, <1>7, <1>8, <1>9, <1>10, WithElementFacts
<1>12. /\ MemoryOK(m) /\ m.stale \subseteq DOMAIN m.cache
       /\ Matches(Memory) => Matches(m)
  BY <1>3, <1>10 DEF GoodResult
<1>13. PICK w : w = [heap |-> g, cache |-> m.cache,
                     stale |-> m.stale \cup LeftBehind(m.cache, i)]
  OBVIOUS
<1>14. /\ MemoryOK(w) /\ w.stale \subseteq DOMAIN w.cache
       /\ Matches(m) => Matches(w)
  BY <1>10, <1>11, <1>12, <1>13, AddedMemory
<1>15. /\ i \in DOMAIN Last(g) /\ DOMAIN Last(g) = DOMAIN Last(heap) \cup {i} /\ g \in Heaps
       /\ \A j \in DOMAIN Last(heap) \ {i} : Last(g)[j] = Last(heap)[j]
       /\ i \in DOMAIN Last(heap) => ~Last(heap)[i].is_used
       /\ Last(g)[i].is_used /\ Last(g)[i].call_id = id /\ Last(g)[i].f_pcap = f
  BY <1>11 DEF Added, Got
<1>16. FileMessage(p, w.heap, w.cache, w.stale, i) /\ w.heap = g
  BY <1>7, <1>8, <1>13
<1>17. /\ MemoryOK(r) /\ r.stale \subseteq DOMAIN r.cache
       /\ Matches(w) => Matches(r)
       /\ KeepsCalls(heap', g)
       /\ done'.pkt = p /\ done'.file = f
  BY <1>1, <1>6, <1>14, <1>15, <1>16, MessageStep
<1>18. BeginsCall(heap', heap, id, f, i) /\ i \in DOMAIN Last(heap')
  BY <1>15, <1>17 DEF KeepsCalls, BeginsCall, SameCall
<1>19. Opened(f, id)
  BY <1>7, CacheAssumption DEF Opened
<1>20. NewCall(p, f, i)
  BY <1>5, <1>6, <1>9, <1>17, <1>18, <1>19 DEF NewCall
<1>21. i \in Nat
  BY <1>15, HeapFacts DEF Last
<1>22. Rest'
  <2>1. /\ DOMAIN index' = DOMAIN index \cup {id} /\ index'[id] = i
        /\ \A x \in DOMAIN index \ {id} : index'[x] = index[x]
    BY <1>6 DEF Set
  <2>2. dumpers' \in [Handles -> CallIds \cup {NULL}]
    BY <1>9, <1>19, TypeByParts DEF Opened, Rest
  <2>3. /\ DOMAIN index \subseteq CallIds /\ pc \in {"running", "crashed"}
        /\ \A x \in DOMAIN index : index[x] \in DOMAIN Last(heap)
    BY TypeByParts DEF Rest
  <2>4. DOMAIN Last(heap) \subseteq DOMAIN Last(heap')
    BY <1>18 DEF BeginsCall
  <2>5. QED
    BY <1>6, <1>9, <1>17, <1>18, <2>1, <2>2, <2>3, <2>4 DEF Rest
<1>23. QED
  BY <1>1, <1>7, <1>12, <1>14, <1>17, <1>20, <1>21, <1>22, TypeNext, MatchesNow, MatchesNext

LEMMA CleanUpStep ==
  ASSUME TypeOK, NEW K \in SUBSET Used, DoCleanup(K)
  PROVE  /\ TypeOK' /\ (CacheMatchesTable => CacheMatchesTable')
         /\ EndsCalls(heap', heap, K)
         /\ done'.pkt = NULL
<1>1. PICK r : r = [heap |-> heap', cache |-> cache', stale |-> stale']
  OBVIOUS
<1>2. /\ heap' = Swept(heap, K) /\ cache' = cache
      /\ stale' = stale \cup Leading(Memory, K)
      /\ index' = Erase(index, EmptyCallId) /\ done'.pkt = NULL /\ pc' = pc
      /\ dumpers' = [h \in Handles |-> IF h \in {Table[i].f_pcap : i \in K} THEN NULL
                                       ELSE dumpers[h]]
  BY DEF DoCleanup, Swept, Pointer, Nothing, Leading, Memory
<1>3. MemoryOK(Memory) /\ Memory.stale \subseteq DOMAIN Memory.cache /\ heap \in Heaps
  BY TypeByParts DEF MemoryOK, Memory
<1>4. PICK m : m = Memory
  OBVIOUS
<1>5. m.heap = heap /\ m.cache = cache /\ m.stale = stale
  BY <1>4 DEF Memory
<1>6. /\ MemoryOK(r) /\ r.stale \subseteq DOMAIN r.cache
      /\ Matches(m) => Matches(r)
  BY <1>1, <1>2, <1>3, <1>4, <1>5, SweptMemory
<1>7. /\ DOMAIN Last(heap') = DOMAIN Last(heap)
      /\ \A j \in DOMAIN Last(heap) :
           Last(heap')[j] = IF j \in K THEN Blank ELSE Last(heap)[j]
  BY <1>2, <1>3, SweptShape
<1>8. EndsCalls(heap', heap, K)
  BY <1>7, BlankIsElement DEF EndsCalls, Used, Table, Last
<1>9. Rest'
  <2>1. DOMAIN index' = DOMAIN index \ {EmptyCallId}
        /\ \A x \in DOMAIN index' : index'[x] = index[x]
    BY <1>2 DEF Erase
  <2>2. dumpers' \in [Handles -> CallIds \cup {NULL}]
    BY <1>2, TypeByParts DEF Rest
  <2>3. QED
    BY <1>2, <1>7, <2>1, <2>2, TypeByParts DEF Rest
<1>10. QED
  BY <1>1, <1>2, <1>4, <1>6, <1>8, <1>9, TypeNext, MatchesNow, MatchesNext

-----------------------------------------------------------------------------
(* The two indices and the table: what every step preserves.                *)
LEMMA InitTypes == Init => TypeOK /\ CacheMatchesTable
<1> SUFFICES ASSUME Init PROVE TypeOK /\ CacheMatchesTable
  OBVIOUS
<1>1. << << >> >> \in Seq(Seq(Element)) /\ << << >> >> # << >>
  <2>1. << >> \in Seq(Element)
    OBVIOUS
  <2>2. << << >> >> \in Seq(Seq(Element)) /\ Len(<< << >> >>) = 1
    BY <2>1
  <2>3. QED
    BY <2>2
<1>2. QED
  BY <1>1 DEF Init, TypeOK, CacheMatchesTable, Nothing, Table

LEMMA NextTypes ==
  TypeOK /\ [Next]_vars => TypeOK' /\ (CacheMatchesTable => CacheMatchesTable')
<1> SUFFICES ASSUME TypeOK, [Next]_vars
             PROVE  TypeOK' /\ (CacheMatchesTable => CacheMatchesTable')
  OBVIOUS
<1>1. ASSUME NEW p \in Packets, Media(p) \/ MediaCrashes(p) \/ Ignored(p)
      PROVE  TypeOK' /\ (CacheMatchesTable => CacheMatchesTable')
  BY <1>1, QuietStep
<1>2. ASSUME NEW p \in Packets, SipOfKnownCall(p)
      PROVE  TypeOK' /\ (CacheMatchesTable => CacheMatchesTable')
  BY <1>2, KnownStep
<1>3. ASSUME NEW p \in Packets, SipOfNewCall(p)
      PROVE  TypeOK' /\ (CacheMatchesTable => CacheMatchesTable')
  BY <1>3, NewStep
<1>4. ASSUME NEW K \in SUBSET Used, DoCleanup(K)
      PROVE  TypeOK' /\ (CacheMatchesTable => CacheMatchesTable')
  BY <1>4, CleanUpStep
<1>5. ASSUME UNCHANGED vars
      PROVE  TypeOK' /\ (CacheMatchesTable => CacheMatchesTable')
  BY <1>5 DEF vars, TypeOK, CacheMatchesTable, Table
<1>6. QED
  BY <1>1, <1>2, <1>3, <1>4, <1>5 DEF Next

(* Whatever calls begin and end, neither index ever leads beyond a buffer.  *)
THEOREM IndicesStayInBounds == Spec => []TypeOK
<1>1. Init => TypeOK
  BY InitTypes
<1>2. TypeOK /\ [Next]_vars => TypeOK'
  BY NextTypes
<1>3. QED
  BY <1>1, <1>2, PTL DEF Spec

(* An entry of the cache that has kept its slot says what a search of the   *)
(* table would find, however many entries the calls before it have left.    *)
THEOREM CacheAgreesWithTheTable == Spec => []CacheMatchesTable
<1> DEFINE Inv == TypeOK /\ CacheMatchesTable
<1>1. Init => Inv
  BY InitTypes
<1>2. Inv /\ [Next]_vars => Inv'
  BY NextTypes
<1>3. Inv => CacheMatchesTable
  OBVIOUS
<1>4. QED
  BY <1>1, <1>2, <1>3, PTL DEF Spec

-----------------------------------------------------------------------------
(* The calls of a table, as CallRecorder knows them.                        *)
UsedOf(hp) == {i \in DOMAIN Last(hp) : Last(hp)[i].is_used}
KnownOf(hp) == {Last(hp)[i].call_id : i \in UsedOf(hp)}
RecordedOf(hp) == {[call |-> Last(hp)[i].call_id, file |-> Last(hp)[i].f_pcap] :
                     i \in {j \in UsedOf(hp) : Last(hp)[j].f_pcap # NULL}}

Ids(hp, K) == {Last(hp)[i].call_id : i \in K}

OneIdEach(hp) ==
  \A i, j \in UsedOf(hp) : Last(hp)[i].call_id = Last(hp)[j].call_id => i = j

(* Every file in use is open, and no two calls in progress share one.       *)
HeldFiles ==
  \A i \in Used : Table[i].f_pcap # NULL => dumpers[Table[i].f_pcap] # NULL

OneFileEach ==
  \A i, j \in Used :
    Table[i].f_pcap # NULL /\ Table[i].f_pcap = Table[j].f_pcap => i = j

CallsInv == IndexedWhileLive /\ HeldFiles /\ OneFileEach

LEMMA UsedIsUsed ==
  /\ Used = UsedOf(heap) /\ Used' = UsedOf(heap') /\ Table = Last(heap) /\ Table' = Last(heap')
BY DEF Used, UsedOf, Table, Last

LEMMA KeptCalls ==
  ASSUME NEW hp, NEW g, KeepsCalls(g, hp)
  PROVE  /\ UsedOf(g) = UsedOf(hp)
         /\ \A i \in UsedOf(hp) : SameCall(Last(g)[i], Last(hp)[i])
         /\ KnownOf(g) = KnownOf(hp) /\ RecordedOf(g) = RecordedOf(hp)
<1>1. /\ UsedOf(g) = UsedOf(hp)
      /\ \A i \in UsedOf(hp) : SameCall(Last(g)[i], Last(hp)[i])
  BY DEF KeepsCalls, SameCall, UsedOf
<1>2. KnownOf(g) = KnownOf(hp)
  BY <1>1 DEF KnownOf, SameCall
<1>3. RecordedOf(g) = RecordedOf(hp)
  BY <1>1 DEF RecordedOf, SameCall
<1>4. QED
  BY <1>1, <1>2, <1>3

LEMMA BegunCalls ==
  ASSUME NEW hp, NEW g, NEW id, NEW f, NEW i \in DOMAIN Last(g), BeginsCall(g, hp, id, f, i)
  PROVE  /\ UsedOf(g) = UsedOf(hp) \cup {i} /\ i \notin UsedOf(hp)
         /\ \A j \in UsedOf(hp) : SameCall(Last(g)[j], Last(hp)[j])
         /\ Last(g)[i].call_id = id /\ Last(g)[i].f_pcap = f
         /\ KnownOf(g) = KnownOf(hp) \cup {id}
         /\ f = NULL => RecordedOf(g) = RecordedOf(hp)
         /\ f # NULL => RecordedOf(g) = RecordedOf(hp) \cup {[call |-> id, file |-> f]}
<1>1. /\ UsedOf(g) = UsedOf(hp) \cup {i} /\ i \notin UsedOf(hp)
      /\ \A j \in UsedOf(hp) : SameCall(Last(g)[j], Last(hp)[j])
      /\ Last(g)[i].call_id = id /\ Last(g)[i].f_pcap = f
  BY DEF BeginsCall, SameCall, UsedOf
<1>2. KnownOf(g) = KnownOf(hp) \cup {id}
  BY <1>1 DEF KnownOf, SameCall
<1>3. f = NULL => RecordedOf(g) = RecordedOf(hp)
  BY <1>1 DEF RecordedOf, SameCall
<1>4. f # NULL => RecordedOf(g) = RecordedOf(hp) \cup {[call |-> id, file |-> f]}
  BY <1>1 DEF RecordedOf, SameCall
<1>5. QED
  BY <1>1, <1>2, <1>3, <1>4

LEMMA EndedCalls ==
  ASSUME NEW hp, NEW g, NEW K \in SUBSET UsedOf(hp), EndsCalls(g, hp, K),
         OneIdEach(hp), NEW E, E = Ids(hp, K)
  PROVE  /\ UsedOf(g) = UsedOf(hp) \ K
         /\ \A j \in UsedOf(g) : Last(g)[j] = Last(hp)[j]
         /\ E \subseteq KnownOf(hp) /\ KnownOf(g) = KnownOf(hp) \ E
         /\ RecordedOf(g) = {r \in RecordedOf(hp) : r.call \notin E}
<1>1. /\ UsedOf(g) = UsedOf(hp) \ K
      /\ \A j \in UsedOf(g) : Last(g)[j] = Last(hp)[j]
  BY DEF EndsCalls, UsedOf
<1>2. \A j \in UsedOf(hp) : Last(hp)[j].call_id \in E <=> j \in K
  BY DEF OneIdEach, Ids
<1>3. E \subseteq KnownOf(hp) /\ KnownOf(g) = KnownOf(hp) \ E
  BY <1>1, <1>2 DEF KnownOf, Ids
<1>4. RecordedOf(g) = {r \in RecordedOf(hp) : r.call \notin E}
  <2>1. ASSUME NEW r \in RecordedOf(g)
        PROVE  r \in RecordedOf(hp) /\ r.call \notin E
    BY <1>1, <1>2, <2>1 DEF RecordedOf
  <2>2. ASSUME NEW r \in RecordedOf(hp), r.call \notin E
        PROVE  r \in RecordedOf(g)
    BY <1>1, <1>2, <2>2 DEF RecordedOf
  <2>3. QED
    BY <2>1, <2>2
<1>5. QED
  BY <1>1, <1>3, <1>4

(* A live call's Call-ID is its own: the index can name one slot only.      *)
LEMMA OneSlotEach ==
  ASSUME IndexedWhileLive
  PROVE  OneIdEach(heap)
BY UsedIsUsed DEF IndexedWhileLive, OneIdEach

LEMMA InitCalls == Init => CallsInv
<1> SUFFICES ASSUME Init PROVE CallsInv
  OBVIOUS
<1>1. Used = {}
  BY DEF Init, Used, Table
<1>2. QED
  BY <1>1 DEF CallsInv, IndexedWhileLive, HeldFiles, OneFileEach

LEMMA QuietCalls ==
  ASSUME CallsInv, KeepsCalls(heap', heap), UNCHANGED <<index, dumpers>>
  PROVE  CallsInv'
<1>1. /\ Used' = Used
      /\ \A i \in Used : SameCall(Table'[i], Table[i])
  BY KeptCalls, UsedIsUsed
<1>2. IndexedWhileLive'
  BY <1>1 DEF CallsInv, IndexedWhileLive, SameCall
<1>3. HeldFiles' /\ OneFileEach'
  BY <1>1 DEF CallsInv, HeldFiles, OneFileEach, SameCall
<1>4. QED
  BY <1>2, <1>3 DEF CallsInv

LEMMA NewCalls ==
  ASSUME CallsInv, TypeOK, NEW p \in Packets, NEW f \in {NULL} \cup Handles, NEW i \in Nat,
         NewCall(p, f, i)
  PROVE  CallsInv'
<1>1. PICK id : id = p.sip.callid
  OBVIOUS
<1>2. /\ id \in CallIds \ DOMAIN index /\ index' = Set(index, id, i) /\ Opened(f, id)
      /\ i \in DOMAIN Last(heap') /\ BeginsCall(heap', heap, id, f, i)
  BY <1>1 DEF NewCall
<1>3. /\ Used' = Used \cup {i} /\ i \notin Used
      /\ \A j \in Used : SameCall(Table'[j], Table[j])
      /\ Table'[i].call_id = id /\ Table'[i].f_pcap = f
  BY <1>2, BegunCalls, UsedIsUsed
<1>4. /\ DOMAIN index' = DOMAIN index \cup {id} /\ index'[id] = i
      /\ \A x \in DOMAIN index : index'[x] = index[x]
  BY <1>2 DEF Set
<1>5. IndexedWhileLive'
  BY <1>3, <1>4 DEF CallsInv, IndexedWhileLive, SameCall
<1>6. /\ \A h \in Handles : dumpers[h] # NULL => dumpers'[h] # NULL
      /\ f # NULL => dumpers[f] = NULL /\ dumpers'[f] # NULL
  <2>1. id # NULL /\ dumpers \in [Handles -> CallIds \cup {NULL}]
    BY <1>2, CacheAssumption DEF TypeOK
  <2>2. QED
    BY <1>2, <2>1 DEF Opened
<1>7. \A j \in Used : Table[j].f_pcap # NULL => Table[j].f_pcap \in Handles
  <2>1. \A j \in Used : Table[j] \in Element
    BY UsedIsUsed, TypeByParts, HeapFacts DEF Used, MemoryOK, Memory, Last
  <2>2. QED
    BY <2>1 DEF Element
<1>8. \A j \in Used : Table[j].f_pcap # NULL => Table[j].f_pcap # f
  BY <1>6 DEF CallsInv, HeldFiles
<1>9. HeldFiles'
  BY <1>3, <1>6, <1>7 DEF CallsInv, HeldFiles, SameCall
<1>10. OneFileEach'
  BY <1>3, <1>8 DEF CallsInv, OneFileEach, SameCall
<1>11. QED
  BY <1>5, <1>9, <1>10 DEF CallsInv

LEMMA EndingCalls ==
  ASSUME CallsInv, TypeOK, EmptyCallId \notin CallIds, NEW K \in SUBSET Used, DoCleanup(K)
  PROVE  CallsInv'
<1>1. EndsCalls(heap', heap, K)
  BY CleanUpStep
<1>2. /\ Used' = Used \ K
      /\ \A j \in Used' : Table'[j] = Table[j]
  <2>1. OneIdEach(heap)
    BY OneSlotEach DEF CallsInv
  <2>2. PICK E : E = Ids(heap, K)
    OBVIOUS
  <2>3. K \in SUBSET UsedOf(heap)
    BY UsedIsUsed
  <2>4. QED
    BY <1>1, <2>1, <2>2, <2>3, EndedCalls, UsedIsUsed
<1>3. /\ index' = Erase(index, EmptyCallId)
      /\ dumpers' = [h \in Handles |-> IF h \in {Table[i].f_pcap : i \in K} THEN NULL
                                       ELSE dumpers[h]]
  BY DEF DoCleanup
<1>4. DOMAIN index' = DOMAIN index /\ \A x \in DOMAIN index : index'[x] = index[x]
  BY <1>3 DEF Erase, TypeOK
<1>5. IndexedWhileLive'
  BY <1>2, <1>4 DEF CallsInv, IndexedWhileLive
<1>6. OneFileEach'
  BY <1>2 DEF CallsInv, OneFileEach
<1>7. HeldFiles'
  <2>1. SUFFICES ASSUME NEW j \in Used', Table'[j].f_pcap # NULL
                 PROVE  dumpers'[Table'[j].f_pcap] # NULL
    BY DEF HeldFiles
  <2>2. j \in Used \ K /\ Table'[j] = Table[j]
    BY <1>2, <2>1
  <2>3. \A i \in K : Table[i].f_pcap # Table[j].f_pcap
    BY <2>1, <2>2 DEF CallsInv, OneFileEach
  <2>4. Table[j].f_pcap \in Handles
    <3>1. Table[j] \in Element
      BY <2>2, UsedIsUsed, TypeByParts, HeapFacts DEF Used, MemoryOK, Memory, Last
    <3>2. QED
      BY <2>1, <2>2, <3>1 DEF Element
  <2>5. dumpers[Table[j].f_pcap] # NULL
    BY <2>1, <2>2 DEF CallsInv, HeldFiles
  <2>6. QED
    BY <1>3, <2>2, <2>3, <2>4, <2>5
<1>8. QED
  BY <1>5, <1>6, <1>7 DEF CallsInv

LEMMA NextCalls ==
  ASSUME EmptyCallId \notin CallIds
  PROVE  TypeOK /\ CallsInv /\ [Next]_vars => CallsInv'
<1> SUFFICES ASSUME TypeOK, CallsInv, [Next]_vars
             PROVE  CallsInv'
  OBVIOUS
<1>1. ASSUME NEW p \in Packets, Media(p) \/ MediaCrashes(p) \/ Ignored(p)
      PROVE  CallsInv'
  BY <1>1, QuietStep, QuietCalls
<1>2. ASSUME NEW p \in Packets, SipOfKnownCall(p)
      PROVE  CallsInv'
  BY <1>2, KnownStep, QuietCalls
<1>3. ASSUME NEW p \in Packets, SipOfNewCall(p)
      PROVE  CallsInv'
  BY <1>3, NewStep, NewCalls
<1>4. ASSUME NEW K \in SUBSET Used, DoCleanup(K)
      PROVE  CallsInv'
  BY <1>4, EndingCalls
<1>5. ASSUME UNCHANGED vars
      PROVE  CallsInv'
  <2>1. Used' = Used /\ Table' = Table /\ index' = index /\ dumpers' = dumpers
    BY <1>5 DEF vars, Used, Table
  <2>2. QED
    BY <2>1 DEF CallsInv, IndexedWhileLive, HeldFiles, OneFileEach
<1>6. QED
  BY <1>1, <1>2, <1>3, <1>4, <1>5 DEF Next

LEMMA CallsInvariance ==
  ASSUME EmptyCallId \notin CallIds
  PROVE  Spec => [](TypeOK /\ CallsInv)
<1>1. Init => TypeOK /\ CallsInv
  BY InitTypes, InitCalls
<1>2. TypeOK /\ CallsInv /\ [Next]_vars => TypeOK' /\ CallsInv'
  BY NextTypes, NextCalls
<1>3. QED
  BY <1>1, <1>2, PTL DEF Spec

(* As long as no SIP packet has an empty Call-ID, the index leads from the  *)
(* Call-ID of every call in progress to its slot: find_by_call_id, which    *)
(* believes the index alone, never makes a second call of a known one.      *)
THEOREM LiveCallsAreIndexed ==
  ASSUME EmptyCallId \notin CallIds
  PROVE  Spec => []IndexedWhileLive
<1>1. CallsInv => IndexedWhileLive
  BY DEF CallsInv
<1>2. QED
  BY <1>1, CallsInvariance, PTL

-----------------------------------------------------------------------------
(* No other step files a SIP packet.                                        *)
LEMMA OnlySipIsSip ==
  ASSUME NEW p, done'.what = "sip"
  PROVE  ~Media(p) /\ ~MediaCrashes(p) /\ ~Ignored(p)
<1>1. ASSUME Media(p)
      PROVE  FALSE
  <2>1. \E h : done' = [pkt |-> p, what |-> IF h = NULL THEN "nothing" ELSE "rtp", file |-> h]
    BY <1>1, Zenon DEF Media
  <2>2. QED
    BY <2>1
<1>2. ASSUME MediaCrashes(p)
      PROVE  FALSE
  <2>1. done' = Nothing
    BY <1>2, Zenon DEF MediaCrashes
  <2>2. QED
    BY <2>1 DEF Nothing
<1>3. ASSUME Ignored(p)
      PROVE  FALSE
  <2>1. done' = [Nothing EXCEPT !.pkt = p]
    BY <1>3, Zenon DEF Ignored
  <2>2. QED
    BY <2>1 DEF Nothing
<1>4. QED
  BY <1>1, <1>2, <1>3

(* A SIP packet of a call in progress goes to the file of that call: what   *)
(* ended calls have left in the index never diverts it.                     *)
THEOREM LiveSignallingFindsItsFile ==
  ASSUME EmptyCallId \notin CallIds
  PROVE  Spec => SignallingOfLiveCallIsItsOwn
<1> DEFINE Own ==
      \A i \in Used :
        done'.pkt # NULL /\ done'.what = "sip" /\ done'.pkt.sip.callid = Table[i].call_id
          => done'.file = Table[i].f_pcap
<1>1. TypeOK /\ CallsInv /\ [Next]_vars => [Own]_vars
  <2> SUFFICES ASSUME TypeOK, CallsInv, Next, NEW i \in Used,
                      done'.pkt # NULL, done'.what = "sip",
                      done'.pkt.sip.callid = Table[i].call_id, ~UNCHANGED vars
               PROVE  done'.file = Table[i].f_pcap
    OBVIOUS
  <2>1. Table[i].call_id \in DOMAIN index /\ index[Table[i].call_id] = i
    BY DEF CallsInv, IndexedWhileLive
  <2>2. ASSUME NEW p \in Packets, SipOfKnownCall(p)
        PROVE  done'.file = Table[i].f_pcap
    BY <2>1, <2>2, KnownStep, UsedIsUsed
  <2>3. ASSUME NEW p \in Packets
        PROVE  ~SipOfNewCall(p)
    <3>1. SUFFICES ASSUME SipOfNewCall(p) PROVE FALSE
      OBVIOUS
    <3>2. PICK f \in {NULL} \cup Handles : \E j \in Nat : NewCall(p, f, j)
      BY <3>1, NewStep
    <3>3. done'.pkt = p /\ p.sip.callid \notin DOMAIN index
      BY <3>2 DEF NewCall
    <3>4. QED
      BY <2>1, <3>3
  <2>4. ASSUME NEW p \in Packets
        PROVE  ~Media(p) /\ ~MediaCrashes(p) /\ ~Ignored(p)
    BY OnlySipIsSip
  <2>5. \A K : ~DoCleanup(K)
    BY DEF DoCleanup, Nothing
  <2>6. QED
    BY <2>2, <2>3, <2>4, <2>5 DEF Next
<1>2. QED
  BY <1>1, CallsInvariance, PTL DEF Spec, SignallingOfLiveCallIsItsOwn

-----------------------------------------------------------------------------
(* The indexed table implements CallRecorder.                               *)
LEMMA RecorderState ==
  /\ Recorder!Init <=> KnownOf(heap) = {} /\ RecordedOf(heap) = {}
  /\ \A E : Recorder!End(E) <=>
       /\ KnownOf(heap') = KnownOf(heap) \ E
       /\ RecordedOf(heap') = {r \in RecordedOf(heap) : r.call \notin E}
  /\ \A id : Recorder!RecordFails(id) <=>
       /\ id \notin KnownOf(heap) /\ KnownOf(heap') = KnownOf(heap) \cup {id}
       /\ RecordedOf(heap') = RecordedOf(heap)
  /\ \A id, f : Recorder!Record(id, f) <=>
       /\ id \notin KnownOf(heap) /\ KnownOf(heap') = KnownOf(heap) \cup {id}
       /\ f \notin {r.file : r \in RecordedOf(heap)}
       /\ RecordedOf(heap') = RecordedOf(heap) \cup {[call |-> id, file |-> f]}
BY UsedIsUsed DEF Recorder!Init, Recorder!End, Recorder!RecordFails, Recorder!Record,
                  Recorder!Begin, Recorder!InUse, KnownOf, RecordedOf

LEMMA NextRefines ==
  ASSUME EmptyCallId \notin CallIds, TypeOK, CallsInv, [Next]_vars
  PROVE  Recorder!Next \/ (KnownOf(heap') = KnownOf(heap) /\ RecordedOf(heap') = RecordedOf(heap))
<1>1. ASSUME NEW p \in Packets, Media(p) \/ MediaCrashes(p) \/ Ignored(p) \/ SipOfKnownCall(p)
      PROVE  KnownOf(heap') = KnownOf(heap) /\ RecordedOf(heap') = RecordedOf(heap)
  <2>1. KeepsCalls(heap', heap)
    BY <1>1, QuietStep, KnownStep
  <2>2. QED
    BY <2>1, KeptCalls
<1>2. ASSUME NEW p \in Packets, SipOfNewCall(p)
      PROVE  Recorder!Next
  <2>1. PICK f \in {NULL} \cup Handles : \E i \in Nat : NewCall(p, f, i)
    BY <1>2, NewStep
  <2>2. PICK i \in Nat : NewCall(p, f, i)
    BY <2>1
  <2>3. PICK id : id = p.sip.callid
    OBVIOUS
  <2>4. /\ id \in CallIds \ DOMAIN index /\ Opened(f, id)
        /\ i \in DOMAIN Last(heap') /\ BeginsCall(heap', heap, id, f, i)
    BY <2>2, <2>3 DEF NewCall
  <2>5. /\ KnownOf(heap') = KnownOf(heap) \cup {id}
        /\ f = NULL => RecordedOf(heap') = RecordedOf(heap)
        /\ f # NULL => RecordedOf(heap') = RecordedOf(heap) \cup {[call |-> id, file |-> f]}
    BY <2>4, BegunCalls
  <2>6. id \notin KnownOf(heap)
    BY <2>4, UsedIsUsed DEF CallsInv, IndexedWhileLive, KnownOf
  <2>7. f # NULL => f \in Handles /\ f \notin {r.file : r \in RecordedOf(heap)}
    BY <2>4, UsedIsUsed DEF CallsInv, HeldFiles, RecordedOf, Opened
  <2>8. CASE f = NULL
    <3>1. Recorder!RecordFails(id)
      BY <2>5, <2>6, <2>8, RecorderState
    <3>2. QED
      BY <2>4, <3>1 DEF Recorder!Next
  <2>9. CASE f # NULL
    <3>1. Recorder!Record(id, f)
      BY <2>5, <2>6, <2>7, <2>9, RecorderState
    <3>2. QED
      BY <2>4, <2>7, <2>9, <3>1 DEF Recorder!Next
  <2>10. QED
    BY <2>8, <2>9
<1>3. ASSUME NEW K \in SUBSET Used, DoCleanup(K)
      PROVE  Recorder!Next
  <2>1. PICK E : E = Ids(heap, K)
    OBVIOUS
  <2>2. /\ EndsCalls(heap', heap, K) /\ K \in SUBSET UsedOf(heap) /\ OneIdEach(heap)
    BY <1>3, CleanUpStep, OneSlotEach, UsedIsUsed DEF CallsInv
  <2>3. /\ E \subseteq KnownOf(heap) /\ KnownOf(heap') = KnownOf(heap) \ E
        /\ RecordedOf(heap') = {r \in RecordedOf(heap) : r.call \notin E}
    BY <2>1, <2>2, EndedCalls
  <2>4. Recorder!End(E)
    BY <2>3, RecorderState
  <2>5. E \in SUBSET {Table[i].call_id : i \in Used}
    BY <2>3, UsedIsUsed DEF KnownOf
  <2>6. QED
    BY <2>4, <2>5 DEF Recorder!Next
<1>4. ASSUME UNCHANGED vars
      PROVE  KnownOf(heap') = KnownOf(heap) /\ RecordedOf(heap') = RecordedOf(heap)
  BY <1>4 DEF vars
<1>5. QED
  BY <1>1, <1>2, <1>3, <1>4 DEF Next

(* Stale indices misroute packets and never calls: the cached table is the  *)
(* same map from Call-IDs to recordings as the default build's, every call  *)
(* in progress known once and every recorded one with a file of its own.    *)
THEOREM CachedTableImplementsRecorder ==
  ASSUME EmptyCallId \notin CallIds
  PROVE  Spec => ImplementsCallRecorder
<1>1. Init => Recorder!Init
  <2> SUFFICES ASSUME Init PROVE Recorder!Init
    OBVIOUS
  <2>1. UsedOf(heap) = {}
    BY DEF Init, UsedOf, Last
  <2>2. QED
    BY <2>1, RecorderState DEF KnownOf, RecordedOf
<1>2. TypeOK /\ CallsInv /\ [Next]_vars => [Recorder!Next]_(Recorder!vars)
  <2> SUFFICES ASSUME TypeOK, CallsInv, [Next]_vars
               PROVE  [Recorder!Next]_(Recorder!vars)
    OBVIOUS
  <2>1. Recorder!Next \/ (KnownOf(heap') = KnownOf(heap) /\ RecordedOf(heap') = RecordedOf(heap))
    BY NextRefines
  <2>2. Recorder!vars = <<KnownOf(heap), RecordedOf(heap), 0>>
    BY UsedIsUsed, Zenon DEF Recorder!vars, KnownOf, RecordedOf
  <2>3. Recorder!vars' = <<KnownOf(heap'), RecordedOf(heap'), 0>>
    BY UsedIsUsed, Zenon DEF Recorder!vars, KnownOf, RecordedOf
  <2>4. QED
    BY <2>1, <2>2, <2>3
<1>3. QED
  BY <1>1, <1>2, CallsInvariance, PTL DEF Spec, ImplementsCallRecorder, Recorder!Spec

-----------------------------------------------------------------------------
(* Media of a live call.  A full search can only find the call with the     *)
(* sole claim to the address:                                               *)
LEMMA OnlyTheClaimantIsHit ==
  ASSUME TypeOK, NEW p \in Packets, NEW i \in Used, SoleClaim(i, p)
  PROVE  LET H == Hits(Last(heap), p.dst, p.ssrc)
         IN  H # {} /\ \A h \in H : h[1] = i
<1> DEFINE H == Hits(Last(heap), p.dst, p.ssrc)
<1>1. /\ heap \in Heaps /\ Table = Last(heap) /\ i \in DOMAIN Table
      /\ \A j \in DOMAIN Table : Table[j] \in Element
  BY UsedIsUsed, TypeByParts, HeapFacts DEF MemoryOK, Memory, Used, Last
<1>2. \A j \in DOMAIN Table : Table[j].ip_n \in Nat /\ 1 .. Table[j].ip_n \subseteq FlowNumbers
  BY <1>1, CacheAssumption DEF Element, FlowNumbers
<1>3. H # {}
  <2>1. PICK k \in 1 .. Table[i].ip_n : Table[i].flows[k].at = p.dst
    BY DEF SoleClaim, Tracks
  <2>2. Accepts(Table[i], k, p.dst, p.ssrc)
    BY <1>1, <1>2, <2>1 DEF SoleClaim, Accepts
  <2>3. <<i, k>> \in H
    BY <1>1, <1>2, <2>1, <2>2 DEF Hits
  <2>4. QED
    BY <2>3
<1>4. ASSUME NEW h \in H, h[1] # i
      PROVE  FALSE
  <2>1. /\ h[1] \in DOMAIN Table /\ h[2] \in FlowNumbers
        /\ Accepts(Table[h[1]], h[2], p.dst, p.ssrc)
    BY <1>1, <1>4 DEF Hits
  <2>2. h[2] \in 1 .. Table[h[1]].ip_n /\ Table[h[1]].flows[h[2]].at = p.dst
    BY <1>2, <2>1, CacheAssumption DEF Accepts, FlowNumbers
  <2>3. Table[h[1]].had_bye /\ p.ssrc \notin EndedWith(h[1], h[2], p.dst)
    BY <1>4, <2>1, <2>2 DEF SoleClaim
  <2>4. QED
    BY <2>1, <2>3 DEF Accepts, EndedWith
<1>5. QED
  BY <1>3, <1>4

LEMMA SearchFindsTheClaimant ==
  ASSUME TypeOK, NEW p \in Packets, NEW i \in Used, SoleClaim(i, p),
         NEW m, MemoryOK(m), m.heap = heap, m.stale \subseteq DOMAIN m.cache \cup {p.dst},
         NEW r, r = Search(m, p.dst, p.ssrc)
  PROVE  r.ce = Pointer(i)
<1> DEFINE H == Hits(Last(heap), p.dst, p.ssrc)
<1>1. H # {} /\ \A h \in H : h[1] = i
  BY OnlyTheClaimantIsHit
<1>2. p.dst \in MediaAddrs /\ p.ssrc \in Nat
  BY PacketsAssumption
<1>3. /\ GoodResult(m, r) /\ r.ce # NULL /\ r.ce.buffer = Len(heap)
      /\ r.ce.slot = First(H)[1]
  BY <1>1, <1>2, SearchFacts
<1>4. First(H) \in H
  <2>1. H \subseteq Nat \X Nat
    <3>1. DOMAIN Last(heap) \subseteq Nat /\ FlowNumbers \subseteq Nat
      BY TypeByParts, HeapFacts, CacheAssumption DEF MemoryOK, Memory, Last, FlowNumbers
    <3>2. QED
      BY <3>1 DEF Hits
  <2>2. QED
    BY <1>1, <2>1, FirstPair
<1>5. r.ce.slot = i
  BY <1>1, <1>3, <1>4
<1>6. r.ce \in Pointers(heap)
  BY <1>3 DEF GoodResult
<1>7. QED
  BY <1>3, <1>5, <1>6 DEF Pointers, Pointer

LEMMA FindsTheClaimant ==
  ASSUME TypeOK, CacheMatchesTable, NEW p \in Packets, p.dst \notin stale,
         NEW i \in Used, SoleClaim(i, p)
  PROVE  Find(Memory, p.dst, p.ssrc).ce = Pointer(i)
<1> DEFINE at == p.dst
           e == cache[at]
<1>1. /\ MemoryOK(Memory) /\ stale \subseteq DOMAIN cache /\ heap \in Heaps /\ Table = Last(heap)
      /\ Memory.heap = heap /\ Memory.cache = cache /\ Memory.stale = stale
  BY TypeByParts, UsedIsUsed DEF MemoryOK, Memory
<1>2. i \in DOMAIN Table /\ ~Table[i].had_bye /\ Tracks(Table[i], at)
  BY DEF Used, SoleClaim
<1>3. CASE at \notin DOMAIN cache
  <2>1. Find(Memory, at, p.ssrc) = Search(Memory, at, p.ssrc)
    BY <1>1, <1>3 DEF Find
  <2>2. QED
    BY <1>1, <2>1, SearchFindsTheClaimant
<1>4. CASE at \in DOMAIN cache
  <2>1. MatchesAt(heap, e, at) /\ EntryOK(heap, e)
    BY <1>1, <1>4, MatchesNow DEF Matches, MemoryOK
  <2>2. e.ce # NULL
    BY <1>1, <1>2, <2>1 DEF MatchesAt
  <2>3. /\ e.ce \in Pointers(heap) /\ e.irtp \in FlowNumbers
        /\ e.ce.buffer = Len(heap) /\ e.irtp <= Table[e.ce.slot].ip_n
        /\ Table[e.ce.slot].flows[e.irtp].at = at
    BY <1>1, <2>1, <2>2, PointerFacts DEF MatchesAt
  <2>4. e.ce.slot \in DOMAIN Table /\ e.ce = Pointer(e.ce.slot)
    BY <1>1, <2>3 DEF Pointers, Pointer, Last
  <2>5. CASE e.ce.slot = i
    <3>1. ~heap[e.ce.buffer][e.ce.slot].had_bye
      BY <1>2, <2>3, <2>5 DEF Table
    <3>2. Find(Memory, at, p.ssrc).ce = e.ce
      BY <1>1, <1>4, <2>2, <3>1 DEF Find, Found
    <3>3. QED
      BY <2>4, <2>5, <3>2
  <2>6. CASE e.ce.slot # i
    <3>1. e.irtp \in 1 .. Table[e.ce.slot].ip_n
      <4>1. Table[e.ce.slot] \in Element
        BY <1>1, <2>4, HeapFacts DEF Last
      <4>2. Table[e.ce.slot].ip_n \in Nat
        BY <4>1, CacheAssumption DEF Element
      <4>3. e.irtp \in Nat /\ 1 <= e.irtp
        BY <2>3, CacheAssumption DEF FlowNumbers
      <4> HIDE DEF e
      <4>4. QED
        BY <2>3, <4>2, <4>3
    <3>2. Table[e.ce.slot].had_bye /\ p.ssrc \notin EndedWith(e.ce.slot, e.irtp, at)
      BY <2>3, <2>4, <2>6, <3>1 DEF SoleClaim
    <3>3. e.ssrc # p.ssrc
      BY <1>4, <2>4, <3>2 DEF EndedWith
    <3>4. heap[e.ce.buffer][e.ce.slot].had_bye
      BY <2>3, <3>2 DEF Table
    <3> DEFINE n == [Memory EXCEPT !.cache = Erase(@, at)]
               ch == Erase(cache, at)
    <3>5. Find(Memory, at, p.ssrc) = Search(n, at, p.ssrc)
      BY <1>1, <1>4, <2>2, <3>3, <3>4 DEF Find
    <3>6. n = [heap |-> heap, cache |-> ch, stale |-> stale]
      BY DEF Memory
    <3>7. DOMAIN ch = DOMAIN cache \ {at} /\ \A x \in DOMAIN ch : ch[x] = cache[x]
      BY EraseFacts
    <3> HIDE DEF n, ch
    <3>8. MemoryOK(n) /\ n.heap = heap /\ n.stale \subseteq DOMAIN n.cache \cup {at}
      BY <1>1, <3>6, <3>7 DEF MemoryOK
    <3>9. QED
      BY <3>5, <3>8, SearchFindsTheClaimant
  <2>7. QED
    BY <2>5, <2>6
<1>5. QED
  BY <1>3, <1>4

LEMMA ClaimantGetsThePacket ==
  ASSUME TypeOK, CacheMatchesTable, Next, NEW p, p = done'.pkt, p # NULL, p.dst \notin stale,
         NEW i \in Used, SoleClaim(i, p), ~UNCHANGED vars
  PROVE  done'.what = "rtp" /\ done'.file = Table[i].f_pcap
<1>1. PICK q \in Packets : \/ Media(q) \/ MediaCrashes(q) \/ Ignored(q)
                           \/ SipOfKnownCall(q) \/ SipOfNewCall(q)
  BY DEF Next, DoCleanup, Nothing
<1>2. ~MediaCrashes(q)
  <2>1. MediaCrashes(q) => done' = Nothing
    BY Zenon DEF MediaCrashes
  <2>2. Nothing.pkt = NULL
    BY DEF Nothing
  <2>3. QED
    BY <2>1, <2>2
<1>3. p = q
  <2>1. Media(q) \/ Ignored(q) => done'.pkt = q
    <3>1. Media(q) => \E w, h : done' = [pkt |-> q, what |-> w, file |-> h]
      BY Zenon DEF Media
    <3>2. Ignored(q) => done' = [Nothing EXCEPT !.pkt = q]
      BY Zenon DEF Ignored
    <3>3. QED
      BY <3>1, <3>2 DEF Nothing
  <2>2. SipOfKnownCall(q) \/ SipOfNewCall(q) => done'.pkt = q
    BY KnownStep, NewStep DEF NewCall
  <2>3. QED
    BY <1>1, <1>2, <2>1, <2>2
<1>4. p \in Packets
  BY <1>3
<1>5. PICK d : d = Find(Memory, p.dst, p.ssrc)
  OBVIOUS
<1>6. d.ce = Pointer(i)
  BY <1>4, <1>5, FindsTheClaimant
<1>7. heap \in Heaps /\ i \in DOMAIN Last(heap) /\ Table = Last(heap)
  BY TypeByParts, UsedIsUsed DEF MemoryOK, Memory, Used
<1>8. Pointer(i) \in Pointers(heap)
  BY <1>7, HeapFacts DEF Pointer, Pointers, Last
<1>9. d.ce # NULL /\ LookUp(p) = d
  BY <1>5, <1>6, <1>7, <1>8, PointerFacts DEF LookUp
<1>10. Media(p)
  BY <1>1, <1>2, <1>3, <1>9 DEF Ignored, SipOfKnownCall, SipOfNewCall, IsSip
<1>11. d.memory.heap[Len(heap)][i].f_pcap = Table[i].f_pcap
  <2>1. SameShape(d.memory.heap, heap)
    BY <1>4, <1>9, LookUpFacts DEF GoodResult, Memory
  <2>2. Len(heap) \in DOMAIN heap /\ i \in DOMAIN heap[Len(heap)]
    BY <1>7, HeapFacts DEF Last
  <2>3. QED
    BY <2>1, <2>2 DEF SameShape, Alike, Table
<1>12. Table[i].f_pcap # NULL
  BY DEF SoleClaim
<1>13. d.ce.buffer = Len(heap) /\ d.ce.slot = i
  BY <1>6 DEF Pointer
<1>14. \E h : /\ h = d.memory.heap[d.ce.buffer][d.ce.slot].f_pcap
              /\ done' = [pkt |-> p, what |-> IF h = NULL THEN "nothing" ELSE "rtp", file |-> h]
  BY <1>9, <1>10, Zenon DEF Media
<1>15. QED
  BY <1>11, <1>12, <1>13, <1>14

(* Media to an address that one recorded, unfinished call has announced     *)
(* reaches that call's file unless the cache entry of the address has lost  *)
(* its slot: neither an entry of a finished call with another SSRC, nor a   *)
(* negative one, keeps a packet from the search that finds it.              *)
THEOREM LiveMediaFindsItsCall == Spec => LiveCallGetsItsMedia
<1> DEFINE Gets ==
      LET p == done'.pkt
      IN  p # NULL /\ p.dst \notin stale =>
            \A i \in Used : SoleClaim(i, p) =>
              done'.what = "rtp" /\ done'.file = Table[i].f_pcap
<1>1. TypeOK /\ CacheMatchesTable /\ [Next]_vars => [Gets]_vars
  BY ClaimantGetsThePacket
<1>2. QED
  BY <1>1, IndicesStayInBounds, CacheAgreesWithTheTable, PTL DEF Spec, LiveCallGetsItsMedia
=============================================================================
