------------------------- MODULE MCCachedCallTable -------------------------
(****************************************************************************)
(* Small instances of CachedCallTable: two Call-IDs, one to end and one to  *)
(* take its slot or to make the vector move; two media addresses, of which  *)
(* both calls announce the first; a packet to it and one from it, of two    *)
(* sources.                                                                 *)
(****************************************************************************)
EXTENDS CachedCallTable, TLC

CONSTANTS a, b, empty, h1, h2, m1, m2, proxy

TwoCalls == {a, b}
WithEmpty == {a, empty}
TwoDumpers == {h1, h2}
DumpersAreAlike == Permutations(TwoDumpers)
Addresses == {m1, m2, proxy}

Signalling(id, bye, at) ==
  [dst |-> proxy, src |-> proxy, ssrc |-> 0,
   sip |-> [callid |-> id, bye |-> bye, at |-> at]]

MediaTo(at, ssrc) == [dst |-> at, src |-> proxy, ssrc |-> ssrc, sip |-> NULL]
MediaOf(at, ssrc) == [dst |-> proxy, src |-> at, ssrc |-> ssrc, sip |-> NULL]

SharedAddress ==
  {Signalling(a, FALSE, m1), Signalling(b, FALSE, m1), Signalling(b, FALSE, m2),
   Signalling(a, TRUE, NULL),
   MediaTo(m1, 1), MediaOf(m1, 2)}

EmptyAndNot ==
  {Signalling(a, FALSE, NULL), Signalling(empty, FALSE, NULL)}
=============================================================================
