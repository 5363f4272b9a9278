---------------------------- MODULE ParsingProofs ----------------------------
(****************************************************************************)
(* Proofs that the parsing algorithms agree with their reference            *)
(* definitions on inputs of any length, over any alphabets.  A recursive    *)
(* function is first shown to exist, then to take the steps it is defined   *)
(* by; induction is over the least position of a set.                       *)
(****************************************************************************)
EXTENDS Parsing, FiniteSetTheorems, SequenceTheorems, WellFoundedInduction, TLAPS

-----------------------------------------------------------------------------
(* Least members.                                                           *)
LEMMA LeastOf ==
  ASSUME NEW S \in SUBSET Nat, S # {}
  PROVE  Min(S) \in S /\ \A m \in S : Min(S) <= m
<1>1. \E n \in S : \A m \in S : <<m, n>> \notin OpToRel(<, Nat)
  BY WFMin, NatLessThanWellFounded, Zenon
<1>2. PICK n \in S : \A m \in S : <<m, n>> \notin OpToRel(<, Nat)
  BY <1>1
<1>3. \A m \in S : ~(m < n)
  BY <1>2 DEF OpToRel
<1>4. \A m \in S : n <= m
  BY <1>3
<1>5. QED
  BY <1>4 DEF Min

LEMMA IsLeast ==
  ASSUME NEW S \in SUBSET Nat, NEW n \in S, \A m \in S : n <= m
  PROVE  Min(S) = n
<1>1. Min(S) \in S /\ Min(S) <= n
  BY LeastOf
<1>2. n <= Min(S) /\ n \in Nat /\ Min(S) \in Nat
  BY <1>1
<1>3. QED
  BY <1>1, <1>2

-----------------------------------------------------------------------------
(* Inputs are sequences of symbols.                                         *)
Inputs == UNION {Alphabet(k, i) : k \in Kinds, i \in Nat}

InputInv == kind \in Kinds /\ input \in Seq(Inputs)

LEMMA InputsAreSequences == Spec => []InputInv
<1>1. Init => InputInv
  BY DEF Init, InputInv
<1>2. InputInv /\ [Next]_vars => InputInv'
  <2> SUFFICES ASSUME InputInv, [Next]_vars
               PROVE  InputInv'
    OBVIOUS
  <2>1. CASE Grow
    <3>1. PICK s \in Alphabet(kind, Len(input) + 1) : input' = Append(input, s)
      BY <2>1 DEF Grow
    <3>2. Len(input) + 1 \in Nat
      BY DEF InputInv
    <3>3. s \in Inputs
      BY <3>1, <3>2 DEF Inputs, InputInv
    <3>4. input' \in Seq(Inputs)
      BY <3>1, <3>3 DEF InputInv
    <3>5. QED
      BY <2>1, <3>4 DEF InputInv, Grow
  <2>2. CASE NextInput
    BY <2>2 DEF InputInv, NextInput
  <2>3. CASE UNCHANGED vars
    BY <2>3 DEF InputInv, vars
  <2>4. QED
    BY <2>1, <2>2, <2>3 DEF Next
<1>3. QED
  BY <1>1, <1>2, PTL DEF Spec

-----------------------------------------------------------------------------
(* get_method: the first space of the copy and the first other byte of the  *)
(* payload.                                                                 *)
LEMMA MethodOfInput ==
  ASSUME InputInv
  PROVE  MethodIsTheLeadingToken
<1> SUFFICES ASSUME Len(input) >= MethodSize
             PROVE  MethodIsTheLeadingToken
  BY DEF MethodIsTheLeadingToken
<1> DEFINE copy == Append(SubSeq(input, 1, MethodSize - 1), "sp")
           spaces == {i \in DOMAIN copy : copy[i] = "sp"}
           space == Min(spaces)
           others == {i \in DOMAIN input : input[i] # "upper"} \cup {MethodSize}
           token == Min(others) - 1
<1>1. MethodSize \in Nat \ {0} /\ input \in Seq(Inputs) /\ Len(input) \in Nat
  BY ParsingAssumption DEF InputInv
<1>2. /\ Len(SubSeq(input, 1, MethodSize - 1)) = MethodSize - 1
      /\ SubSeq(input, 1, MethodSize - 1) \in Seq(Inputs)
      /\ \A i \in 1 .. MethodSize - 1 :
           i \in DOMAIN input /\ SubSeq(input, 1, MethodSize - 1)[i] = input[i]
  BY <1>1
<1>3. /\ DOMAIN copy = 1 .. MethodSize
      /\ \A i \in 1 .. MethodSize - 1 : i \in DOMAIN input /\ copy[i] = input[i]
      /\ copy[MethodSize] = "sp"
  BY <1>1, <1>2
<1>4. copy \in Seq(Inputs \cup {"sp"}) /\ input \in Seq(Inputs \cup {"sp"})
  BY <1>1, <1>2
<1> HIDE DEF copy
<1>5. spaces \in SUBSET Nat /\ MethodSize \in spaces
  BY <1>1, <1>3
<1>6. others \in SUBSET Nat /\ MethodSize \in others /\ 0 \notin others
  BY <1>1
<1>7. /\ \A i \in spaces : i \in 1 .. MethodSize /\ copy[i] = "sp"
      /\ \A i \in 1 .. MethodSize : i \notin spaces => copy[i] # "sp"
  BY <1>3
<1>8. /\ \A i \in others : i = MethodSize \/ input[i] # "upper"
      /\ \A i \in 1 .. MethodSize - 1 : i \notin others => input[i] = "upper"
  BY <1>3
<1> HIDE DEF spaces, others
<1>9. space \in spaces /\ \A i \in spaces : space <= i
  BY <1>5, LeastOf
<1>10. Min(others) \in others /\ \A i \in others : Min(others) <= i
  BY <1>6, LeastOf
<1>11. /\ GetMethod(input, MethodSize) =
            IF \A i \in 1 .. space - 1 : copy[i] = "upper"
            THEN [ok |-> TRUE, method |-> SubSeq(copy, 1, space - 1)] ELSE NoMethod
       /\ MethodIsTheLeadingToken <=>
            (kind = "method" /\ Len(input) >= MethodSize =>
              GetMethod(input, MethodSize) =
                IF token = MethodSize - 1 \/ input[token + 1] = "sp"
                THEN [ok |-> TRUE, method |-> SubSeq(input, 1, token)] ELSE NoMethod)
  BY DEF GetMethod, MethodIsTheLeadingToken, copy, spaces, others
<1> HIDE DEF space
<1>12. space \in 1 .. MethodSize /\ space \in Nat /\ token \in Int
  <2>1. space \in 1 .. MethodSize
    BY <1>7, <1>9
  <2>2. Min(others) \in Nat
    BY <1>6, <1>10
  <2>3. QED
    BY <2>1, <2>2
<1>13. CASE \A i \in 1 .. space - 1 : copy[i] = "upper"
  <2>1. space \in others
    BY <1>1, <1>3, <1>6, <1>7, <1>8, <1>9, <1>12
  <2>2. \A i \in others : space <= i
    BY <1>1, <1>3, <1>6, <1>8, <1>12, <1>13
  <2>3. token = space - 1
    BY <2>1, <2>2, <1>6, IsLeast
  <2>4. token = MethodSize - 1 \/ input[token + 1] = "sp"
    BY <2>3, <1>1, <1>3, <1>7, <1>9, <1>12
  <2>5. SubSeq(copy, 1, token) = SubSeq(input, 1, token)
    <3>1. token \in Nat /\ \A i \in 1 .. token : copy[i] = input[i]
      BY <2>3, <1>1, <1>3, <1>12
    <3>2. token <= Len(copy) /\ token <= Len(input)
      BY <2>3, <1>1, <1>3, <1>4, <1>12
    <3> HIDE DEF token
    <3>3. QED
      BY <3>1, <3>2, <1>4
  <2>6. QED
    BY <2>3, <2>4, <2>5, <1>11, <1>13
<1>14. CASE ~\A i \in 1 .. space - 1 : copy[i] = "upper"
  <2>1. PICK i \in 1 .. space - 1 : copy[i] # "upper"
    BY <1>14
  <2>2. i \in others
    BY <2>1, <1>1, <1>3, <1>8, <1>12
  <2>3. token + 1 \in 1 .. space - 1
    <3>1. Min(others) \in Nat \ {0}
      BY <1>6, <1>10
    <3>2. Min(others) <= i
      BY <2>2, <1>10
    <3> HIDE DEF others
    <3>3. QED
      BY <3>1, <3>2, <1>12
  <2>4. token + 1 \notin spaces
    BY <2>3, <1>9, <1>12
  <2>5. token # MethodSize - 1 /\ input[token + 1] # "sp"
    BY <2>3, <2>4, <1>1, <1>3, <1>7, <1>12
  <2>6. QED
    BY <2>5, <1>11, <1>14
<1>15. QED
  BY <1>13, <1>14

(* get_method returns the upper-case letters a payload begins with, up to a *)
(* space or the end of its buffer, and rejects every other payload.         *)
THEOREM MethodsAreUpperCase == Spec => []MethodIsTheLeadingToken
BY InputsAreSequences, MethodOfInput, PTL
-----------------------------------------------------------------------------
(* The schemes, and the least of the ends, that Peername settles for are    *)
(* the only ones of a value that is an address.                             *)
LEMMA OneScheme ==
  ASSUME InputInv, AddressOnly
  PROVE  /\ Schemes # {} /\ Schemes \in SUBSET Nat
         /\ FirstOr(input, "sip:", "tel:") = Schemes
<1>1. DOMAIN input = 1 .. Len(input) /\ Len(input) \in Nat
  BY DEF InputInv
<1>2. Schemes \subseteq 1 .. Len(input)
  BY <1>1 DEF Schemes, Positions
<1>3. IsFiniteSet(1 .. Len(input))
  BY <1>1, FS_Interval
<1>4. IsFiniteSet(Schemes)
  BY <1>2, <1>3, FS_Subset
<1>5. PICK x : Schemes = {x}
  BY <1>4, FS_Singleton DEF AddressOnly
<1>6. FirstOr(input, "sip:", "tel:") = Schemes
  BY <1>5 DEF FirstOr, Schemes
<1>7. QED
  BY <1>1, <1>2, <1>5, <1>6

LEMMA FirstEnd ==
  ASSUME InputInv, AddressOnly,
         NEW ends, ends = Positions(input, "@") \cup Positions(input, ">")
  PROVE  /\ PeerEnds(input) = {} <=> ends = {}
         /\ ends \in SUBSET Nat
         /\ ends # {} => /\ Min(PeerEnds(input)) = Min(ends)
                         /\ Min(Schemes) < Min(ends)
                         /\ Min(ends) \in 1 .. Len(input)
<1> DEFINE at == Positions(input, "@")
           angle == Positions(input, ">")
<1>1. DOMAIN input = 1 .. Len(input) /\ Len(input) \in Nat
  BY DEF InputInv
<1>2. at \in SUBSET Nat /\ angle \in SUBSET Nat /\ ends \subseteq 1 .. Len(input)
  BY <1>1 DEF Positions
<1>3. ends = at \cup angle /\ PeerEnds(input) = IF at # {} THEN at ELSE angle
  BY DEF PeerEnds, FirstOr
<1>4. /\ \A i \in ends : Min(Schemes) < i
      /\ at # {} /\ angle # {} => Min(at) < Min(angle)
  BY DEF AddressOnly
<1> HIDE DEF at, angle
<1>5. ASSUME at # {}, angle # {}
      PROVE  Min(ends) = Min(at)
  <2>1. Min(at) \in at /\ \A i \in at : Min(at) <= i
    BY <1>2, <1>5, LeastOf
  <2>2. Min(angle) \in angle /\ \A i \in angle : Min(angle) <= i
    BY <1>2, <1>5, LeastOf
  <2>3. \A i \in ends : Min(at) <= i
    <3>1. Min(at) \in Nat /\ Min(angle) \in Nat /\ Min(at) < Min(angle)
      BY <1>2, <1>4, <1>5, <2>1, <2>2
    <3>2. \A i \in angle : i \in Nat /\ Min(angle) <= i
      BY <1>2, <2>2
    <3>3. \A i \in angle : Min(at) <= i
      BY <3>1, <3>2
    <3>4. QED
      BY <1>3, <2>1, <3>3
  <2>4. QED
    BY <1>2, <1>3, <2>1, <2>3, IsLeast
<1>6. ends # {} => Min(PeerEnds(input)) = Min(ends)
  BY <1>3, <1>5
<1>7. ends # {} => Min(ends) \in ends
  BY <1>2, LeastOf
<1>8. QED
  BY <1>2, <1>3, <1>4, <1>6, <1>7

LEMMA PeernameOfInput ==
  ASSUME InputInv
  PROVE  PeernameIsTheUser
<1> SUFFICES ASSUME AddressOnly
             PROVE  Peername(input) = UserOfAddress
  BY DEF PeernameIsTheUser
<1> DEFINE ends == Positions(input, "@") \cup Positions(input, ">")
           from == Min(Schemes)
           to == Min(ends)
           user == SubSeq(input, from + 1, to - 1)
<1>1. Schemes # {} /\ FirstOr(input, "sip:", "tel:") = Schemes /\ from \in Nat
  BY OneScheme, LeastOf
<1>2. /\ PeerEnds(input) = {} <=> ends = {}
      /\ ends # {} => /\ Min(PeerEnds(input)) = to
                      /\ from < to
                      /\ to \in 1 .. Len(input)
  BY FirstEnd
<1>3. /\ Peername(input) =
           IF PeerEnds(input) = {} \/ Min(PeerEnds(input)) <= from + 1 THEN Empty
           ELSE SubSeq(input, from + 1, Min(PeerEnds(input)) - 1)
      /\ UserOfAddress = IF ends = {} \/ user = << >> THEN Empty ELSE user
  BY <1>1 DEF Peername, UserOfAddress
<1>4. ASSUME ends # {}
      PROVE  user = << >> <=> to <= from + 1
  <2>1. /\ input \in Seq(Inputs) /\ from \in Nat /\ to \in Nat
        /\ from + 1 \in 1 .. Len(input) + 1
        /\ to - 1 \in from .. Len(input)
    BY <1>1, <1>2, <1>4 DEF InputInv
  <2> HIDE DEF from, to
  <2>2. /\ user \in Seq(Inputs)
        /\ Len(user) = IF from + 1 <= to - 1 THEN to - 1 - (from + 1) + 1 ELSE 0
    BY <1>1, <2>1, SubSeqProperties
  <2> HIDE DEF user
  <2>3. Len(user) = 0 <=> to <= from + 1
    BY <2>1, <2>2
  <2>4. user = << >> <=> Len(user) = 0
    BY <2>2, EmptySeq
  <2>5. QED
    BY <2>3, <2>4
<1>5. QED
  BY <1>2, <1>3, <1>4

(* The caller and callee that name a file are the user parts of their       *)
(* addresses, whatever the addresses' schemes and hosts and the letters in  *)
(* them.                                                                    *)
THEOREM PeernamesAreUsers == Spec => []PeernameIsTheUser
BY InputsAreSequences, PeernameOfInput, PTL

-----------------------------------------------------------------------------
(* SDP.                                                                     *)
LEMMA EventOfInput ==
  ASSUME InputInv
  PROVE  EventIsAnnounced
<1> DEFINE maps == Lines(input, "a=rtpmap")
           pt == input[Min(maps)].n
<1>1. maps \in SUBSET Nat
  BY DEF InputInv, Lines
<1>2. maps # {} => Min(maps) \in maps
  BY <1>1, LeastOf
<1>3. RtpmapEvent(input) = IF maps = {} \/ pt \notin 0 .. 255 THEN 0 ELSE pt
  BY DEF RtpmapEvent
<1>4. Announced = {input[i].n : i \in maps} \ {-1}
  BY DEF Announced, NotAnEvent
<1> HIDE DEF maps
<1>5. ASSUME maps # {}, pt \in 0 .. 255
      PROVE  pt \in Announced
  BY <1>2, <1>4, <1>5
<1>6. QED
  BY <1>3, <1>5 DEF EventIsAnnounced

(* The payload type -R rtpevent selects is one the SDP has announced for    *)
(* telephone events, or none: numbers that do not fit a byte never pass for *)
(* another.                                                                 *)
THEOREM EventsAreAnnounced == Spec => []EventIsAnnounced
BY InputsAreSequences, EventOfInput, PTL
-----------------------------------------------------------------------------
(* A function of the words of a frame that is defined by what it is two     *)
(* words on exists: it can be filled in from the end.                       *)
NextHeader(i, further) ==
  CASE input[i] \in {IPv4, IPv6} -> i + 1
    [] input[i] \in VlanTags -> IF i + 2 <= Len(input) THEN further ELSE NoIp
    [] input[i] = PPPoE -> IF i + 4 <= Len(input) THEN PppoeIp(input, i) ELSE NoIp
    [] OTHER -> NoIp

WalkedFrom(f, m) == \A i \in m .. Len(input) : f[i] = NextHeader(i, f[i + 2])

LEMMA NextHeaderType ==
  ASSUME NEW i \in Nat, NEW further \in Nat
  PROVE  NextHeader(i, further) \in Nat
BY DEF NextHeader, PppoeIp, NoIp, IPv4, IPv6, VlanTags, PPPoE

LEMMA WalkExists ==
  ASSUME InputInv
  PROVE  \E f \in [1 .. Len(input) + 2 -> Nat] : WalkedFrom(f, 1)
<1> DEFINE last == Len(input)
           Walks == [1 .. last + 2 -> Nat]
           reached == {m \in Nat : m \in 1 .. last + 1 /\ \E f \in Walks : WalkedFrom(f, m)}
<1>1. last \in Nat
  BY DEF InputInv
<1>2. last + 1 \in reached
  <2>1. [i \in 1 .. last + 2 |-> 0] \in Walks
    OBVIOUS
  <2>2. last + 1 .. last = {}
    BY <1>1
  <2>3. WalkedFrom([i \in 1 .. last + 2 |-> 0], last + 1)
    BY <2>2 DEF WalkedFrom
  <2>4. QED
    BY <1>1, <2>1, <2>3
<1> DEFINE m == Min(reached)
<1>3. m \in reached /\ \A k \in reached : m <= k
  BY <1>2, LeastOf
<1>4. PICK f \in Walks : WalkedFrom(f, m)
  BY <1>3
<1>5. m \in 1 .. last + 1
  BY <1>3
<1>6. CASE m = 1
  BY <1>4, <1>6
<1>7. CASE m # 1
  <2> HIDE DEF m
  <2>1. m - 1 \in 1 .. last /\ m + 1 \in 1 .. last + 2
    BY <1>1, <1>5, <1>7
  <2> DEFINE g == [f EXCEPT ![m - 1] = NextHeader(m - 1, f[m + 1])]
  <2>2. g \in Walks
    <3>1. f[m + 1] \in Nat
      BY <1>4, <2>1
    <3>2. NextHeader(m - 1, f[m + 1]) \in Nat
      <4>1. m - 1 \in Nat
        BY <1>1, <2>1
      <4> HIDE DEF reached
      <4>2. QED
        BY <3>1, <4>1, NextHeaderType, Zenon
    <3>3. QED
      BY <1>4, <3>2
  <2>3. ASSUME NEW i \in m - 1 .. last
        PROVE  g[i] = NextHeader(i, g[i + 2])
    <3>1. i + 2 \in 1 .. last + 2 /\ i + 2 # m - 1 /\ i \in 1 .. last + 2
      BY <1>1, <1>5, <2>1
    <3>2. g[i + 2] = f[i + 2]
      BY <1>4, <3>1
    <3>3. CASE i = m - 1
      BY <1>1, <1>4, <1>5, <2>1, <3>2, <3>3
    <3>4. CASE i # m - 1
      <4>1. i \in m .. last
        BY <1>1, <1>5, <2>1, <3>4
      <4>2. g[i] = f[i]
        BY <1>4, <3>1, <3>4
      <4>3. QED
        BY <1>4, <3>2, <4>1, <4>2 DEF WalkedFrom
    <3>5. QED
      BY <3>3, <3>4
  <2>4. WalkedFrom(g, m - 1)
    BY <2>3 DEF WalkedFrom
  <2>5. m - 1 \in reached
    <3>1. m - 1 \in Nat /\ m - 1 \in 1 .. last + 1
      BY <1>1, <2>1
    <3> HIDE DEF g
    <3>2. QED
      BY <2>2, <2>4, <3>1
  <2>6. QED
    BY <1>1, <1>3, <1>5, <2>1, <2>5
<1>8. QED
  BY <1>6, <1>7

(* So StackEnd is one that walks from its first word.                       *)
LEMMA StackEndUnfolds ==
  ASSUME InputInv
  PROVE  \E f : StackEnd = f[1] /\ WalkedFrom(f, 1)
<1> DEFINE Body(g) ==
      [i \in 1 .. Len(input) |->
        CASE input[i] \in {IPv4, IPv6} -> i + 1
          [] input[i] \in VlanTags -> IF i + 2 <= Len(input) THEN g[i + 2] ELSE NoIp
          [] input[i] = PPPoE -> IF i + 4 <= Len(input) THEN PppoeIp(input, i) ELSE NoIp
          [] OTHER -> NoIp]
<1> DEFINE Walk[i \in 1 .. Len(input)] ==
        CASE input[i] \in {IPv4, IPv6} -> i + 1
          [] input[i] \in VlanTags -> IF i + 2 <= Len(input) THEN Walk[i + 2] ELSE NoIp
          [] input[i] = PPPoE -> IF i + 4 <= Len(input) THEN PppoeIp(input, i) ELSE NoIp
          [] OTHER -> NoIp
<1>1. StackEnd = Walk[1]
  BY DEF StackEnd
<1>2. PICK f \in [1 .. Len(input) + 2 -> Nat] : WalkedFrom(f, 1)
  BY WalkExists
<1> DEFINE g == [i \in 1 .. Len(input) |-> f[i]]
<1>3. g = Body(g)
  <2>1. Len(input) \in Nat
    BY DEF InputInv
  <2>2. ASSUME NEW i \in 1 .. Len(input)
        PROVE  f[i] = Body(g)[i]
    <3>1. f[i] = NextHeader(i, f[i + 2])
      BY <1>2 DEF WalkedFrom
    <3>2. i + 2 <= Len(input) => g[i + 2] = f[i + 2]
      BY <2>1
    <3> HIDE DEF g
    <3>3. QED
      BY <3>1, <3>2 DEF NextHeader
  <2>3. QED
    BY <2>2
<1>4. Walk = Body(Walk)
  BY <1>3
<1>5. WalkedFrom(Walk, 1)
  <2>1. ASSUME NEW i \in 1 .. Len(input)
        PROVE  Walk[i] = NextHeader(i, Walk[i + 2])
    <3>1. Walk[i] = Body(Walk)[i]
      BY <1>4, Zenon
    <3> HIDE DEF Walk
    <3>2. QED
      BY <3>1 DEF NextHeader
  <2> HIDE DEF Walk
  <2>2. QED
    BY <2>1 DEF WalkedFrom
<1>6. QED
  BY <1>1, <1>5

LEMMA HeaderOfInput ==
  ASSUME InputInv
  PROVE  HeaderIsBehindTheStack
<1> SUFFICES ASSUME kind = "frame", Len(input) = Bound(kind)
             PROVE  /\ EthIp(input) \in {StackEnd, NoIp}
                    /\ Listed => EthIp(input) = StackEnd
  BY DEF HeaderIsBehindTheStack
<1>1. Len(input) >= 7 /\ Len(input) \in Nat
  BY ParsingAssumption DEF InputInv
<1>2. PICK f : StackEnd = f[1] /\ WalkedFrom(f, 1)
  BY StackEndUnfolds
<1>3. /\ StackEnd = NextHeader(1, f[3])
      /\ f[3] = NextHeader(3, f[5])
      /\ f[5] = NextHeader(5, f[7])
  BY <1>1, <1>2 DEF WalkedFrom
<1> USE DEF IPv4, IPv6, PPPoE, VlanTags, NoIp
<1>4. /\ \A i \in {1, 3, 5} :
           /\ input[i] \in {IPv4, IPv6} => NextHeader(i, f[i + 2]) = i + 1
           /\ input[i] \in VlanTags => NextHeader(i, f[i + 2]) = f[i + 2]
      /\ \A i \in {1, 3} : input[i] = PPPoE => NextHeader(i, f[i + 2]) = PppoeIp(input, i)
      /\ \A i \in {1, 3, 5} :
           input[i] \notin {IPv4, IPv6, PPPoE} \cup VlanTags => NextHeader(i, f[i + 2]) = NoIp
  BY <1>1 DEF NextHeader
<1>5. CASE input[1] \in {IPv4, IPv6}
  BY <1>3, <1>4, <1>5 DEF EthIp, Listed
<1>6. CASE input[1] = PPPoE
  BY <1>3, <1>4, <1>6 DEF EthIp, Listed
<1>7. CASE input[1] \in VlanTags
  <2>1. StackEnd = NextHeader(3, f[5])
    BY <1>3, <1>4, <1>7
  <2>2. QinQIp(input) \in {StackEnd, NoIp} /\ (input[3] = "8100" /\ input[5] = IPv4 => QinQIp(input) = StackEnd)
    BY <1>3, <1>4, <2>1 DEF QinQIp
  <2>3. QED
    BY <1>4, <1>7, <2>1, <2>2 DEF EthIp, Listed
<1>8. CASE input[1] \notin {IPv4, IPv6, PPPoE} \cup VlanTags
  BY <1>8 DEF EthIp, Listed
<1>9. QED
  BY <1>5, <1>6, <1>7, <1>8

(* ethernet_get_header_ip finds the IP header behind all of a frame's tags  *)
(* or drops the frame, and drops none of the stacks it lists, whatever the  *)
(* words.                                                                   *)
THEOREM HeadersAreBehindTheStack == Spec => []HeaderIsBehindTheStack
BY InputsAreSequences, HeaderOfInput, PTL
-----------------------------------------------------------------------------
(* The value of the first header at or behind a position, which is what the *)
(* search of gettag finds from there.                                       *)
HeadersFrom(r) == {i \in LineStarts \cap Positions(input, Tag) : EndOf(i) # {} /\ r <= i}

ValueStart(from, to) == Min({i \in from + 1 .. to : i = to \/ input[i] # "sp"})

ValueIn(from) ==
  LET to == Min(EndOf(from))
  IN  [at |-> ValueStart(from, to), len |-> to - ValueStart(from, to)]

FirstValue(headers) == IF headers = {} THEN NoTag ELSE ValueIn(Min(headers))

(* One step of the search, from r.                                          *)
Hits(r) == {i \in r .. Len(input) : input[i] = Tag}

ValueEnds(value) == {i \in value .. Len(input) : input[i] = "eol"}

ScanStep(r, f) ==
  LET hit == Min(Hits(r))
      value == AfterSpaces(input, hit + 1)
  IN  CASE Hits(r) = {} -> NoTag
        [] Hits(r) # {} /\ ~AtLineStart(input, hit) -> f[hit + 1]
        [] Hits(r) # {} /\ AtLineStart(input, hit) /\ ValueEnds(value) # {} ->
             [at |-> value, len |-> Min(ValueEnds(value)) - value]
        [] OTHER -> f[value]

LEMMA TextFacts ==
  ASSUME InputInv
  PROVE  /\ Len(input) \in Nat /\ DOMAIN input = 1 .. Len(input)
         /\ Tag # "sp" /\ Tag # "eol"
         /\ \A r : /\ HeadersFrom(r) \in SUBSET Nat
                   /\ EndOf(r) \in SUBSET Nat
                   /\ EndOf(r) = {i \in 1 .. Len(input) : input[i] = "eol" /\ r <= i}
         /\ \A r \in Nat : \A i \in HeadersFrom(r) :
              i \in 1 .. Len(input) /\ input[i] = Tag /\ AtLineStart(input, i)
              /\ EndOf(i) # {} /\ r <= i
         /\ \A r \in Nat : \A i \in 1 .. Len(input) :
              input[i] = Tag /\ AtLineStart(input, i) /\ EndOf(i) # {} /\ r <= i
                => i \in HeadersFrom(r)
<1>1. Len(input) \in Nat /\ DOMAIN input = 1 .. Len(input)
  BY DEF InputInv
<1>2. Tag # "sp" /\ Tag # "eol"
  BY ParsingAssumption
<1>3. LineStarts \in SUBSET Nat
  BY <1>1 DEF LineStarts, Positions
<1>4. \A i \in 1 .. Len(input) : i \in LineStarts <=> AtLineStart(input, i)
  <2> TAKE i \in 1 .. Len(input)
  <2>1. CASE i = 1
    BY <2>1 DEF LineStarts, AtLineStart
  <2>2. CASE i # 1
    <3>1. i - 1 \in DOMAIN input
      BY <1>1, <2>2
    <3>2. ASSUME input[i - 1] = "eol"
          PROVE  i \in LineStarts
      <4>1. i - 1 \in Positions(input, "eol") /\ i = (i - 1) + 1
        BY <1>1, <3>1, <3>2 DEF Positions
      <4>2. QED
        BY <4>1 DEF LineStarts
    <3>3. ASSUME i \in LineStarts
          PROVE  input[i - 1] = "eol"
      <4>1. PICK j \in Positions(input, "eol") : i = j + 1
        BY <2>2, <3>3 DEF LineStarts
      <4>2. j = i - 1 /\ input[j] = "eol"
        BY <1>1, <4>1 DEF Positions
      <4>3. QED
        BY <4>2
    <3>4. QED
      BY <2>2, <3>2, <3>3 DEF AtLineStart
  <2>3. QED
    BY <2>1, <2>2
<1>5. \A r : EndOf(r) = {i \in 1 .. Len(input) : input[i] = "eol" /\ r <= i}
  BY <1>1 DEF EndOf, Positions
<1>6. \A r : HeadersFrom(r) = {i \in 1 .. Len(input) : /\ i \in LineStarts /\ input[i] = Tag
                                                       /\ EndOf(i) # {} /\ r <= i}
  BY <1>1 DEF HeadersFrom, Positions
<1>7. \A r : HeadersFrom(r) \in SUBSET Nat /\ EndOf(r) \in SUBSET Nat
  BY <1>1, <1>5, <1>6
<1>8. QED
  BY <1>1, <1>2, <1>4, <1>5, <1>6, <1>7

(* Nothing but spaces lies between a hit and the value behind it.           *)
LEMMA SpacesBetween ==
  ASSUME InputInv, NEW hit \in 1 .. Len(input), NEW value, value = AfterSpaces(input, hit + 1)
  PROVE  /\ value \in hit + 1 .. Len(input) + 1
         /\ \A j \in hit + 1 .. Len(input) : j < value => input[j] = "sp"
         /\ value <= Len(input) => input[value] # "sp"
<1> DEFINE S == {j \in hit + 1 .. Len(input) : input[j] # "sp"} \cup {Len(input) + 1}
<1>1. Len(input) \in Nat
  BY TextFacts
<1>2. S \in SUBSET Nat /\ Len(input) + 1 \in S
  BY <1>1
<1>3. value = Min(S)
  BY DEF AfterSpaces
<1>4. value \in S /\ \A j \in S : value <= j
  BY <1>2, <1>3, LeastOf
<1>5. value \in hit + 1 .. Len(input) + 1
  BY <1>1, <1>4
<1>6. ASSUME NEW j \in hit + 1 .. Len(input), j < value
      PROVE  input[j] = "sp"
  <2>1. j \notin S
    BY <1>1, <1>4, <1>5, <1>6
  <2>2. QED
    BY <2>1
<1>7. value <= Len(input) => input[value] # "sp"
  BY <1>1, <1>4, <1>5
<1>8. QED
  BY <1>5, <1>6, <1>7
LEMMA FirstHit ==
  ASSUME InputInv, NEW r \in 1 .. Len(input) + 1, Hits(r) # {}
  PROVE  /\ Min(Hits(r)) \in r .. Len(input)
         /\ Min(Hits(r)) \in 1 .. Len(input)
         /\ input[Min(Hits(r))] = Tag
         /\ \A i \in Hits(r) : Min(Hits(r)) <= i
         /\ HeadersFrom(r) \subseteq Hits(r)
<1>1. Len(input) \in Nat /\ HeadersFrom(r) \subseteq Hits(r)
  BY TextFacts DEF Hits
<1>2. Hits(r) \in SUBSET Nat /\ \A i \in Hits(r) : i \in r .. Len(input) /\ input[i] = Tag
  BY <1>1 DEF Hits
<1>3. Min(Hits(r)) \in Hits(r) /\ \A i \in Hits(r) : Min(Hits(r)) <= i
  BY <1>2, LeastOf
<1>4. QED
  BY <1>1, <1>2, <1>3

LEMMA NotAHeader ==
  ASSUME InputInv, NEW r \in 1 .. Len(input) + 1, Hits(r) # {},
         ~AtLineStart(input, Min(Hits(r)))
  PROVE  HeadersFrom(Min(Hits(r)) + 1) = HeadersFrom(r)
<1> DEFINE hit == Min(Hits(r))
<1>1. /\ hit \in r .. Len(input) /\ hit \in 1 .. Len(input)
      /\ \A i \in Hits(r) : hit <= i
      /\ HeadersFrom(r) \subseteq Hits(r)
  BY FirstHit
<1>2. Len(input) \in Nat /\ r \in Nat /\ hit \in Nat /\ hit + 1 \in Nat
  BY <1>1, TextFacts
<1> HIDE DEF hit
<1>3. ASSUME NEW i \in HeadersFrom(r)
      PROVE  i \in HeadersFrom(hit + 1)
  <2>1. i \in 1 .. Len(input) /\ input[i] = Tag /\ AtLineStart(input, i) /\ EndOf(i) # {}
    BY <1>2, <1>3, TextFacts
  <2>2. i # hit
    BY <2>1 DEF hit
  <2>3. hit + 1 <= i
    BY <1>1, <1>2, <1>3, <2>1, <2>2
  <2>4. QED
    BY <1>2, <2>1, <2>3, TextFacts
<1>4. ASSUME NEW i \in HeadersFrom(hit + 1)
      PROVE  i \in HeadersFrom(r)
  <2>1. /\ i \in 1 .. Len(input) /\ input[i] = Tag /\ AtLineStart(input, i) /\ EndOf(i) # {}
        /\ hit + 1 <= i
    BY <1>2, <1>4, TextFacts
  <2>2. r <= i
    BY <1>1, <1>2, <2>1
  <2>3. QED
    BY <1>2, <2>1, <2>2, TextFacts
<1>5. QED
  BY <1>3, <1>4 DEF hit

LEMMA TerminatedHeader ==
  ASSUME InputInv, NEW r \in 1 .. Len(input) + 1, Hits(r) # {},
         AtLineStart(input, Min(Hits(r))),
         NEW value, value = AfterSpaces(input, Min(Hits(r)) + 1), ValueEnds(value) # {}
  PROVE  FirstValue(HeadersFrom(r)) = [at |-> value, len |-> Min(ValueEnds(value)) - value]
<1> DEFINE hit == Min(Hits(r))
           to == Min(EndOf(hit))
<1>1. /\ hit \in r .. Len(input) /\ hit \in 1 .. Len(input) /\ input[hit] = Tag
      /\ \A i \in Hits(r) : hit <= i
      /\ HeadersFrom(r) \subseteq Hits(r)
  BY FirstHit
<1>2. Len(input) \in Nat /\ r \in Nat /\ hit \in Nat /\ Tag # "eol"
  BY <1>1, TextFacts
<1>3. /\ value \in hit + 1 .. Len(input) + 1
      /\ \A j \in hit + 1 .. Len(input) : j < value => input[j] = "sp"
      /\ value <= Len(input) => input[value] # "sp"
  BY <1>1, SpacesBetween
<1>4. /\ EndOf(hit) = {i \in 1 .. Len(input) : input[i] = "eol" /\ hit <= i}
      /\ AtLineStart(input, hit) /\ ValueEnds(value) # {} /\ HeadersFrom(r) \in SUBSET Nat
      /\ \A i \in 1 .. Len(input) :
           input[i] = Tag /\ AtLineStart(input, i) /\ EndOf(i) # {} /\ r <= i => i \in HeadersFrom(r)
  BY <1>2, TextFacts
<1>5. FirstValue(HeadersFrom(r)) =
        IF HeadersFrom(r) = {} THEN NoTag ELSE ValueIn(Min(HeadersFrom(r)))
  BY DEF FirstValue
<1> HIDE DEF hit
<1>6. EndOf(hit) = ValueEnds(value)
  <2>1. ASSUME NEW i \in EndOf(hit)
        PROVE  i \in ValueEnds(value)
    <3>1. i \in 1 .. Len(input) /\ input[i] = "eol" /\ hit <= i
      BY <1>4
    <3>2. i \in hit + 1 .. Len(input)
      BY <1>1, <1>2, <3>1
    <3>3. value <= i
      BY <1>2, <1>3, <3>1, <3>2
    <3>4. QED
      BY <1>2, <1>3, <3>1, <3>3 DEF ValueEnds
  <2>2. ASSUME NEW i \in ValueEnds(value)
        PROVE  i \in EndOf(hit)
    BY <1>1, <1>2, <1>3, <1>4 DEF ValueEnds
  <2>3. QED
    BY <2>1, <2>2
<1>7. hit \in HeadersFrom(r)
  BY <1>1, <1>2, <1>4, <1>6
<1>8. Min(HeadersFrom(r)) = hit
  BY <1>1, <1>4, <1>7, IsLeast
<1>9. to = Min(ValueEnds(value)) /\ to \in value .. Len(input) /\ value <= Len(input)
  <2>1. /\ ValueEnds(value) \in SUBSET Nat
        /\ \A i \in ValueEnds(value) : i \in value .. Len(input)
    BY <1>2, <1>3 DEF ValueEnds
  <2>2. Min(ValueEnds(value)) \in ValueEnds(value)
    BY <1>4, <2>1, LeastOf
  <2>3. to \in value .. Len(input)
    BY <1>6, <2>1, <2>2
  <2>4. QED
    BY <1>2, <1>3, <1>6, <2>3
<1> HIDE DEF to
<1>10. ValueStart(hit, to) = value
  <2> DEFINE S == {i \in hit + 1 .. to : i = to \/ input[i] # "sp"}
  <2>1. S \in SUBSET Nat
    BY <1>2, <1>3, <1>9
  <2>2. value \in S
    BY <1>2, <1>3, <1>9
  <2>3. ASSUME NEW i \in S
        PROVE  value <= i
    BY <1>2, <1>3, <1>9
  <2> HIDE DEF S
  <2>4. Min(S) = value
    BY <2>1, <2>2, <2>3, IsLeast
  <2>5. QED
    BY <2>4 DEF ValueStart, S
<1>11. ValueIn(hit) = [at |-> value, len |-> to - value]
  BY <1>10 DEF ValueIn, to
<1>12. QED
  BY <1>5, <1>7, <1>8, <1>9, <1>11

LEMMA UnterminatedHeader ==
  ASSUME InputInv, NEW r \in 1 .. Len(input) + 1, Hits(r) # {},
         NEW value, value = AfterSpaces(input, Min(Hits(r)) + 1), ValueEnds(value) = {}
  PROVE  HeadersFrom(r) = {} /\ HeadersFrom(value) = {}
<1> DEFINE hit == Min(Hits(r))
<1>1. /\ hit \in r .. Len(input) /\ hit \in 1 .. Len(input) /\ input[hit] = Tag
      /\ \A i \in Hits(r) : hit <= i
      /\ HeadersFrom(r) \subseteq Hits(r)
  BY FirstHit
<1>2. Len(input) \in Nat /\ r \in Nat /\ hit \in Nat /\ Tag # "eol"
  BY <1>1, TextFacts
<1>3. /\ value \in hit + 1 .. Len(input) + 1
      /\ \A j \in hit + 1 .. Len(input) : j < value => input[j] = "sp"
  BY <1>1, SpacesBetween
<1> HIDE DEF hit
<1>4. ASSUME NEW i \in 1 .. Len(input), hit <= i
      PROVE  input[i] # "eol"
  <2>1. CASE i = hit
    BY <1>1, <1>2, <2>1
  <2>2. CASE i # hit /\ i < value
    BY <1>2, <1>3, <1>4, <2>2
  <2>3. CASE value <= i
    BY <1>2, <1>3, <2>3 DEF ValueEnds
  <2>4. QED
    BY <1>2, <1>3, <2>1, <2>2, <2>3
<1>5. ASSUME NEW i \in 1 .. Len(input), hit <= i
      PROVE  EndOf(i) = {}
  <2>1. EndOf(i) = {j \in 1 .. Len(input) : input[j] = "eol" /\ i <= j}
    BY TextFacts
  <2>2. \A j \in 1 .. Len(input) : i <= j => hit <= j
    BY <1>2, <1>5
  <2>3. QED
    BY <1>4, <2>1, <2>2
<1>6. ASSUME NEW i \in HeadersFrom(r)
      PROVE  FALSE
  BY <1>1, <1>2, <1>5, <1>6, TextFacts
<1>7. ASSUME NEW i \in HeadersFrom(value)
      PROVE  FALSE
  <2>1. i \in 1 .. Len(input) /\ EndOf(i) # {} /\ value <= i
    BY <1>2, <1>3, <1>7, TextFacts
  <2>2. hit <= i
    BY <1>2, <1>3, <2>1
  <2>3. QED
    BY <1>5, <2>1, <2>2
<1>8. QED
  BY <1>6, <1>7
LEMMA ScanOfValues ==
  ASSUME InputInv, NEW r \in 1 .. Len(input) + 1, NEW f,
         \A i \in r + 1 .. Len(input) + 1 : f[i] = FirstValue(HeadersFrom(i))
  PROVE  ScanStep(r, f) = FirstValue(HeadersFrom(r))
<1> DEFINE hit == Min(Hits(r))
           value == AfterSpaces(input, hit + 1)
<1>1. ScanStep(r, f) =
        CASE Hits(r) = {} -> NoTag
          [] Hits(r) # {} /\ ~AtLineStart(input, hit) -> f[hit + 1]
          [] Hits(r) # {} /\ AtLineStart(input, hit) /\ ValueEnds(value) # {} ->
               [at |-> value, len |-> Min(ValueEnds(value)) - value]
          [] OTHER -> f[value]
  BY DEF ScanStep
<1>2. Len(input) \in Nat
  BY TextFacts
<1>3. CASE Hits(r) = {}
  <2>1. HeadersFrom(r) \subseteq Hits(r)
    BY TextFacts DEF Hits
  <2>2. QED
    BY <1>1, <1>3, <2>1 DEF FirstValue
<1>4. ASSUME Hits(r) # {}
      PROVE  /\ hit + 1 \in r + 1 .. Len(input) + 1
             /\ value \in r + 1 .. Len(input) + 1
  <2>1. hit \in r .. Len(input) /\ hit \in 1 .. Len(input)
    BY <1>4, FirstHit
  <2>2. value \in hit + 1 .. Len(input) + 1
    BY <2>1, SpacesBetween
  <2> HIDE DEF hit, value
  <2>3. QED
    BY <1>2, <2>1, <2>2
<1>5. CASE Hits(r) # {} /\ ~AtLineStart(input, hit)
  <2>1. HeadersFrom(hit + 1) = HeadersFrom(r)
    BY <1>5, NotAHeader
  <2>2. f[hit + 1] = FirstValue(HeadersFrom(hit + 1))
    BY <1>4, <1>5
  <2> HIDE DEF hit, value
  <2>3. QED
    BY <1>1, <1>5, <2>1, <2>2
<1>6. CASE Hits(r) # {} /\ AtLineStart(input, hit) /\ ValueEnds(value) # {}
  <2>1. FirstValue(HeadersFrom(r)) = [at |-> value, len |-> Min(ValueEnds(value)) - value]
    BY <1>6, TerminatedHeader
  <2> HIDE DEF hit, value
  <2>2. QED
    BY <1>1, <1>6, <2>1
<1>7. CASE Hits(r) # {} /\ AtLineStart(input, hit) /\ ValueEnds(value) = {}
  <2>1. HeadersFrom(r) = {} /\ HeadersFrom(value) = {}
    BY <1>7, UnterminatedHeader
  <2>2. f[value] = FirstValue(HeadersFrom(value))
    BY <1>4, <1>7
  <2> HIDE DEF hit, value
  <2>3. QED
    BY <1>1, <1>7, <2>1, <2>2
<1>8. QED
  BY <1>3, <1>5, <1>6, <1>7

(* A search that takes these steps finds the first value behind every       *)
(* position: if not, there would be a last position it goes wrong at.       *)
LEMMA ScansAgree ==
  ASSUME InputInv, NEW f, \A r \in 1 .. Len(input) + 1 : f[r] = ScanStep(r, f)
  PROVE  f[1] = FirstValue(HeadersFrom(1))
<1> DEFINE last == Len(input)
           Right(m) == \A i \in m .. last + 1 : f[i] = FirstValue(HeadersFrom(i))
           reached == {m \in Nat : m \in 1 .. last + 2 /\ Right(m)}
           m == Min(reached)
<1>1. last \in Nat
  BY TextFacts
<1>2. last + 2 \in reached
  BY <1>1
<1>3. m \in reached /\ \A k \in reached : m <= k
  BY <1>2, LeastOf
<1>4. m \in 1 .. last + 2 /\ Right(m)
  BY <1>3
<1>5. CASE m = 1
  <2> HIDE DEF m
  <2>1. 1 \in 1 .. last + 1
    BY <1>1
  <2>2. QED
    BY <1>4, <1>5, <2>1
<1>6. CASE m # 1
  <2> HIDE DEF m
  <2>1. m - 1 \in 1 .. last + 1 /\ m - 1 \in Nat /\ (m - 1) + 1 = m
    BY <1>1, <1>4, <1>6
  <2>2. f[m - 1] = FirstValue(HeadersFrom(m - 1))
    <3>1. \A i \in (m - 1) + 1 .. last + 1 : f[i] = FirstValue(HeadersFrom(i))
      BY <1>4, <2>1
    <3>2. ScanStep(m - 1, f) = FirstValue(HeadersFrom(m - 1))
      BY <2>1, <3>1, ScanOfValues
    <3>3. QED
      BY <2>1, <3>2
  <2>3. Right(m - 1)
    <3>1. \A i \in m - 1 .. last + 1 : i = m - 1 \/ i \in m .. last + 1
      BY <1>1, <2>1, <1>4
    <3>2. QED
      BY <1>4, <2>2, <3>1
  <2>4. m - 1 \in reached
    BY <1>1, <2>1, <2>3
  <2> HIDE DEF reached
  <2>5. QED
    BY <1>3, <1>4, <2>1, <2>4
<1>7. QED
  BY <1>5, <1>6

LEMMA ValueOfInput ==
  ASSUME InputInv
  PROVE  GetTag(input, Tag) = FirstValue(HeadersFrom(1))
<1> DEFINE last == Len(input)
           Body(g) ==
             [r \in 1 .. last + 1 |->
               LET hits == {i \in r .. last : input[i] = Tag}
                   hit == Min(hits)
                   value == AfterSpaces(input, hit + 1)
                   ends == {i \in value .. last : input[i] = "eol"}
               IN  CASE hits = {} -> NoTag
                     [] hits # {} /\ ~AtLineStart(input, hit) -> g[hit + 1]
                     [] hits # {} /\ AtLineStart(input, hit) /\ ends # {} ->
                          [at |-> value, len |-> Min(ends) - value]
                     [] OTHER -> g[value]]
           Scan[r \in 1 .. last + 1] ==
             LET hits == {i \in r .. last : input[i] = Tag}
                 hit == Min(hits)
                 value == AfterSpaces(input, hit + 1)
                 ends == {i \in value .. last : input[i] = "eol"}
             IN  CASE hits = {} -> NoTag
                   [] hits # {} /\ ~AtLineStart(input, hit) -> Scan[hit + 1]
                   [] hits # {} /\ AtLineStart(input, hit) /\ ends # {} ->
                        [at |-> value, len |-> Min(ends) - value]
                   [] OTHER -> Scan[value]
           g == [r \in 1 .. last + 1 |-> FirstValue(HeadersFrom(r))]
<1>1. GetTag(input, Tag) = Scan[1]
  BY DEF GetTag
<1>2. ASSUME NEW h
      PROVE  Body(h) = [r \in 1 .. last + 1 |-> ScanStep(r, h)]
  BY DEF ScanStep, Hits, ValueEnds
<1> HIDE DEF Body
<1>3. g = Body(g)
  <2>1. last \in Nat
    BY TextFacts
  <2>2. ASSUME NEW r \in 1 .. last + 1
        PROVE  ScanStep(r, g) = FirstValue(HeadersFrom(r))
    <3>1. \A i \in r + 1 .. Len(input) + 1 : g[i] = FirstValue(HeadersFrom(i))
      BY <2>1
    <3> HIDE DEF g
    <3>2. QED
      BY <3>1, ScanOfValues
  <2>3. Body(g) = [r \in 1 .. last + 1 |-> ScanStep(r, g)]
    BY <1>2
  <2>4. QED
    BY <2>2, <2>3
<1>4. Scan = Body(Scan)
  BY <1>3 DEF Body
<1> HIDE DEF Scan
<1>5. \A r \in 1 .. last + 1 : Scan[r] = ScanStep(r, Scan)
  <2>1. Body(Scan) = [r \in 1 .. last + 1 |-> ScanStep(r, Scan)]
    BY <1>2
  <2>2. QED
    BY <1>4, <2>1
<1>6. Scan[1] = FirstValue(HeadersFrom(1))
  BY <1>5, ScansAgree
<1>7. QED
  BY <1>1, <1>6

LEMMA GetTagOfInput ==
  ASSUME InputInv
  PROVE  GetTagReadsTheHeader
<1> DEFINE headers == {i \in LineStarts \cap Positions(input, Tag) : EndOf(i) # {}}
<1>1. headers = HeadersFrom(1)
  BY DEF HeadersFrom, Positions, InputInv
<1>2. FirstValue(headers) =
        LET from == Min(headers)
            to == Min(EndOf(from))
            value == Min({i \in from + 1 .. to : i = to \/ input[i] # "sp"})
        IN  IF headers = {} THEN NoTag ELSE [at |-> value, len |-> to - value]
  BY DEF FirstValue, ValueIn, ValueStart
<1>3. GetTag(input, Tag) = FirstValue(headers)
  BY <1>1, ValueOfInput
<1> HIDE DEF headers
<1>4. QED
  BY <1>2, <1>3 DEF GetTagReadsTheHeader, headers

(* gettag returns the value of the first terminated line that begins with   *)
(* the tag and nothing else, however the tag, spaces and line ends are      *)
(* strewn over the text.                                                    *)
THEOREM TheHeaderIsRead == Spec => []GetTagReadsTheHeader
BY InputsAreSequences, GetTagOfInput, PTL

-----------------------------------------------------------------------------
(* The command line.  The options read so far are a set of places, folded   *)
(* from its greatest member down.                                           *)
LEMMA IsGreatest ==
  ASSUME NEW S \in SUBSET Nat, NEW n \in S, \A m \in S : m <= n
  PROVE  Max(S) = n
<1> DEFINE Greatest(x) == \A y \in S : x >= y
<1>1. Greatest(n)
  OBVIOUS
<1>2. ASSUME NEW x \in S, Greatest(x)
      PROVE  x = n
  <2>1. x \in Nat /\ n \in Nat /\ n <= x /\ x <= n
    BY <1>2
  <2>2. QED
    BY <2>1
<1>3. Max(S) = CHOOSE x \in S : Greatest(x)
  BY DEF Max
<1> HIDE DEF Greatest
<1>4. QED
  BY <1>1, <1>2, <1>3

LEMMA HasGreatest ==
  ASSUME NEW n \in Nat, NEW S \in SUBSET (1 .. n), S # {}
  PROVE  Max(S) \in S
<1> DEFINE above == {m \in Nat : \A i \in S : i <= m}
           m == Min(above)
<1>1. n \in above
  OBVIOUS
<1>2. m \in above /\ \A k \in above : m <= k
  BY <1>1, LeastOf
<1>3. m \in Nat /\ \A i \in S : i <= m
  BY <1>2
<1> HIDE DEF m
<1>4. m \in S
  <2> SUFFICES ASSUME m \notin S
               PROVE  FALSE
    OBVIOUS
  <2>1. \A i \in S : i \in 1 .. n /\ i <= m /\ i # m
    BY <1>3
  <2>2. \A i \in S : 1 <= i /\ i <= m - 1
    BY <1>3, <2>1
  <2>3. m - 1 \in Nat
    <3>1. PICK i : i \in S
      OBVIOUS
    <3>2. 1 <= i /\ i <= m - 1 /\ i \in Nat
      BY <2>2, <3>1
    <3>3. QED
      BY <1>3, <3>2
  <2>4. m - 1 \in above
    BY <2>2, <2>3
  <2> HIDE DEF above
  <2>5. QED
    BY <1>2, <1>3, <2>4
<1>5. Max(S) = m
  BY <1>3, <1>4, IsGreatest
<1>6. QED
  BY <1>4, <1>5

FoldStep(given, before) ==
  IF given = {} THEN Defaults ELSE ReadOption(before[given \ {Max(given)}], args[Max(given)])

LEMMA FoldExists ==
  ASSUME NEW n \in Nat
  PROVE  \E f : f = [given \in SUBSET (1 .. n) |-> FoldStep(given, f)]
<1> DEFINE Fits(f, k) == f = [given \in SUBSET (1 .. k) |-> FoldStep(given, f)]
           left == {m \in Nat : m <= n /\ \E f : Fits(f, n - m)}
           m == Min(left)
<1>1. n \in left
  <2> DEFINE f == [given \in SUBSET (1 .. 0) |-> Defaults]
  <2>1. \A given \in SUBSET (1 .. 0) : given = {}
    OBVIOUS
  <2>2. \A given \in SUBSET (1 .. 0) : FoldStep(given, f) = Defaults
    BY <2>1 DEF FoldStep
  <2>3. f = [given \in SUBSET (1 .. 0) |-> FoldStep(given, f)]
    BY <2>2, Zenon
  <2>4. n - n = 0
    OBVIOUS
  <2> HIDE DEF f
  <2>5. Fits(f, n - n)
    BY <2>3, <2>4
  <2>6. QED
    BY <2>5
<1>2. m \in left
  BY <1>1, LeastOf
<1>3. CASE m = 0
  <2>1. \E f : Fits(f, n - m)
    BY <1>2
  <2>2. n - m = n
    BY <1>3
  <2> HIDE DEF m, left
  <2>3. QED
    BY <2>1, <2>2
<1>4. CASE m # 0
  <2> HIDE DEF m
  <2> DEFINE k == n - m
  <2>1. m \in Nat \ {0} /\ m <= n /\ \E f : Fits(f, k)
    BY <1>2, <1>4
  <2>2. PICK f : Fits(f, k)
    BY <2>1
  <2>3. k \in Nat /\ k + 1 = n - (m - 1) /\ m - 1 \in Nat
    BY <2>1
  <2> HIDE DEF k
  <2> DEFINE g == [given \in SUBSET (1 .. k + 1) |->
                    IF k + 1 \in given THEN ReadOption(f[given \ {k + 1}], args[k + 1])
                    ELSE f[given]]
  <2>4. ASSUME NEW given \in SUBSET (1 .. k + 1)
        PROVE  g[given] = FoldStep(given, g)
    <3>1. CASE k + 1 \in given
      <4>1. Max(given) = k + 1
        <5>1. given \in SUBSET Nat /\ \A i \in given : i <= k + 1
          BY <2>3
        <5>2. QED
          BY <3>1, <5>1, IsGreatest
      <4>2. given \ {k + 1} \in SUBSET (1 .. k + 1) /\ k + 1 \notin given \ {k + 1}
        BY <2>3
      <4>3. g[given \ {k + 1}] = f[given \ {k + 1}]
        BY <4>2, Zenon
      <4>4. g[given] = ReadOption(f[given \ {k + 1}], args[k + 1])
        BY <3>1, Zenon
      <4>5. given # {}
        BY <3>1
      <4> HIDE DEF g
      <4>6. QED
        BY <4>1, <4>3, <4>4, <4>5 DEF FoldStep
    <3>2. CASE k + 1 \notin given
      <4>1. given \in SUBSET (1 .. k)
        BY <2>3, <3>2
      <4>2. g[given] = f[given]
        BY <3>2, Zenon
      <4>3. f[given] = FoldStep(given, f)
        BY <2>2, <4>1, Zenon
      <4>4. CASE given = {}
        BY <4>2, <4>3, <4>4 DEF FoldStep
      <4>5. CASE given # {}
        <5>1. given \ {Max(given)} \in SUBSET (1 .. k + 1) /\ k + 1 \notin given \ {Max(given)}
          BY <3>2
        <5>2. g[given \ {Max(given)}] = f[given \ {Max(given)}]
          BY <5>1, Zenon
        <5> HIDE DEF g
        <5>3. QED
          BY <4>2, <4>3, <4>5, <5>2 DEF FoldStep
      <4>6. QED
        BY <4>4, <4>5
    <3>3. QED
      BY <3>1, <3>2
  <2>5. g = [given \in SUBSET (1 .. k + 1) |-> g[given]]
    BY Zenon
  <2>6. g = [given \in SUBSET (1 .. k + 1) |-> FoldStep(given, g)]
    BY <2>4, <2>5, Zenon
  <2> HIDE DEF g
  <2>7. Fits(g, n - (m - 1))
    BY <2>3, <2>6
  <2>8. m - 1 \in left
    BY <2>1, <2>3, <2>7
  <2>9. m <= m - 1
    BY <2>8, LeastOf DEF m
  <2>10. QED
    BY <2>1, <2>9
<1>5. QED
  BY <1>3, <1>4

(* So reading the options takes one step for each of them, in order.        *)
LEMMA ReadInOrder ==
  ASSUME NEW n \in Nat, DOMAIN args = 1 .. n
  PROVE  \E read : /\ read[0] = Defaults
                   /\ \A k \in 1 .. n : read[k] = ReadOption(read[k - 1], args[k])
                   /\ FoldLeft(ReadOption, Defaults, args) = read[n]
<1> DEFINE Body(f) == [given \in SUBSET (1 .. n) |->
                        IF given = {} THEN Defaults
                        ELSE ReadOption(f[given \ {Max(given)}], args[Max(given)])]
           iter[given \in SUBSET (1 .. n)] ==
             IF given = {} THEN Defaults
             ELSE ReadOption(iter[given \ {Max(given)}], args[Max(given)])
           read == [k \in 0 .. n |-> iter[1 .. k]]
<1>1. FoldLeft(ReadOption, Defaults, args) = iter[1 .. n]
  BY DEF FoldLeft, MapThenFoldSet
<1>2. PICK f : f = Body(f)
  BY FoldExists DEF FoldStep
<1>3. iter = Body(iter)
  BY <1>2
<1> HIDE DEF iter
<1>4. iter[1 .. 0] = Defaults
  <2>1. 1 .. 0 = {} /\ {} \in SUBSET (1 .. n)
    OBVIOUS
  <2>2. iter[{}] = Defaults
    BY <1>3, <2>1, Zenon
  <2>3. QED
    BY <2>1, <2>2
<1>5. ASSUME NEW k \in 1 .. n
      PROVE  iter[1 .. k] = ReadOption(iter[1 .. k - 1], args[k])
  <2>1. 1 .. k \in SUBSET (1 .. n) /\ 1 .. k # {} /\ 1 .. k \in SUBSET Nat
    OBVIOUS
  <2>2. Max(1 .. k) = k
    <3>1. k \in 1 .. k /\ \A i \in 1 .. k : i <= k
      OBVIOUS
    <3>2. QED
      BY <2>1, <3>1, IsGreatest
  <2>3. (1 .. k) \ {k} = 1 .. k - 1
    OBVIOUS
  <2>4. iter[1 .. k] = ReadOption(iter[(1 .. k) \ {Max(1 .. k)}], args[Max(1 .. k)])
    BY <1>3, <2>1, Zenon
  <2>5. QED
    BY <2>2, <2>3, <2>4
<1>6. /\ read[0] = iter[1 .. 0] /\ read[n] = iter[1 .. n]
      /\ \A k \in 1 .. n : read[k] = iter[1 .. k] /\ read[k - 1] = iter[1 .. k - 1]
  OBVIOUS
<1> HIDE DEF read
<1>7. QED
  BY <1>1, <1>4, <1>5, <1>6

(* Of one option, what it sets and when it stops.                           *)
SizeFits(a) ==
  a.opt = "B" => a.value.n \in Int /\ FitsInt(SizeAsked(a.value))

LEMMA SizeReadAsAsked ==
  ASSUME NEW a, a.opt = "B", SizeFits(a)
  PROVE  AsInt(ParseSizeString(a.value)) = SizeAsked(a.value)
<1> DEFINE n == a.value.n
           unit == a.value.unit
           x == SizeAsked(a.value)
<1>1. n \in Int /\ FitsInt(x)
  BY DEF SizeFits
<1>2. ParseSizeString(a.value) = IF unit \in DOMAIN Multipliers THEN n * Multipliers[unit] ELSE 0
  BY Zenon DEF ParseSizeString
<1>3. x = CASE unit = "mib" -> n [] unit = "gib" -> 1024 * n [] OTHER -> 0
  BY Zenon DEF SizeAsked
<1> HIDE DEF n, unit, x
<1>4. x \in -2048 .. 2047
  BY <1>1 DEF FitsInt
<1>5. ParseSizeString(a.value) = x
  <2>1. /\ DOMAIN Multipliers = {"mib", "gib"}
        /\ Multipliers["mib"] = 1 /\ Multipliers["gib"] = 1024
    BY DEF Multipliers
  <2>2. CASE unit = "mib"
    <3>1. ParseSizeString(a.value) = n * 1 /\ x = n
      BY <1>2, <1>3, <2>1, <2>2
    <3>2. QED
      BY <1>1, <3>1
  <2>3. CASE unit = "gib"
    <3>1. ParseSizeString(a.value) = n * 1024 /\ x = 1024 * n
      BY <1>2, <1>3, <2>1, <2>3
    <3>2. QED
      BY <1>1, <3>1
  <2>4. CASE unit \notin {"mib", "gib"}
    BY <1>2, <1>3, <2>1, <2>4
  <2>5. QED
    BY <2>2, <2>3, <2>4
<1>6. x + 2048 \in 0 .. 4095
  BY <1>4
<1>7. (x + 2048) % 4096 = x + 2048
  BY <1>4, <1>6
<1>8. AsInt(x) = x
  BY <1>4, <1>7 DEF AsInt
<1>9. QED
  BY <1>5, <1>8 DEF x

(* The triggers that are kept, and what -R chooses.                         *)
Kept(a, on) ==
  a.opt = "t" /\ a.value.on = on /\ a.value.action \in {"mv", "sh", "exec"}

Chosen(value) == IF value = "all" THEN "rtp+rtcp" ELSE value

ReadFrom(r, o, a) ==
  /\ r.exit = Running
  /\ \A opt \in {"i", "r", "d", "P", "m", "n", "v", "T", "l"} :
       r[opt] = IF a.opt = opt THEN a.value ELSE o[opt]
  /\ r.B = IF a.opt = "B" THEN SizeAsked(a.value) ELSE o.B
  /\ \A opt \in {"f", "p", "U"} : r[opt] = IF a.opt = opt THEN TRUE ELSE o[opt]
  /\ r.t38only = IF a.opt = "R" /\ a.value = "t38" THEN TRUE ELSE o.t38only
  /\ r.rtpsave = IF a.opt = "R" /\ a.value # "t38" THEN Chosen(a.value) ELSE o.rtpsave
  /\ \A on \in {"open", "close"} :
       r[on] = IF Kept(a, on) THEN Append(o[on], a.value) ELSE o[on]

LEMMA OneOption ==
  ASSUME NEW o, DOMAIN o = DOMAIN Defaults, o.exit = Running,
         NEW a, a.opt \in Letters, SizeFits(a)
  PROVE  /\ DOMAIN ReadOption(o, a) = DOMAIN Defaults
         /\ Stops(a) => ReadOption(o, a).exit = StatusOf(a)
         /\ ~Stops(a) => ReadFrom(ReadOption(o, a), o, a)
<1> DEFINE r == ReadOption(o, a)
<1>1. DOMAIN o = {"exit", "i", "r", "d", "P", "m", "n", "f", "p", "U", "v", "l", "B", "T",
                  "rtpsave", "t38only", "open", "close"}
  BY DEF Defaults
<1>2. o.exit = Running
  OBVIOUS
<1>3. CASE a.opt \in {"i", "r", "d", "P", "m", "n", "v", "T"}
  <2>1. r = [o EXCEPT ![a.opt] = a.value]
    BY <1>2, <1>3 DEF ReadOption
  <2>2. ~Stops(a) /\ ~Kept(a, "open") /\ ~Kept(a, "close")
    BY <1>3 DEF Stops, Kept
  <2>3. ReadFrom(r, o, a)
    BY <1>1, <1>2, <1>3, <2>1, <2>2 DEF ReadFrom
  <2>4. QED
    BY <2>1, <2>2, <2>3
<1>4. CASE a.opt \in {"f", "p", "U"}
  <2>1. r = [o EXCEPT ![a.opt] = TRUE]
    BY <1>2, <1>4 DEF ReadOption
  <2>2. ~Stops(a) /\ ~Kept(a, "open") /\ ~Kept(a, "close")
    BY <1>4 DEF Stops, Kept
  <2>3. ReadFrom(r, o, a)
    BY <1>1, <1>2, <1>4, <2>1, <2>2 DEF ReadFrom
  <2>4. QED
    BY <2>1, <2>2, <2>3
<1>5. CASE a.opt = "l"
  <2>1. r = IF a.value < 1 THEN [o EXCEPT !.exit = 1] ELSE [o EXCEPT !["l"] = a.value]
    BY <1>2, <1>5 DEF ReadOption, AtLeastOne
  <2>2. (Stops(a) <=> a.value < 1) /\ ~Kept(a, "open") /\ ~Kept(a, "close") /\ StatusOf(a) = 1
    BY <1>5 DEF Stops, Kept, StatusOf
  <2>3. ~Stops(a) => ReadFrom(r, o, a)
    BY <1>1, <1>2, <1>5, <2>1, <2>2 DEF ReadFrom
  <2>4. QED
    BY <1>1, <2>1, <2>2, <2>3
<1>6. CASE a.opt = "B"
  <2>1. r = IF SizeAsked(a.value) < 1 THEN [o EXCEPT !.exit = 1]
            ELSE [o EXCEPT !["B"] = SizeAsked(a.value)]
    <3>1. r = AtLeastOne(o, "B", AsInt(ParseSizeString(a.value)))
      BY <1>2, <1>6 DEF ReadOption
    <3>2. AsInt(ParseSizeString(a.value)) = SizeAsked(a.value)
      BY <1>6, SizeReadAsAsked
    <3>3. QED
      BY <3>1, <3>2 DEF AtLeastOne
  <2>2. (Stops(a) <=> SizeAsked(a.value) < 1) /\ ~Kept(a, "open") /\ ~Kept(a, "close") /\ StatusOf(a) = 1
    BY <1>6 DEF Stops, Kept, StatusOf
  <2>3. ~Stops(a) => ReadFrom(r, o, a)
    BY <1>1, <1>2, <1>6, <2>1, <2>2 DEF ReadFrom
  <2>4. QED
    BY <1>1, <2>1, <2>2, <2>3
<1>7. CASE a.opt = "R"
  <2>1. r = RtpFilter(o, a.value)
    BY <1>2, <1>7 DEF ReadOption
  <2>2. /\ Stops(a) <=> a.value \notin {"none", "rtpevent", "t38", "all", "rtp+rtcp", "rtp"}
        /\ ~Kept(a, "open") /\ ~Kept(a, "close") /\ StatusOf(a) = 1
    BY <1>7 DEF Stops, Kept, StatusOf
  <2>3. CASE Stops(a)
    <3>1. r = [o EXCEPT !.exit = 1]
      BY <2>1, <2>2, <2>3 DEF RtpFilter
    <3>2. QED
      BY <1>1, <2>2, <2>3, <3>1
  <2>4. CASE a.value = "t38"
    <3>1. r = [o EXCEPT !.t38only = TRUE]
      BY <2>1, <2>4 DEF RtpFilter
    <3>2. ReadFrom(r, o, a)
      BY <1>1, <1>2, <1>7, <2>2, <2>4, <3>1 DEF ReadFrom
    <3>3. QED
      BY <2>2, <2>4, <3>1, <3>2
  <2>5. CASE ~Stops(a) /\ a.value # "t38"
    <3>1. r = [o EXCEPT !.rtpsave = Chosen(a.value)]
      BY <2>1, <2>2, <2>5 DEF RtpFilter, Chosen
    <3>2. ReadFrom(r, o, a)
      BY <1>1, <1>2, <1>7, <2>2, <2>5, <3>1 DEF ReadFrom
    <3>3. QED
      BY <2>2, <2>5, <3>1, <3>2
  <2>6. QED
    BY <2>3, <2>4, <2>5
<1>8. CASE a.opt = "t"
  <2>1. r = AddTrigger(o, a.value)
    BY <1>2, <1>8 DEF ReadOption
  <2>2. (Stops(a) <=> a.value.on \notin {"open", "close"}) /\ StatusOf(a) = 2
    BY <1>8 DEF Stops, StatusOf
  <2>3. CASE Stops(a)
    <3>1. a.value.on \notin {"open", "close"}
      BY <2>2, <2>3
    <3>2. AddTrigger(o, a.value) = [o EXCEPT !.exit = 2]
      BY <3>1 DEF AddTrigger
    <3>3. r = [o EXCEPT !.exit = 2]
      BY <2>1, <3>2
    <3>4. QED
      BY <1>1, <2>2, <2>3, <3>3
  <2>4. CASE ~Stops(a) /\ a.value.action \in {"mv", "sh", "exec"}
    <3>1. r = [o EXCEPT ![a.value.on] = Append(o[a.value.on], a.value)]
      BY <2>1, <2>2, <2>4 DEF AddTrigger
    <3>2. \A on : Kept(a, on) <=> a.value.on = on
      BY <1>8, <2>4 DEF Kept
    <3> DEFINE on == a.value.on
               more == Append(o[on], a.value)
    <3>3. on \in {"open", "close"} /\ r = [o EXCEPT ![on] = more]
      BY <2>2, <2>4, <3>1
    <3>4. \A event \in {"open", "close"} :
            IF Kept(a, event) THEN event = on /\ Append(o[event], a.value) = more ELSE event # on
      BY <3>2
    <3> HIDE DEF on, more
    <3>5. DOMAIN r = DOMAIN o /\ r[on] = more /\ \A x \in DOMAIN o : x # on => r[x] = o[x]
      BY <1>1, <3>3
    <3>6. \A event \in {"open", "close"} :
            r[event] = IF Kept(a, event) THEN Append(o[event], a.value) ELSE o[event]
      BY <1>1, <3>4, <3>5
    <3>7. \A x \in DOMAIN o : x \notin {"open", "close"} => r[x] = o[x]
      BY <3>3, <3>5
    <3> HIDE DEF r
    <3>8. ReadFrom(r, o, a)
      BY <1>1, <1>2, <1>8, <3>6, <3>7 DEF ReadFrom
    <3>9. QED
      BY <2>4, <3>5, <3>8 DEF r
  <2>5. CASE ~Stops(a) /\ a.value.action \notin {"mv", "sh", "exec"}
    <3>1. r = o
      BY <2>1, <2>2, <2>5 DEF AddTrigger
    <3>2. \A on : ~Kept(a, on)
      BY <2>5 DEF Kept
    <3>3. ReadFrom(r, o, a)
      BY <1>2, <1>8, <3>1, <3>2 DEF ReadFrom
    <3>4. QED
      BY <2>5, <3>1, <3>3
  <2>6. QED
    BY <2>3, <2>4, <2>5
<1>9. CASE a.opt \in {"h", "V", "?"}
  <2>1. r = [o EXCEPT !.exit = StatusOf(a)]
    BY <1>2, <1>9 DEF ReadOption, StatusOf
  <2>2. Stops(a)
    BY <1>9 DEF Stops
  <2>3. QED
    BY <1>1, <2>1, <2>2
<1>10. QED
  BY <1>3, <1>4, <1>5, <1>6, <1>7, <1>8, <1>9 DEF Letters

-----------------------------------------------------------------------------
(* What the options mean after the first n arguments.                       *)
Before(places, n) == {k \in places : k <= n}

LastOf(places, default) == IF places = {} THEN default ELSE args[Max(places)].value

T38s == {k \in Given({"R"}) : args[k].value = "t38"}

Values == {args[k].value : k \in DOMAIN args}

ReadSoFar(o, n) ==
  /\ DOMAIN o = DOMAIN Defaults
  /\ o.exit = Running
  /\ \A opt \in {"i", "r", "d", "P", "m", "n", "v", "T", "l"} :
       o[opt] = LastOf(Before(Given({opt}), n), Defaults[opt])
  /\ o.B = IF Before(Given({"B"}), n) = {} THEN 0
           ELSE SizeAsked(LastOf(Before(Given({"B"}), n), 0))
  /\ \A opt \in {"f", "p", "U"} : o[opt] = (Before(Given({opt}), n) # {})
  /\ o.t38only = (Before(T38s, n) # {})
  /\ o.rtpsave = Chosen(LastOf(Before(RtpFilters, n), "rtp+rtcp"))
  /\ \A on \in {"open", "close"} :
       o[on] \in Seq(Values) /\ InOrder(o[on], Before(TriggersOn(on), n))

LEMMA OneMorePlace ==
  ASSUME NEW n \in Nat, NEW places \in SUBSET Nat
  PROVE  /\ n + 1 \notin places => Before(places, n + 1) = Before(places, n)
         /\ n + 1 \in places => /\ Before(places, n + 1) = Before(places, n) \cup {n + 1}
                                /\ Before(places, n + 1) # {}
                                /\ Max(Before(places, n + 1)) = n + 1
<1>1. \A k \in places : k <= n + 1 <=> k <= n \/ k = n + 1
  OBVIOUS
<1>2. Before(places, n + 1) = {k \in places : k <= n \/ k = n + 1}
  BY <1>1 DEF Before
<1>3. n + 1 \notin places => Before(places, n + 1) = Before(places, n)
  BY <1>2 DEF Before
<1>4. ASSUME n + 1 \in places
      PROVE  /\ Before(places, n + 1) = Before(places, n) \cup {n + 1}
             /\ Max(Before(places, n + 1)) = n + 1
  <2>1. Before(places, n + 1) = Before(places, n) \cup {n + 1}
    BY <1>2, <1>4 DEF Before
  <2>2. Before(places, n + 1) \in SUBSET Nat /\ \A k \in Before(places, n + 1) : k <= n + 1
    BY DEF Before
  <2>3. n + 1 \in Before(places, n + 1)
    BY <2>1
  <2>4. QED
    BY <2>1, <2>2, <2>3, IsGreatest
<1>5. QED
  BY <1>3, <1>4

LEMMA LastAndOneMore ==
  ASSUME NEW n \in Nat, NEW places \in SUBSET Nat, NEW default
  PROVE  LastOf(Before(places, n + 1), default) =
           IF n + 1 \in places THEN args[n + 1].value ELSE LastOf(Before(places, n), default)
BY OneMorePlace DEF LastOf

(* One more trigger comes behind those in order.                            *)
LEMMA OneMoreInOrder ==
  ASSUME NEW n \in Nat, NEW places \in SUBSET (1 .. n), NEW V,
         NEW triggers \in Seq(V), InOrder(triggers, places),
         args[n + 1].value \in V
  PROVE  InOrder(Append(triggers, args[n + 1].value), places \cup {n + 1})
<1> DEFINE value == args[n + 1].value
           more == places \cup {n + 1}
           rank(k) == Cardinality(places \cap 1 .. k)
<1>1. IsFiniteSet(places) /\ Cardinality(places) \in Nat
  <2>1. IsFiniteSet(1 .. n)
    BY FS_Interval
  <2>2. IsFiniteSet(places)
    BY <2>1, FS_Subset
  <2>3. QED
    BY <2>2, FS_CardinalityType
<1>2. n + 1 \notin places
  OBVIOUS
<1>3. Cardinality(more) = Cardinality(places) + 1
  BY <1>1, <1>2, FS_AddElement
<1>4. Len(triggers) = Cardinality(places)
  <2>1. 1 .. Len(triggers) = 1 .. Cardinality(places) /\ Len(triggers) \in Nat
    BY DEF InOrder
  <2>2. QED
    BY <1>1, <2>1
<1>5. /\ DOMAIN Append(triggers, value) = 1 .. Cardinality(more)
      /\ Append(triggers, value)[Cardinality(more)] = value
      /\ \A i \in 1 .. Cardinality(places) : Append(triggers, value)[i] = triggers[i]
  BY <1>1, <1>3, <1>4
<1>6. ASSUME NEW k \in places
      PROVE  Append(triggers, value)[Cardinality(more \cap 1 .. k)] = args[k].value
  <2>1. more \cap 1 .. k = places \cap 1 .. k
    OBVIOUS
  <2>2. rank(k) \in 1 .. Cardinality(places)
    <3>1. places \cap 1 .. k \in SUBSET places /\ k \in places \cap 1 .. k
      OBVIOUS
    <3>2. /\ IsFiniteSet(places \cap 1 .. k)
          /\ rank(k) <= Cardinality(places)
      BY <1>1, <3>1, FS_Subset
    <3>3. rank(k) \in Nat /\ rank(k) # 0
      BY <3>1, <3>2, FS_CardinalityType, FS_EmptySet
    <3>4. QED
      BY <1>1, <3>2, <3>3
  <2>3. triggers[rank(k)] = args[k].value
    BY DEF InOrder
  <2>4. QED
    BY <1>5, <2>1, <2>2, <2>3
<1>7. Append(triggers, value)[Cardinality(more \cap 1 .. n + 1)] = args[n + 1].value
  <2>1. \A k \in more : k \in 1 .. n + 1
    OBVIOUS
  <2>2. more \cap 1 .. n + 1 = more
    BY <2>1
  <2>3. QED
    BY <1>5, <2>2
<1> HIDE DEF value
<1>8. \A k \in more : Append(triggers, value)[Cardinality(more \cap 1 .. k)] = args[k].value
  BY <1>6, <1>7
<1>9. QED
  BY <1>5, <1>8 DEF InOrder, value

(* The arguments are arguments of the menu, and their sizes fit.            *)
ArgumentsInv ==
  /\ kind = "options"
  /\ Len(input) \in Nat /\ DOMAIN input = 1 .. Len(input)
  /\ \A k \in DOMAIN input : input[k] \in DOMAIN Menu
  /\ \A k \in Given({"B"}) : FitsInt(SizeAsked(args[k].value))

LEMMA ArgumentFacts ==
  ASSUME ArgumentsInv
  PROVE  /\ DOMAIN args = 1 .. Len(input)
         /\ \A k \in DOMAIN args : args[k].opt \in Letters /\ SizeFits(args[k])
         /\ \A k \in Given({"i", "r"}) : args[k].value # Unset
         /\ \A opts : Given(opts) \in SUBSET (1 .. Len(input))
         /\ Stopping \in SUBSET (1 .. Len(input))
<1>1. DOMAIN args = 1 .. Len(input) /\ DOMAIN input = 1 .. Len(input)
  BY DEF args, ArgumentsInv
<1>2. ASSUME NEW k \in 1 .. Len(input)
      PROVE  /\ args[k].opt \in Letters /\ SizeFits(args[k])
             /\ args[k].opt \in {"i", "r"} => args[k].value # Unset
  <2>1. args[k] = Menu[input[k]] /\ input[k] \in DOMAIN Menu
    <3>1. input[k] \in DOMAIN Menu
      BY <1>1, <1>2 DEF ArgumentsInv
    <3>2. args[k] = Menu[input[k]]
      BY <1>1, <1>2 DEF args
    <3>3. QED
      BY <3>1, <3>2
  <2>2. /\ args[k].opt \in Letters
        /\ args[k].opt \in {"i", "r"} => args[k].value # Unset
        /\ args[k].opt = "B" => args[k].value.n \in Int
    BY <2>1, ParsingAssumption
  <2>3. CASE args[k].opt # "B"
    BY <2>2, <2>3 DEF SizeFits
  <2>4. CASE args[k].opt = "B"
    <3>1. k \in Given({"B"})
      BY <1>1, <1>2, <2>4 DEF Given
    <3>2. \A i : i \in Given({"B"}) => FitsInt(SizeAsked(args[i].value))
      BY DEF ArgumentsInv
    <3>3. FitsInt(SizeAsked(args[k].value))
      BY <3>1, <3>2
    <3>4. QED
      BY <2>2, <2>4, <3>3 DEF SizeFits
  <2>5. QED
    BY <2>2, <2>3, <2>4
<1>3. \A opts : Given(opts) \in SUBSET (1 .. Len(input))
  BY <1>1 DEF Given
<1>4. \A k \in Given({"i", "r"}) : args[k].value # Unset
  BY <1>1, <1>2 DEF Given
<1>5. Stopping \in SUBSET (1 .. Len(input))
  BY <1>1 DEF Stopping
<1>6. QED
  BY <1>1, <1>2, <1>3, <1>4, <1>5

LEMMA ReadingOneMore ==
  ASSUME ArgumentsInv, NEW n \in Nat, n + 1 \in DOMAIN args, NEW o, ReadSoFar(o, n),
         ~Stops(args[n + 1])
  PROVE  ReadSoFar(ReadOption(o, args[n + 1]), n + 1)
<1> DEFINE a == args[n + 1]
           r == ReadOption(o, a)
<1>1. /\ a.opt \in Letters /\ SizeFits(a)
      /\ DOMAIN args = 1 .. Len(input) /\ Len(input) \in Nat
      /\ \A opts : Given(opts) \in SUBSET Nat
  <2>1. /\ DOMAIN args = 1 .. Len(input)
        /\ \A k \in DOMAIN args : args[k].opt \in Letters /\ SizeFits(args[k])
        /\ \A opts : Given(opts) \in SUBSET (1 .. Len(input))
    BY ArgumentFacts
  <2>2. Len(input) \in Nat
    BY DEF ArgumentsInv
  <2>3. \A opts : Given(opts) \in SUBSET Nat
    BY <2>1, <2>2
  <2>4. QED
    BY <2>1, <2>2, <2>3
<1>2. DOMAIN o = DOMAIN Defaults /\ o.exit = Running
  BY DEF ReadSoFar
<1>3. ~Stops(a) /\ n + 1 \in DOMAIN args
  OBVIOUS
<1>4. \A opts : n + 1 \in Given(opts) <=> a.opt \in opts
  BY DEF Given
<1>5. a.value \in Values
  BY <1>3 DEF Values
<1> HIDE DEF a
<1>6. DOMAIN r = DOMAIN Defaults /\ ReadFrom(r, o, a)
  BY <1>1, <1>2, <1>3, OneOption
<1> HIDE DEF r
<1>7. r.exit = Running
  BY <1>6 DEF ReadFrom
<1>8. ASSUME NEW opt \in {"i", "r", "d", "P", "m", "n", "v", "T", "l"}
      PROVE  r[opt] = LastOf(Before(Given({opt}), n + 1), Defaults[opt])
  <2>1. r[opt] = IF a.opt = opt THEN a.value ELSE o[opt]
    BY <1>6 DEF ReadFrom
  <2>2. o[opt] = LastOf(Before(Given({opt}), n), Defaults[opt])
    BY DEF ReadSoFar
  <2>3. LastOf(Before(Given({opt}), n + 1), Defaults[opt]) =
          IF n + 1 \in Given({opt}) THEN a.value ELSE LastOf(Before(Given({opt}), n), Defaults[opt])
    <3>1. Given({opt}) \in SUBSET Nat
      BY <1>1
    <3>2. QED
      BY <3>1, LastAndOneMore, Zenon DEF a
  <2>4. n + 1 \in Given({opt}) <=> a.opt = opt
    BY <1>4
  <2>5. QED
    BY <2>1, <2>2, <2>3, <2>4
<1>9. r.B = IF Before(Given({"B"}), n + 1) = {} THEN 0
            ELSE SizeAsked(LastOf(Before(Given({"B"}), n + 1), 0))
  <2>1. r.B = IF a.opt = "B" THEN SizeAsked(a.value) ELSE o.B
    BY <1>6 DEF ReadFrom
  <2>2. o.B = IF Before(Given({"B"}), n) = {} THEN 0
              ELSE SizeAsked(LastOf(Before(Given({"B"}), n), 0))
    BY DEF ReadSoFar
  <2>3. n + 1 \in Given({"B"}) <=> a.opt = "B"
    BY <1>4
  <2>4. CASE a.opt = "B"
    <3>1. Before(Given({"B"}), n + 1) # {}
      BY <1>1, <2>3, <2>4, OneMorePlace
    <3>2. LastOf(Before(Given({"B"}), n + 1), 0) = a.value
      BY <1>1, <2>3, <2>4, LastAndOneMore DEF a
    <3>3. QED
      BY <2>1, <2>4, <3>1, <3>2
  <2>5. CASE a.opt # "B"
    <3>1. Before(Given({"B"}), n + 1) = Before(Given({"B"}), n)
      BY <1>1, <2>3, <2>5, OneMorePlace
    <3>2. QED
      BY <2>1, <2>2, <2>5, <3>1
  <2>6. QED
    BY <2>4, <2>5
<1>10. ASSUME NEW opt \in {"f", "p", "U"}
       PROVE  r[opt] = (Before(Given({opt}), n + 1) # {})
  <2>1. r[opt] = IF a.opt = opt THEN TRUE ELSE o[opt]
    BY <1>6 DEF ReadFrom
  <2>2. o[opt] = (Before(Given({opt}), n) # {})
    BY DEF ReadSoFar
  <2>3. n + 1 \in Given({opt}) <=> a.opt = opt
    BY <1>4
  <2>4. CASE a.opt = opt
    <3>1. Before(Given({opt}), n + 1) # {}
      BY <1>1, <2>3, <2>4, OneMorePlace
    <3>2. QED
      BY <2>1, <2>4, <3>1
  <2>5. CASE a.opt # opt
    <3>1. Before(Given({opt}), n + 1) = Before(Given({opt}), n)
      BY <1>1, <2>3, <2>5, OneMorePlace
    <3>2. QED
      BY <2>1, <2>2, <2>5, <3>1
  <2>6. QED
    BY <2>4, <2>5
<1>11. r.t38only = (Before(T38s, n + 1) # {})
  <2>1. r.t38only = IF a.opt = "R" /\ a.value = "t38" THEN TRUE ELSE o.t38only
    BY <1>6 DEF ReadFrom
  <2>2. o.t38only = (Before(T38s, n) # {})
    BY DEF ReadSoFar
  <2>3. (n + 1 \in T38s <=> a.opt = "R" /\ a.value = "t38") /\ T38s \in SUBSET Nat
    BY <1>1, <1>4 DEF T38s, a
  <2>4. CASE a.opt = "R" /\ a.value = "t38"
    <3>1. Before(T38s, n + 1) # {}
      BY <2>3, <2>4, OneMorePlace
    <3>2. QED
      BY <2>1, <2>4, <3>1
  <2>5. CASE ~(a.opt = "R" /\ a.value = "t38")
    <3>1. Before(T38s, n + 1) = Before(T38s, n)
      BY <2>3, <2>5, OneMorePlace
    <3>2. QED
      BY <2>1, <2>2, <2>5, <3>1
  <2>6. QED
    BY <2>4, <2>5
<1>12. r.rtpsave = Chosen(LastOf(Before(RtpFilters, n + 1), "rtp+rtcp"))
  <2>1. r.rtpsave = IF a.opt = "R" /\ a.value # "t38" THEN Chosen(a.value) ELSE o.rtpsave
    BY <1>6 DEF ReadFrom
  <2>2. o.rtpsave = Chosen(LastOf(Before(RtpFilters, n), "rtp+rtcp"))
    BY DEF ReadSoFar
  <2>3. (n + 1 \in RtpFilters <=> a.opt = "R" /\ a.value # "t38") /\ RtpFilters \in SUBSET Nat
    BY <1>1, <1>4 DEF RtpFilters, a
  <2>4. LastOf(Before(RtpFilters, n + 1), "rtp+rtcp") =
          IF n + 1 \in RtpFilters THEN a.value ELSE LastOf(Before(RtpFilters, n), "rtp+rtcp")
    BY <2>3, LastAndOneMore DEF a
  <2>5. QED
    BY <2>1, <2>2, <2>3, <2>4
<1>13. ASSUME NEW on \in {"open", "close"}
       PROVE  r[on] \in Seq(Values) /\ InOrder(r[on], Before(TriggersOn(on), n + 1))
  <2>1. r[on] = IF Kept(a, on) THEN Append(o[on], a.value) ELSE o[on]
    BY <1>6 DEF ReadFrom
  <2>2. o[on] \in Seq(Values) /\ InOrder(o[on], Before(TriggersOn(on), n))
    BY DEF ReadSoFar
  <2>3. TriggersOn(on) \in SUBSET Nat /\ \A k \in TriggersOn(on) : k \in 1 .. Len(input)
    BY <1>1, ArgumentFacts DEF TriggersOn
  <2>4. n + 1 \in TriggersOn(on) <=> Kept(a, on)
    BY <1>4 DEF TriggersOn, Kept, a
  <2>5. CASE Kept(a, on)
    <3>1. Before(TriggersOn(on), n + 1) = Before(TriggersOn(on), n) \cup {n + 1}
      BY <2>3, <2>4, <2>5, OneMorePlace
    <3>2. Before(TriggersOn(on), n) \in SUBSET (1 .. n)
      BY <2>3 DEF Before
    <3>3. InOrder(Append(o[on], a.value), Before(TriggersOn(on), n) \cup {n + 1})
      BY <2>2, <3>2, <1>5, OneMoreInOrder DEF a
    <3>4. Append(o[on], a.value) \in Seq(Values)
      BY <1>5, <2>2
    <3>5. QED
      BY <2>1, <2>5, <3>1, <3>3, <3>4
  <2>6. CASE ~Kept(a, on)
    <3>1. Before(TriggersOn(on), n + 1) = Before(TriggersOn(on), n)
      BY <2>3, <2>4, <2>6, OneMorePlace
    <3>2. QED
      BY <2>1, <2>2, <2>6, <3>1
  <2>7. QED
    BY <2>5, <2>6
<1>14. ReadSoFar(r, n + 1)
  BY <1>6, <1>7, <1>8, <1>9, <1>10, <1>11, <1>12, <1>13 DEF ReadSoFar
<1>15. QED
  BY <1>14 DEF a, r

(* After n arguments, the first of them that stops decides, if there is one.*)
Stopped(n) == Stopping # {} /\ Min(Stopping) <= n

ReadAt(o, n) ==
  IF Stopped(n) THEN o.exit = StatusOf(args[Min(Stopping)]) ELSE ReadSoFar(o, n)

LEMMA NothingRead ==
  ASSUME ArgumentsInv
  PROVE  ReadAt(Defaults, 0)
<1>1. /\ Stopping \in SUBSET (1 .. Len(input)) /\ Len(input) \in Nat
      /\ \A opts : Given(opts) \in SUBSET (1 .. Len(input))
  BY ArgumentFacts DEF ArgumentsInv
<1>2. ~Stopped(0)
  <2> SUFFICES ASSUME Stopping # {}
               PROVE  ~(Min(Stopping) <= 0)
    BY DEF Stopped
  <2>1. Stopping \in SUBSET Nat
    BY <1>1
  <2>2. Min(Stopping) \in Stopping
    BY <2>1, LeastOf
  <2>3. Min(Stopping) \in 1 .. Len(input)
    BY <1>1, <2>2
  <2>4. QED
    BY <1>1, <2>3
<1>3. ASSUME NEW places \in SUBSET (1 .. Len(input))
      PROVE  Before(places, 0) = {}
  <2>1. \A k \in places : k \in 1 .. Len(input)
    OBVIOUS
  <2>2. \A k \in places : ~(k <= 0)
    BY <1>1, <2>1
  <2>3. QED
    BY <2>2 DEF Before
<1>4. /\ T38s \in SUBSET (1 .. Len(input)) /\ RtpFilters \in SUBSET (1 .. Len(input))
      /\ \A on : TriggersOn(on) \in SUBSET (1 .. Len(input))
  BY <1>1 DEF T38s, RtpFilters, TriggersOn
<1>5. /\ \A opts : Before(Given(opts), 0) = {}
      /\ Before(T38s, 0) = {} /\ Before(RtpFilters, 0) = {}
      /\ \A on : Before(TriggersOn(on), 0) = {}
  BY <1>1, <1>3, <1>4
<1>6. /\ Defaults.exit = Running /\ Defaults.B = 0 /\ Defaults.rtpsave = "rtp+rtcp"
      /\ Defaults.t38only = FALSE /\ Defaults["open"] = << >> /\ Defaults["close"] = << >>
      /\ \A opt \in {"f", "p", "U"} : Defaults[opt] = FALSE
  BY DEF Defaults
<1>7. << >> \in Seq(Values) /\ InOrder(<< >>, {})
  BY FS_EmptySet DEF InOrder
<1>8. ReadSoFar(Defaults, 0)
  BY <1>5, <1>6, <1>7 DEF ReadSoFar, LastOf, Chosen
<1>9. QED
  BY <1>2, <1>8 DEF ReadAt

LEMMA OneMoreRead ==
  ASSUME ArgumentsInv, NEW n \in Nat, n + 1 \in DOMAIN args, NEW o, ReadAt(o, n)
  PROVE  ReadAt(ReadOption(o, args[n + 1]), n + 1)
<1> DEFINE a == args[n + 1]
           first == Min(Stopping)
<1>1. Stopping \in SUBSET Nat
  <2>1. Stopping \in SUBSET (1 .. Len(input)) /\ Len(input) \in Nat
    BY ArgumentFacts DEF ArgumentsInv
  <2>2. QED
    BY <2>1
<1>2. Stopping # {} => first \in Nat /\ first \in Stopping /\ \A k \in Stopping : first <= k
  BY <1>1, LeastOf
<1>3. \A k : StatusOf(args[k]) # Running
  BY DEF StatusOf, Running
<1>4. n + 1 \in Stopping <=> Stops(a)
  BY DEF Stopping
<1>5. a.opt \in Letters /\ SizeFits(a)
  BY ArgumentFacts
<1>6. CASE Stopped(n)
  <2>1. o.exit = StatusOf(args[first]) /\ Stopped(n + 1)
    BY <1>2, <1>6 DEF ReadAt, Stopped
  <2>2. ReadOption(o, a) = o
    BY <1>3, <2>1 DEF ReadOption
  <2>3. QED
    BY <2>1, <2>2 DEF ReadAt
<1>7. CASE ~Stopped(n) /\ Stops(a)
  <2>1. first = n + 1 /\ Stopped(n + 1)
    BY <1>2, <1>4, <1>7 DEF Stopped
  <2>2. DOMAIN o = DOMAIN Defaults /\ o.exit = Running
    BY <1>7 DEF ReadAt, ReadSoFar
  <2> HIDE DEF a, first
  <2>3. ReadOption(o, a).exit = StatusOf(a)
    BY <1>5, <1>7, <2>2, OneOption
  <2>4. QED
    BY <2>1, <2>3 DEF ReadAt, a, first
<1>8. CASE ~Stopped(n) /\ ~Stops(a)
  <2>1. ~Stopped(n + 1)
    BY <1>2, <1>4, <1>8 DEF Stopped
  <2>2. ReadSoFar(o, n)
    BY <1>8 DEF ReadAt
  <2>3. ReadSoFar(ReadOption(o, a), n + 1)
    BY <1>8, <2>2, ReadingOneMore
  <2>4. QED
    BY <2>1, <2>3 DEF ReadAt
<1>9. QED
  BY <1>6, <1>7, <1>8

LEMMA AllRead ==
  ASSUME ArgumentsInv
  PROVE  ReadAt(FoldLeft(ReadOption, Defaults, args), Len(input))
<1> DEFINE last == Len(input)
<1>1. last \in Nat /\ DOMAIN args = 1 .. last
  BY ArgumentFacts DEF ArgumentsInv
<1> HIDE DEF last
<1>2. PICK read : /\ read[0] = Defaults
                  /\ \A k \in 1 .. last : read[k] = ReadOption(read[k - 1], args[k])
                  /\ FoldLeft(ReadOption, Defaults, args) = read[last]
  BY <1>1, ReadInOrder
<1> DEFINE wrong == {n \in Nat : n <= last /\ ~ReadAt(read[n], n)}
<1>3. wrong = {}
  <2> SUFFICES ASSUME wrong # {}
               PROVE  FALSE
    OBVIOUS
  <2> DEFINE n == Min(wrong)
  <2>1. n \in wrong /\ \A k \in wrong : n <= k
    BY LeastOf
  <2>2. n \in Nat /\ n <= last /\ ~ReadAt(read[n], n)
    BY <2>1
  <2> HIDE DEF n
  <2>3. n # 0
    BY <1>2, <2>2, NothingRead
  <2>4. n - 1 \in Nat /\ n \in 1 .. last /\ (n - 1) + 1 = n
    BY <1>1, <2>2, <2>3
  <2>5. ReadAt(read[n - 1], n - 1)
    BY <1>1, <2>1, <2>2, <2>4
  <2>6. ReadAt(ReadOption(read[n - 1], args[n]), n)
    BY <1>1, <2>4, <2>5, OneMoreRead
  <2>7. QED
    BY <1>2, <2>2, <2>4, <2>6
<1>4. ReadAt(read[last], last)
  BY <1>1, <1>3
<1>5. QED
  BY <1>2, <1>4 DEF last

(* The whole command line.                                                  *)
LEMMA CommandLineOfInput ==
  ASSUME ArgumentsInv
  PROVE  LET o == CommandLine(args)
         IN  CASE Stopping # {} -> o.exit = StatusOf(args[Min(Stopping)])
               [] Stopping = {} /\ Given({"i", "r"}) = {} -> o.exit = 1
               [] OTHER -> o.exit = Running /\ AsDocumented(o)
<1> DEFINE o == FoldLeft(ReadOption, Defaults, args)
           last == Len(input)
           all == CommandLine(args)
<1>1. all = IF o.exit = Running /\ o.i = Unset /\ o.r = Unset THEN [o EXCEPT !.exit = 1] ELSE o
  BY DEF CommandLine
<1>2. /\ last \in Nat /\ Stopping \in SUBSET (1 .. last)
      /\ \A opts : Given(opts) \in SUBSET (1 .. last)
      /\ \A k \in Given({"i", "r"}) : args[k].value # Unset
  BY ArgumentFacts DEF ArgumentsInv
<1>3. ReadAt(o, last)
  BY AllRead
<1> HIDE DEF o, all, last
<1>4. CASE Stopping # {}
  <2>1. Stopped(last)
    <3>1. Stopping \in SUBSET Nat
      BY <1>2
    <3>2. Min(Stopping) \in Stopping
      BY <1>4, <3>1, LeastOf
    <3>3. Min(Stopping) \in 1 .. last
      BY <1>2, <3>2
    <3>4. QED
      BY <1>2, <1>4, <3>3 DEF Stopped
  <2>2. o.exit = StatusOf(args[Min(Stopping)])
    BY <1>3, <2>1 DEF ReadAt
  <2>3. o.exit # Running
    BY <2>2 DEF StatusOf, Running
  <2>4. all = o
    BY <1>1, <2>3
  <2>5. QED
    BY <1>4, <2>2, <2>4 DEF all
<1>5. CASE Stopping = {}
  <2>1. ReadSoFar(o, last)
    BY <1>3, <1>5 DEF ReadAt, Stopped
  <2>2. ASSUME NEW places \in SUBSET (1 .. last)
        PROVE  Before(places, last) = places
    <3>1. \A k \in places : k \in 1 .. last
      OBVIOUS
    <3>2. \A k \in places : k <= last
      BY <1>2, <3>1
    <3>3. QED
      BY <3>2 DEF Before
  <2>3. \A opts : Before(Given(opts), last) = Given(opts)
    BY <1>2, <2>2
  <2>4. ASSUME NEW opt \in {"i", "r", "d", "P", "m", "n", "v", "T", "l"}
        PROVE  o[opt] = LastGiven(opt)
    BY <2>1, <2>3 DEF ReadSoFar, LastOf, LastGiven
  <2>5. o.B = BufferSize
    BY <2>1, <2>3 DEF ReadSoFar, LastOf, LastGiven, BufferSize
  <2>6. \A opt \in {"f", "p", "U"} : o[opt] = (Given({opt}) # {})
    BY <2>1, <2>3 DEF ReadSoFar
  <2>7. o.t38only = \E k \in Given({"R"}) : args[k].value = "t38"
    <3>1. T38s \in SUBSET (1 .. last)
      BY <1>2 DEF T38s
    <3>2. o.t38only = (T38s # {})
      BY <2>1, <2>2, <3>1 DEF ReadSoFar
    <3>3. T38s # {} <=> \E k \in Given({"R"}) : args[k].value = "t38"
      BY DEF T38s
    <3>4. QED
      BY <3>2, <3>3
  <2>8. o.rtpsave = LastRtpFilter
    <3>1. RtpFilters \in SUBSET (1 .. last)
      BY <1>2 DEF RtpFilters
    <3>2. o.rtpsave = Chosen(LastOf(RtpFilters, "rtp+rtcp"))
      BY <2>1, <2>2, <3>1 DEF ReadSoFar
    <3>3. QED
      BY <3>2 DEF Chosen, LastOf, LastRtpFilter
  <2>9. ASSUME NEW on \in {"open", "close"}
        PROVE  InOrder(o[on], TriggersOn(on))
    <3>1. TriggersOn(on) \in SUBSET (1 .. last)
      BY <1>2 DEF TriggersOn
    <3>2. QED
      BY <2>1, <2>2, <3>1 DEF ReadSoFar
  <2>10. AsDocumented(o)
    BY <2>4, <2>5, <2>6, <2>7, <2>8, <2>9 DEF AsDocumented
  <2>11. DOMAIN o = DOMAIN Defaults /\ o.exit = Running
    BY <2>1 DEF ReadSoFar
  <2>12. CASE Given({"i", "r"}) = {}
    <3>1. o.i = Unset /\ o.r = Unset
      <4>1. Given({"i"}) = {} /\ Given({"r"}) = {}
        BY <2>12 DEF Given
      <4>2. o["i"] = LastGiven("i") /\ o["r"] = LastGiven("r")
        BY <2>4
      <4>3. QED
        BY <4>1, <4>2 DEF LastGiven, Defaults
    <3>2. all = [o EXCEPT !.exit = 1]
      BY <1>1, <2>11, <3>1
    <3>3. "exit" \in DOMAIN o
      BY <2>11 DEF Defaults
    <3>4. all.exit = 1
      BY <3>2, <3>3
    <3>5. QED
      BY <1>5, <2>12, <3>4 DEF all
  <2>13. CASE Given({"i", "r"}) # {}
    <3>1. PICK opt \in {"i", "r"} : Given({opt}) # {}
      BY <2>13 DEF Given
    <3>2. LastGiven(opt) # Unset
      <4>1. Given({opt}) \in SUBSET (1 .. last) /\ Given({opt}) # {}
        BY <1>2, <3>1
      <4>2. Max(Given({opt})) \in Given({opt})
        BY <1>2, <4>1, HasGreatest
      <4>3. Max(Given({opt})) \in Given({"i", "r"})
        BY <4>2 DEF Given
      <4>4. QED
        BY <1>2, <3>1, <4>3 DEF LastGiven
    <3>3. o.i # Unset \/ o.r # Unset
      BY <2>4, <3>1, <3>2
    <3>4. all = o
      BY <1>1, <3>3
    <3>5. QED
      BY <1>5, <2>10, <2>11, <2>13, <3>4 DEF all
  <2>14. QED
    BY <2>12, <2>13
<1>6. QED
  BY <1>4, <1>5

(* The arguments an input stands for are always those of the menu.          *)
MenuInv == kind = "options" => \A k \in DOMAIN input : input[k] \in DOMAIN Menu

LEMMA ArgumentsAreOfTheMenu == Spec => []MenuInv
<1>1. Init => MenuInv
  BY DEF Init, MenuInv
<1>2. InputInv /\ MenuInv /\ [Next]_vars => MenuInv'
  <2> SUFFICES ASSUME InputInv, MenuInv, [Next]_vars
               PROVE  MenuInv'
    OBVIOUS
  <2>1. CASE Grow
    <3>1. PICK s \in Alphabet(kind, Len(input) + 1) : input' = Append(input, s)
      BY <2>1 DEF Grow
    <3>2. /\ input \in Seq(Inputs) /\ Len(input) \in Nat /\ Len(input) < Bound(kind)
          /\ kind' = kind /\ kind \in Kinds
      BY <2>1 DEF Grow, InputInv
    <3>3. ASSUME kind = "options"
          PROVE  \A k \in DOMAIN input' : input'[k] \in DOMAIN Menu
      <4>1. Bound(kind) \in Nat
        BY <3>2, ParsingAssumption
      <4>2. Len(input) + 1 \in 1 .. Bound("options")
        BY <3>2, <3>3, <4>1
      <4>3. s \in DOMAIN Menu
        BY <3>1, <3>2, <3>3, <4>2, ParsingAssumption
      <4>4. ASSUME NEW k \in DOMAIN input'
            PROVE  input'[k] = s \/ (k \in DOMAIN input /\ input'[k] = input[k])
        BY <3>1, <3>2
      <4>5. QED
        BY <3>3, <4>3, <4>4 DEF MenuInv
    <3>4. QED
      BY <3>2, <3>3 DEF MenuInv
  <2>2. CASE NextInput
    BY <2>2 DEF MenuInv, NextInput
  <2>3. CASE UNCHANGED vars
    BY <2>3 DEF MenuInv, vars
  <2>4. QED
    BY <2>1, <2>2, <2>3 DEF Next
<1>3. QED
  BY <1>1, <1>2, InputsAreSequences, PTL DEF Spec

LEMMA OptionsOfInput ==
  ASSUME InputInv, MenuInv
  PROVE  OptionsMeanWhatTheyLastSay
<1> SUFFICES ASSUME kind = "options",
                    \A k \in Given({"B"}) : FitsInt(SizeAsked(args[k].value))
             PROVE  LET o == CommandLine(args)
                    IN  CASE Stopping # {} -> o.exit = StatusOf(args[Min(Stopping)])
                          [] Stopping = {} /\ Given({"i", "r"}) = {} -> o.exit = 1
                          [] OTHER -> o.exit = Running /\ AsDocumented(o)
  BY DEF OptionsMeanWhatTheyLastSay
<1>1. /\ Len(input) \in Nat /\ DOMAIN input = 1 .. Len(input)
      /\ \A k \in DOMAIN input : input[k] \in DOMAIN Menu
  BY DEF InputInv, MenuInv
<1>2. ArgumentsInv
  BY <1>1 DEF ArgumentsInv
<1>3. QED
  BY <1>2, CommandLineOfInput

(* main and its getopt loop: an option means what it was last given,        *)
(* wherever it stands, -t and -R t38 add up, and the first wrong one, or    *)
(* one that asks for help, decides the exit status.                         *)
THEOREM OptionsMeanWhatTheySay == Spec => []OptionsMeanWhatTheyLastSay
BY InputsAreSequences, ArgumentsAreOfTheMenu, OptionsOfInput, PTL
=============================================================================
