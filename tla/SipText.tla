------------------------------- MODULE SipText -------------------------------
(****************************************************************************)
(* What the packet loop reads out of a SIP packet: gettag and               *)
(* sdp_get_rtpmap_event (src/pcapsipdump_strlib.cpp), get_method,           *)
(* get_sip_peername and get_ip_port_from_sdp (src/pcapsipdump.cpp), with    *)
(* the limits of their buffers and integer types.                           *)
(*                                                                          *)
(* A text is a sequence of symbols: the tag that is looked for, "sp" a      *)
(* space, "eol" a CR or LF, and anything else.  A header's value is a       *)
(* sequence of "sip:", "tel:", "@", ">" and anything else.  An SDP body is  *)
(* a sequence of lines [tag, n].                                            *)
(****************************************************************************)
EXTENDS Integers, Sequences, FiniteSetsExt

-----------------------------------------------------------------------------
(* gettag.  An occurrence counts at the start of a line; one whose line is  *)
(* not terminated is passed over, with the spaces behind it.                *)
NoTag == [at |-> 0, len |-> 0]

AtLineStartSkipsFirst(text, i) ==  \* mutant: the search starts at ptr + 1
  i > 1 /\ text[i - 1] = "eol"

AtLineStart(text, i) == i = 1 \/ text[i - 1] = "eol"

AfterSpaces(text, i) ==
  Min({j \in i .. Len(text) : text[j] # "sp"} \cup {Len(text) + 1})

GetTag(text, tag) ==
  LET last == Len(text)
      Scan[r \in 1 .. last + 1] ==
        LET hits == {i \in r .. last : text[i] = tag}
            hit == Min(hits)
            value == AfterSpaces(text, hit + 1)
            ends == {i \in value .. last : text[i] = "eol"}
        IN  CASE hits = {} -> NoTag
              [] hits # {} /\ ~AtLineStart(text, hit) -> Scan[hit + 1]
              [] hits # {} /\ AtLineStart(text, hit) /\ ends # {} ->
                   [at |-> value, len |-> Min(ends) - value]
              [] OTHER -> Scan[value]
  IN  Scan[1]

-----------------------------------------------------------------------------
(* get_method: the first size - 1 bytes and a space after them; strchr      *)
(* stops at a NUL.                                                          *)
NoMethod == [ok |-> FALSE, method |-> << >>]

GetMethodAny(data, size) ==  \* mutant: isupper not asked
  LET copy == Append(SubSeq(data, 1, size - 1), "sp")
      space == Min({i \in DOMAIN copy : copy[i] = "sp"})
  IN  [ok |-> TRUE, method |-> SubSeq(copy, 1, space - 1)]

GetMethod(data, size) ==
  LET copy == Append(SubSeq(data, 1, size - 1), "sp")
      space == Min({i \in DOMAIN copy : copy[i] = "sp"})
  IN  IF \A i \in 1 .. space - 1 : copy[i] = "upper"
      THEN [ok |-> TRUE, method |-> SubSeq(copy, 1, space - 1)]
      ELSE NoMethod

-----------------------------------------------------------------------------
(* get_sip_peername: from the first "sip:" of the value, or the first       *)
(* "tel:" if it has none, to the first "@" of the value, or the first ">"   *)
(* if it has none.                                                          *)
Empty == <<"empty">>

Positions(value, symbol) == {i \in DOMAIN value : value[i] = symbol}

FirstOr(value, this, other) ==
  IF Positions(value, this) # {} THEN Positions(value, this) ELSE Positions(value, other)

PeerEndsAngleFirst(value) ==  \* mutant: ">" looked for before "@"
  FirstOr(value, ">", "@")

PeerEnds(value) == FirstOr(value, "@", ">")

Peername(value) ==
  LET schemes == FirstOr(value, "sip:", "tel:")
      ends == PeerEnds(value)
      from == Min(schemes) + 1
      to == Min(ends)
  IN  IF schemes = {} \/ ends = {} \/ to <= from THEN Empty ELSE SubSeq(value, from, to - 1)

-----------------------------------------------------------------------------
(* SDP: the lines "c=IN IP4 ", "m=audio ", "m=image " and "a=rtpmap:", of   *)
(* which gettag finds the first each.  n is the address, the port as atoi   *)
(* reads it, or the payload type of a telephone-event, NotAnEvent else.     *)
Broadcast == "255.255.255.255"  \* INADDR_NONE, not -1 in a 64-bit long
NotAnEvent == -1

Lines(sdp, tag) == {i \in DOMAIN sdp : sdp[i].tag = tag}

SdpAddress(sdp) ==
  IF Lines(sdp, "c=") = {} THEN Broadcast ELSE sdp[Min(Lines(sdp, "c="))].n

SdpPortOfImage(sdp) ==  \* mutant: "m=image " looked for first
  LET media == IF Lines(sdp, "m=image") # {} THEN Lines(sdp, "m=image")
                                             ELSE Lines(sdp, "m=audio")
  IN  IF media = {} THEN 0 ELSE sdp[Min(media)].n % 65536

SdpPort(sdp) ==
  LET media == IF Lines(sdp, "m=audio") # {} THEN Lines(sdp, "m=audio")
                                             ELSE Lines(sdp, "m=image")
  IN  IF media = {} THEN 0 ELSE sdp[Min(media)].n % 65536

(* The payload type has one to three digits and must fit in a uint8_t.      *)
RtpmapEventWide(sdp) ==  \* mutant: l <= 255 not asked
  LET maps == Lines(sdp, "a=rtpmap")
  IN  IF maps = {} \/ sdp[Min(maps)].n \notin 0 .. 999
      THEN 0 ELSE sdp[Min(maps)].n % 256

RtpmapEvent(sdp) ==
  LET maps == Lines(sdp, "a=rtpmap")
  IN  IF maps = {} \/ sdp[Min(maps)].n \notin 0 .. 255 THEN 0 ELSE sdp[Min(maps)].n
=============================================================================
