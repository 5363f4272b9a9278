------------------------------- MODULE Parsing -------------------------------
(****************************************************************************)
(* The pure algorithms of SipText, LinkLayer and Options, each against an   *)
(* independent statement of what it is for.  The inputs of each kind are    *)
(* built up one symbol at a time, so that every input up to a bound is seen.*)
(****************************************************************************)
EXTENDS SipText, LinkLayer, Options

CONSTANTS
  Kinds,
  Alphabet(_, _),  \* the symbols an input of a kind may have at a position
  Bound(_),        \* the length of the longest inputs of a kind
  Menu,            \* the arguments, by the number that stands for each
  Tag,             \* the tag gettag looks for
  MethodSize       \* sizeof(sip_method)

(* What getopt returns: a letter it knows or, for any other, "?".           *)
Letters == {"i", "r", "d", "v", "m", "n", "R", "l", "B", "T", "t", "P",
            "f", "p", "U", "h", "V", "?"}

ASSUME ParsingAssumption ==
  /\ Kinds \subseteq {"text", "method", "value", "sdp", "frame", "options"}
  /\ Tag \notin {"sp", "eol"}
  /\ MethodSize \in Nat \ {0}
  /\ \A k \in Kinds : Bound(k) \in Nat
  /\ "frame" \in Kinds => Bound("frame") >= 7  \* the words that are looked at
  /\ \A k \in DOMAIN Menu :
       /\ Menu[k].opt \in Letters
       /\ Menu[k].opt \in {"i", "r"} => Menu[k].value # Unset
       /\ Menu[k].opt = "B" => Menu[k].value.n \in Int
  /\ "options" \in Kinds =>
       \A i \in 1 .. Bound("options") : Alphabet("options", i) \subseteq DOMAIN Menu

VARIABLES kind, input

vars == <<kind, input>>

Init == kind \in Kinds /\ input = << >>

Grow ==
  /\ Len(input) < Bound(kind)
  /\ \E s \in Alphabet(kind, Len(input) + 1) : input' = Append(input, s)
  /\ UNCHANGED kind

NextInput ==
  /\ Len(input) = Bound(kind)
  /\ input' = << >>
  /\ UNCHANGED kind

Next == Grow \/ NextInput

Spec == Init /\ [][Next]_vars

-----------------------------------------------------------------------------
(* SIP and SDP.                                                             *)
LineStarts == {1} \cup {i + 1 : i \in Positions(input, "eol")}
EndOf(start) == {i \in Positions(input, "eol") : i >= start}

(* gettag "finds a tag at the start of a line - the buffer start or         *)
(* immediately after CR/LF - skips leading spaces" (ARCHITECTURE.md 75-77): *)
(* it returns the value of the first terminated line that begins with the   *)
(* tag, wherever else the tag occurs.                                       *)
GetTagReadsTheHeader ==
  kind = "text" =>
    LET headers == {i \in LineStarts \cap Positions(input, Tag) : EndOf(i) # {}}
        from == Min(headers)
        to == Min(EndOf(from))
        value == Min({i \in from + 1 .. to : i = to \/ input[i] # "sp"})
    IN  GetTag(input, Tag) = IF headers = {} THEN NoTag
                             ELSE [at |-> value, len |-> to - value]

(* get_method accepts exactly the payloads that begin with upper-case       *)
(* letters up to a space, or with as many of them as its buffer holds, and  *)
(* returns those letters ("requires it to be all upper-case, which cheaply  *)
(* rejects RTP", ARCHITECTURE.md 73-74).                                    *)
MethodIsTheLeadingToken ==
  kind = "method" /\ Len(input) >= MethodSize =>
    LET token == Min({i \in DOMAIN input : input[i] # "upper"} \cup {MethodSize}) - 1
        method == SubSeq(input, 1, token)
    IN  GetMethod(input, MethodSize) =
          IF token = MethodSize - 1 \/ input[token + 1] = "sp"
          THEN [ok |-> TRUE, method |-> method] ELSE NoMethod

(* The caller and callee that name the file and that -n is matched against  *)
(* are the user part of the address, whichever scheme it has and whether or *)
(* not it has a host.                                                       *)
Schemes == Positions(input, "sip:") \cup Positions(input, "tel:")

AddressOnly ==
  /\ Cardinality(Schemes) = 1
  /\ \A i \in Positions(input, "@") \cup Positions(input, ">") : Min(Schemes) < i
  /\ Positions(input, "@") # {} /\ Positions(input, ">") # {} =>
       Min(Positions(input, "@")) < Min(Positions(input, ">"))

UserOfAddress ==
  LET from == Min(Schemes)
      ends == Positions(input, "@") \cup Positions(input, ">")
      user == SubSeq(input, from + 1, Min(ends) - 1)
  IN  IF ends = {} \/ user = << >> THEN Empty ELSE user

PeernameIsTheUser == kind = "value" /\ AddressOnly => Peername(input) = UserOfAddress

(* The payload type that -R rtpevent selects is one that the SDP announced  *)
(* as telephone-event; none that does not fit in a byte is taken for        *)
(* another one.                                                             *)
Announced == {input[i].n : i \in Lines(input, "a=rtpmap")} \ {NotAnEvent}

EventIsAnnounced ==
  kind = "sdp" => RtpmapEvent(input) \in Announced \cup {0}

(* "The SDP body is parsed [...] for a=rtpmap:<pt> telephone-event/..."     *)
(* (ARCHITECTURE.md 81-83).                                                 *)
TelephoneEventIsFound ==
  kind = "sdp" /\ Announced \cap 1 .. 255 # {} => RtpmapEvent(input) # 0

-----------------------------------------------------------------------------
(* Ethernet frames.                                                         *)
StackEnd ==
  LET Walk[i \in 1 .. Len(input)] ==
        CASE input[i] \in {IPv4, IPv6} -> i + 1
          [] input[i] \in VlanTags -> IF i + 2 <= Len(input) THEN Walk[i + 2] ELSE NoIp
          [] input[i] = PPPoE -> IF i + 4 <= Len(input) THEN PppoeIp(input, i) ELSE NoIp
          [] OTHER -> NoIp
  IN  Walk[1]

(* The stacks listed above ethernet_get_header_ip.                          *)
Listed ==
  \/ input[1] \in {IPv4, IPv6, PPPoE}
  \/ input[1] = "8100" /\ input[3] \in {IPv4, IPv6, PPPoE}
  \/ input[1] \in VlanTags /\ input[3] = "8100" /\ input[5] = IPv4

(* A frame is either dropped or its IP header is found behind the last of   *)
(* its tags, and none of the stacks that ethernet_get_header_ip lists is    *)
(* dropped (pcapsipdump_lib.cpp 141-153).                                   *)
HeaderIsBehindTheStack ==
  kind = "frame" /\ Len(input) = Bound(kind) =>
    /\ EthIp(input) \in {StackEnd, NoIp}
    /\ Listed => EthIp(input) = StackEnd

-----------------------------------------------------------------------------
(* The command line.                                                        *)
args == [k \in DOMAIN input |-> Menu[input[k]]]

Given(opts) == {k \in DOMAIN args : args[k].opt \in opts}

SizeAsked(s) ==
  CASE s.unit = "mib" -> s.n
    [] s.unit = "gib" -> 1024 * s.n
    [] OTHER -> 0

(* In an int of bytes, that is: 2 GiB and a sign.                           *)
FitsInt(mib) == mib \in -2048 .. 2047

Stops(a) ==
  \/ a.opt \in {"h", "V", "?"}
  \/ a.opt = "l" /\ a.value < 1
  \/ a.opt = "B" /\ SizeAsked(a.value) < 1
  \/ a.opt = "R" /\ a.value \notin {"none", "rtpevent", "t38", "all", "rtp+rtcp", "rtp"}
  \/ a.opt = "t" /\ a.value.on \notin {"open", "close"}

StatusOf(a) ==
  CASE a.opt \in {"h", "V"} -> 0
    [] a.opt = "t" -> 2
    [] OTHER -> 1

Stopping == {k \in DOMAIN args : Stops(args[k])}

LastGiven(opt) ==
  IF Given({opt}) = {} THEN Defaults[opt] ELSE args[Max(Given({opt}))].value

BufferSize == IF Given({"B"}) = {} THEN 0 ELSE SizeAsked(LastGiven("B"))

RtpFilters == {k \in Given({"R"}) : args[k].value # "t38"}

LastRtpFilter ==
  LET last == args[Max(RtpFilters)].value
  IN  IF RtpFilters = {} \/ last = "all" THEN "rtp+rtcp" ELSE last

TriggersOn(on) ==
  {k \in Given({"t"}) : args[k].value.on = on /\ args[k].value.action \in {"mv", "sh", "exec"}}

InOrder(triggers, places) ==
  /\ DOMAIN triggers = 1 .. Cardinality(places)
  /\ \A k \in places : triggers[Cardinality(places \cap 1 .. k)] = args[k].value

AsDocumented(o) ==
  /\ \A opt \in {"i", "r", "d", "P", "m", "n", "v", "T", "l"} : o[opt] = LastGiven(opt)
  /\ o.B = BufferSize
  /\ \A opt \in {"f", "p", "U"} : o[opt] = (Given({opt}) # {})
  /\ o.t38only = \E k \in Given({"R"}) : args[k].value = "t38"
  /\ o.rtpsave = LastRtpFilter
  /\ \A on \in {"open", "close"} : InOrder(o[on], TriggersOn(on))

(* The first option that is wrong, or asks for help, decides the exit       *)
(* status, 0 only for -h and -V; without one, and with an interface or a    *)
(* file, each option means what it was last given, whatever the order of    *)
(* different options; -R t38 goes with any other -R, and every -t counts,   *)
(* in the order given.  Sizes are those whose MiB an int can hold.          *)
OptionsMeanWhatTheyLastSay ==
  kind = "options" /\ (\A k \in Given({"B"}) : FitsInt(SizeAsked(args[k].value))) =>
    LET o == CommandLine(args)
    IN  CASE Stopping # {} -> o.exit = StatusOf(args[Min(Stopping)])
          [] Stopping = {} /\ Given({"i", "r"}) = {} -> o.exit = 1
          [] OTHER -> o.exit = Running /\ AsDocumented(o)
=============================================================================
