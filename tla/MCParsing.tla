------------------------------ MODULE MCParsing ------------------------------
(****************************************************************************)
(* Small inputs for the algorithms of Parsing: every text of up to six      *)
(* symbols, method of up to five, address of up to six, SDP of up to four   *)
(* lines, Ethernet header of seven words and command line of up to four     *)
(* options.                                                                 *)
(****************************************************************************)
EXTENDS Parsing

TextSymbols   == {"tag", "sp", "eol", "x"}
MethodSymbols == {"upper", "sp", "other"}
ValueSymbols  == {"sip:", "tel:", "@", ">", "x"}

Line(tag, n) == [tag |-> tag, n |-> n]
SdpLines ==
  {Line("c=", "host"), Line("m=audio", 10000), Line("m=image", 10000), Line("m=audio", 65536),
   Line("a=rtpmap", NotAnEvent), Line("a=rtpmap", 101), Line("a=rtpmap", 333), Line("a=rtpmap", 1234)}

EtherTypes == {IPv4, IPv6, PPPoE, "xxxx"} \cup VlanTags
Word(i) ==
  CASE i \in {1, 3} -> EtherTypes
    [] i \in {2, 4} -> {"1100", "xxxx"}
    [] i = 5 -> {IPv4, IPv6, "0021", "0057", "8100", "xxxx"}
    [] i = 7 -> {"0021", "0057", IPv6, "xxxx"}
    [] OTHER -> {"xxxx"}

Arg(opt, value) == [opt |-> opt, value |-> value]
Trigger(on, action) == Arg("t", [on |-> on, action |-> action, param |-> "p"])
AFewOptions ==
  <<Arg("i", "eth0"), Arg("r", "file"), Arg("f", TRUE), Arg("h", TRUE), Arg("?", TRUE),
   Arg("l", 3), Arg("l", 0), Arg("B", [n |-> 512, unit |-> "mib"]), Arg("B", [n |-> 2, unit |-> "tib"]),
   Arg("B", [n |-> -512, unit |-> "mib"]),
    Arg("B", [n |-> 5, unit |-> "gib"]), Arg("B", [n |-> 1, unit |-> "gib"]),
   Arg("R", "t38"), Arg("R", "rtp"), Arg("R", "all"), Arg("R", "video"),
   Trigger("open", "sh"), Trigger("close", "mv"), Trigger("close", "cp"), Trigger("end", "mv")>>

Symbols(kd, i) ==
  CASE kd = "text" -> TextSymbols
    [] kd = "method" -> MethodSymbols
    [] kd = "value" -> ValueSymbols
    [] kd = "sdp" -> SdpLines
    [] kd = "frame" -> Word(i)
    [] kd = "options" -> DOMAIN AFewOptions

Length(kd) ==
  CASE kd = "text" -> 6
    [] kd = "method" -> 5
    [] kd = "value" -> 6
    [] kd = "sdp" -> 4
    [] kd = "frame" -> 7
    [] kd = "options" -> 4
=============================================================================
