------------------------------- MODULE Options -------------------------------
(****************************************************************************)
(* The command line (src/pcapsipdump.cpp, main, the getopt loop and the     *)
(* test after it; parse_size_string; Trigger::add in src/trigger.cpp).      *)
(*                                                                          *)
(* An argument is [opt, value].  Numbers are what atoi or sscanf reads; a   *)
(* size is [n, unit], of the two units of whole MiB; a trigger is           *)
(* [on, action, param], cut at the third colon.  -T is taken to fit in an   *)
(* int, and -m, -n, -d, -P to be accepted whatever they are.                *)
(****************************************************************************)
EXTENDS Integers, SequencesExt

Running == -1  \* no exit status yet
Unset == "unset"

Defaults ==
  [exit |-> Running, i |-> Unset, r |-> Unset, d |-> "default", P |-> "default",
   m |-> "default", n |-> Unset, f |-> FALSE, p |-> FALSE, U |-> FALSE,
   v |-> 0, l |-> 1, B |-> 0, T |-> 2147483647,
   rtpsave |-> "rtp+rtcp", t38only |-> FALSE, open |-> << >>, close |-> << >>]

(* parse_size_string in MiB, 0 when the unit is not known.                  *)
Multipliers == [mib |-> 1, gib |-> 1024]

ParseSizeString(s) ==
  IF s.unit \in DOMAIN Multipliers THEN s.n * Multipliers[s.unit] ELSE 0

(* opt_pcap_buffer_size is an int, which wraps at 4096 MiB.                 *)
AsInt(mib) == ((mib + 2048) % 4096) - 2048

RtpFilterAlternatives(o, value) ==  \* mutant: t38 one more opt_rtpsave
  CASE value = "t38" -> [o EXCEPT !.t38only = TRUE, !.rtpsave = "none"]
    [] value = "all" -> [o EXCEPT !.rtpsave = "rtp+rtcp"]
    [] value \in {"none", "rtpevent", "rtp+rtcp", "rtp"} -> [o EXCEPT !.rtpsave = value]
    [] OTHER -> [o EXCEPT !.exit = 1]

RtpFilter(o, value) ==
  CASE value = "t38" -> [o EXCEPT !.t38only = TRUE]
    [] value = "all" -> [o EXCEPT !.rtpsave = "rtp+rtcp"]
    [] value \in {"none", "rtpevent", "rtp+rtcp", "rtp"} -> [o EXCEPT !.rtpsave = value]
    [] OTHER -> [o EXCEPT !.exit = 1]

(* Of an unknown action only a message is printed.                          *)
AddTrigger(o, t) ==
  CASE t.on \notin {"open", "close"} -> [o EXCEPT !.exit = 2]
    [] t.on \in {"open", "close"} /\ t.action \in {"mv", "sh", "exec"} ->
         [o EXCEPT ![t.on] = Append(@, t)]
    [] OTHER -> o

AtLeastOne(o, opt, n) == IF n < 1 THEN [o EXCEPT !.exit = 1] ELSE [o EXCEPT ![opt] = n]

ReadOption(o, arg) ==
  IF o.exit # Running THEN o ELSE
  CASE arg.opt \in {"i", "r", "d", "P", "m", "n", "v", "T"} -> [o EXCEPT ![arg.opt] = arg.value]
    [] arg.opt \in {"f", "p", "U"} -> [o EXCEPT ![arg.opt] = TRUE]
    [] arg.opt = "l" -> AtLeastOne(o, "l", arg.value)
    [] arg.opt = "B" -> AtLeastOne(o, "B", AsInt(ParseSizeString(arg.value)))
    [] arg.opt = "R" -> RtpFilter(o, arg.value)
    [] arg.opt = "t" -> AddTrigger(o, arg.value)
    [] arg.opt \in {"h", "V"} -> [o EXCEPT !.exit = 0]
    [] OTHER -> [o EXCEPT !.exit = 1]

CommandLine(args) ==
  LET o == FoldLeft(ReadOption, Defaults, args)
  IN  IF o.exit = Running /\ o.i = Unset /\ o.r = Unset THEN [o EXCEPT !.exit = 1] ELSE o
=============================================================================
