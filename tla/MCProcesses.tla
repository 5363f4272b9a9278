----------------------------- MODULE MCProcesses -----------------------------
(****************************************************************************)
(* Small instances of Processes: two calls, and at most four processes at   *)
(* a time.                                                                  *)
(****************************************************************************)
EXTENDS Processes

CONSTANTS l, x, y, z, f1, f2

ThreePids == {l, x, y}
FourPids  == {l, x, y, z}
TwoFiles  == {f1, f2}
OneFile   == {f1}

Option(when, action, runs) == [when |-> when, action |-> action, runs |-> runs]

(* -t open:sh:... -t close:mv:... -t close:exec:..., and a misspelt action. *)
Archive ==
  <<Option("open", "sh", TRUE), Option("close", "unrecognized", TRUE),
    Option("close", "mv", TRUE), Option("close", "exec", TRUE)>>

OnClose == <<Option("close", "mv", TRUE), Option("close", "exec", TRUE)>>

(* A program that is not there, then one that is.                           *)
Missing == <<Option("close", "exec", FALSE), Option("close", "sh", TRUE)>>
=============================================================================
