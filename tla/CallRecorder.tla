---------------------------- MODULE CallRecorder ----------------------------
(****************************************************************************)
(* What pcapsipdump promises of its calls, without table, packets or time:  *)
(* a call becomes known with its first SIP packet; that packet alone        *)
(* decides whether the call is recorded, -l counting the calls that qualify *)
(* round by round; a recorded call has a file of its own until it ends; a   *)
(* call that has ended may become known again, as a new call.               *)
(****************************************************************************)
EXTENDS Integers

CONSTANTS Keys, Handles, SkipN

VARIABLES
  known,        \* the calls in progress
  recordings,   \* the files they are recorded in: [call, file]
  turn          \* qualifying calls to let pass before one is recorded

vars == <<known, recordings, turn>>

Init == known = {} /\ recordings = {} /\ turn = 0

InUse == {r.file : r \in recordings}

Begin(k) == k \notin known /\ known' = known \cup {k}

(* A first packet that does not qualify the call.                           *)
Disregard(k) == Begin(k) /\ UNCHANGED <<recordings, turn>>

Skip(k) ==
  /\ Begin(k)
  /\ turn > 0
  /\ turn' = turn - 1
  /\ UNCHANGED recordings

Record(k, h) ==
  /\ Begin(k)
  /\ turn = 0
  /\ turn' = SkipN - 1
  /\ h \notin InUse
  /\ recordings' = recordings \cup {[call |-> k, file |-> h]}

(* The file cannot be opened: the turn is used up all the same.             *)
RecordFails(k) ==
  /\ Begin(k)
  /\ turn = 0
  /\ turn' = SkipN - 1
  /\ UNCHANGED recordings

End(K) ==
  /\ known' = known \ K
  /\ recordings' = {r \in recordings : r.call \notin K}
  /\ UNCHANGED turn

Next ==
  \/ \E k \in Keys : Disregard(k) \/ Skip(k) \/ RecordFails(k)
  \/ \E k \in Keys, h \in Handles : Record(k, h)
  \/ \E K \in SUBSET known : End(K)

Spec == Init /\ [][Next]_vars
=============================================================================
