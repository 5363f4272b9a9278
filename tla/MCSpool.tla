------------------------------ MODULE MCSpool ------------------------------
(****************************************************************************)
(* Small instances of Spool: two calls, whose callers agree once they are   *)
(* sanitised, below a directory for each day and caller.                    *)
(****************************************************************************)
EXTENDS Spool

CONSTANTS p1, p2, slash, colon, x, y

OneRecorder == {p1}
TwoRecorders == {p1, p2}

(* "a/b" and "a:b" both become "a_b".                                       *)
AsciiSan == [n \in {slash, colon, x, y} |-> IF n = colon THEN slash ELSE n]

Call(from, id) == [from |-> from, id |-> id, long |-> FALSE]
TwoCalls == {Call(slash, x), Call(colon, y)}
OneCall == {Call(slash, x)}
LongCall == {[Call(slash, x) EXCEPT !.long = TRUE]}
WithLongCall == {Call(slash, x), [Call(colon, y) EXCEPT !.long = TRUE]}

ByDayAndCaller == <<<<"day">>, <<"from">>, <<"id">>>>
ByCaller == <<<<"day">>, <<"from">>>>
ById == <<<<"id">>>>
=============================================================================
