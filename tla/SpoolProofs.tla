----------------------------- MODULE SpoolProofs -----------------------------
(****************************************************************************)
(* The spool directory: proofs, for any number of recorders, calls and      *)
(* days, any directory and file name template and any sanitising, that no   *)
(* interleaving of mkdir, fopen, unlink and rmdir breaks the tree, that a   *)
(* file fails to open only after another process has interfered, and that   *)
(* no recording is lost before its time.                                    *)
(****************************************************************************)
EXTENDS Spool, SequenceTheorems, TLAPS

-----------------------------------------------------------------------------
(* Paths.                                                                   *)
Names == {Field(c, d, f) : c \in Calls, d \in 1 .. Days, f \in {"day", "from", "id"}}
Components == Seq(Names)
Paths == Seq(Components)

LEMMA TemplateFacts ==
  /\ Template \in Seq(Seq({"day", "from", "id"})) /\ Len(Template) \in Nat \ {0}
  /\ DOMAIN Template = 1 .. Len(Template)
  /\ \A k \in DOMAIN Template : Template[k] \in Seq({"day", "from", "id"})
BY SpoolAssumption

LEMMA ExpandFacts ==
  ASSUME NEW c \in Calls, NEW d \in 1 .. Days, NEW path, path = Expand(c, d)
  PROVE  /\ path \in Paths /\ Len(path) = Len(Template) /\ path # Root
         /\ \A k \in 1 .. Len(Template) : DOMAIN path[k] = DOMAIN Template[k]
<1> DEFINE component(k) == [n \in DOMAIN Template[k] |-> Field(c, d, Template[k][n])]
<1>1. ASSUME NEW k \in 1 .. Len(Template)
      PROVE  component(k) \in Components /\ DOMAIN component(k) = DOMAIN Template[k]
  <2>1. /\ Template[k] \in Seq({"day", "from", "id"})
        /\ DOMAIN Template[k] = 1 .. Len(Template[k]) /\ Len(Template[k]) \in Nat
        /\ \A n \in 1 .. Len(Template[k]) : Template[k][n] \in {"day", "from", "id"}
    BY TemplateFacts
  <2>2. component(k) = [n \in 1 .. Len(Template[k]) |-> Field(c, d, Template[k][n])]
    BY <2>1
  <2>3. \A n \in 1 .. Len(Template[k]) : Field(c, d, Template[k][n]) \in Names
    BY <2>1 DEF Names
  <2>4. component(k) \in [1 .. Len(Template[k]) -> Names]
    BY <2>2, <2>3, Zenon
  <2>5. component(k) \in Components
    BY <2>1, <2>4, SeqDef DEF Components
  <2>6. QED
    BY <2>5
<1>2. path = [k \in 1 .. Len(Template) |-> component(k)]
  BY TemplateFacts DEF Expand
<1> HIDE DEF component
<1>3. path \in [1 .. Len(Template) -> Components]
  BY <1>1, <1>2, Zenon
<1>4. path \in Paths
  BY <1>3, TemplateFacts, SeqDef DEF Paths
<1>5. Len(path) = Len(Template)
  BY <1>3, <1>4, TemplateFacts, LenProperties DEF Paths
<1>6. path # Root
  BY <1>5, TemplateFacts DEF Root
<1>7. \A k \in 1 .. Len(Template) : path[k] = component(k)
  BY <1>2
<1>8. QED
  BY <1>1, <1>4, <1>5, <1>6, <1>7

LEMMA PrefixFacts ==
  ASSUME NEW path \in Paths, NEW l \in 0 .. Len(path)
  PROVE  /\ SubSeq(path, 1, l) \in Paths /\ Len(SubSeq(path, 1, l)) = l
         /\ l = 0 => SubSeq(path, 1, l) = Root
         /\ l # 0 => /\ SubSeq(path, 1, l) # Root
                     /\ Parent(SubSeq(path, 1, l)) = SubSeq(path, 1, l - 1)
         /\ Len(path) # 0 => Parent(path) = SubSeq(path, 1, Len(path) - 1)
<1> DEFINE s == SubSeq(path, 1, l)
<1>1. Len(path) \in Nat /\ \A i \in 1 .. Len(path) : path[i] \in Components
  BY LenProperties DEF Paths
<1>2. s \in Paths /\ Len(s) = l /\ \A i \in 1 .. l : s[i] = path[i]
  <2>1. \A i \in 1 .. l : path[i] \in Components
    BY <1>1
  <2>2. QED
    BY <1>1, <2>1, SubSeqProperties DEF Paths
<1>3. l = 0 => s = Root
  BY SubSeqEmpty DEF Root
<1>4. l # 0 => s # Root
  BY <1>2 DEF Root
<1>5. ASSUME l # 0
      PROVE  Parent(s) = SubSeq(path, 1, l - 1)
  <2> DEFINE t == SubSeq(s, 1, l - 1)
             u == SubSeq(path, 1, l - 1)
  <2>1. \A i \in 1 .. l - 1 : s[i] \in Components /\ path[i] \in Components
    BY <1>1, <1>2
  <2>2. t \in Seq(Components) /\ Len(t) = l - 1 /\ \A i \in 1 .. l - 1 : t[i] = s[i]
    BY <1>1, <1>5, <2>1, SubSeqProperties
  <2>3. u \in Seq(Components) /\ Len(u) = l - 1 /\ \A i \in 1 .. l - 1 : u[i] = path[i]
    BY <1>1, <1>5, <2>1, SubSeqProperties
  <2>4. t = u
    <3>1. \A i \in 1 .. l - 1 : t[i] = u[i]
      BY <1>2, <2>2, <2>3
    <3> HIDE DEF t, u
    <3>2. QED
      BY <2>2, <2>3, <3>1, SeqEqual
  <2>5. QED
    BY <1>2, <2>4 DEF Parent
<1>6. QED
  BY <1>2, <1>3, <1>4, <1>5 DEF Parent

(* The name of an erased file is that of another call's only if their paths *)
(* are one.                                                                 *)
LEMMA TruncatedName ==
  ASSUME NEW c \in Calls, NEW d \in 1 .. Days, NEW p, p = Expand(c, d),
         NEW e \in Calls, NEW f \in 1 .. Days, NEW q, q = Expand(e, f), FnPcap(c, p) = q
  PROVE  p = q
<1> DEFINE N == Len(Template)
<1>1. /\ p \in Paths /\ Len(p) = N /\ DOMAIN p[N] = DOMAIN Template[N] /\ N \in 1 .. Len(p)
      /\ q \in Paths /\ Len(q) = N /\ DOMAIN q[N] = DOMAIN Template[N]
  BY ExpandFacts, TemplateFacts
<1>2. CASE ~c.long
  BY <1>2 DEF FnPcap
<1>3. CASE c.long
  <2>1. q = [p EXCEPT ![N] = << >>]
    BY <1>1, <1>3 DEF FnPcap
  <2>2. << >> \in Components /\ p \in Seq(Components)
    BY <1>1 DEF Components, Paths
  <2> HIDE DEF N
  <2>3. \A j \in 1 .. Len(p) : q[j] = IF j = N THEN << >> ELSE p[j]
    BY ONLY <1>1, <2>1, <2>2, ExceptSeq
  <2>4. p[N] = << >>
    <3>1. q[N] = << >>
      BY <1>1, <2>3
    <3>2. DOMAIN p[N] = {}
      BY <1>1, <3>1
    <3>3. p[N] \in Seq(Names)
      BY <1>1, LenProperties DEF Paths, Components
    <3>4. Len(p[N]) = 0
      <4>1. Len(p[N]) \in Nat /\ DOMAIN p[N] = 1 .. Len(p[N])
        BY <3>3, LenProperties
      <4>2. 1 \notin 1 .. Len(p[N])
        BY <3>2, <4>1
      <4>3. QED
        BY <4>1, <4>2
    <3>5. QED
      BY <3>3, <3>4, EmptySeq
  <2>5. \A j \in 1 .. Len(p) : q[j] = p[j]
    BY <2>3, <2>4
  <2>6. QED
    BY <1>1, <2>5, SeqEqual DEF Paths
<1>4. QED
  BY <1>2, <1>3

-----------------------------------------------------------------------------
(* Types.                                                                   *)
States == {"new", "opening", "open", "failed", "kept", "erased", "expired"}
Fates == [is : States, path : Paths, by : Recorders \cup {NULL}, disturbed : BOOLEAN]
Tasks == [pc : {"loop", "stat", "mkdir", "open"}, call : Calls \cup {NULL}, path : Paths,
          level : Nat, disturbed : BOOLEAN]
Entries == [call : Calls, age : Nat]

SpoolTypes ==
  /\ day \in 1 .. Days
  /\ dirs \subseteq Paths
  /\ DOMAIN files \subseteq Paths /\ \A x \in DOMAIN files : files[x] \in Entries
  /\ calls \in [Calls -> Fates]
  /\ rec \in [Recorders -> Tasks]
  /\ cleaner \in [pc : {"idle", "files", "unlink", "dirs"}, due : BOOLEAN,
                  todo : SUBSET Paths, doomed : Paths \cup {NULL}]

(* Where a recorder is below its path, and for which call.                  *)
Opener(p) ==
  LET r == rec[p]
  IN  r.pc # "loop" =>
        /\ r.call \in Calls /\ Len(r.path) = Len(Template)
        /\ calls[r.call].is = "opening" /\ calls[r.call].by = p
        /\ calls[r.call].path = r.path
        /\ r.pc = "stat" => r.level \in 0 .. Len(Template) - 1
        /\ r.pc = "mkdir" => r.level \in 1 .. Len(Template) - 1

Openers == \A p \in Recorders : Opener(p)

(* The clean-up takes neither a file nor the spool directory for its own.   *)
RootIsSafe == cleaner.pc = "dirs" => Root \notin cleaner.todo

BaseInv == SpoolTypes /\ TreeIsWhole /\ RootIsSafe /\ Openers

LEMMA RootIsPath == Root \in Paths /\ Len(Root) = 0
BY EmptySeq DEF Root, Paths

LEMMA RecFacts ==
  ASSUME SpoolTypes, NEW p \in Recorders
  PROVE  /\ rec[p] \in Tasks
         /\ rec[p].pc \in {"loop", "stat", "mkdir", "open"} /\ rec[p].path \in Paths
         /\ rec[p].level \in Nat /\ rec[p].disturbed \in BOOLEAN
BY DEF SpoolTypes, Tasks

(* Disturb leaves recorders where they are.                                 *)
Marked(r, s, yes) ==
  /\ r \in Tasks
  /\ r.pc = s.pc /\ r.call = s.call /\ r.path = s.path /\ r.level = s.level
  /\ r.disturbed <=> s.disturbed \/ yes

LEMMA DisturbFacts ==
  ASSUME SpoolTypes, NEW p, NEW D, D = Disturb(p)
  PROVE  /\ D \in [Recorders -> Tasks]
         /\ \A q \in Recorders : Marked(D[q], rec[q], q # p /\ rec[q].pc # "loop")
<1>1. ASSUME NEW q \in Recorders
      PROVE  Marked(D[q], rec[q], q # p /\ rec[q].pc # "loop")
  <2>1. rec[q] \in Tasks
    BY RecFacts
  <2>2. D[q] = IF q # p /\ rec[q].pc # "loop" THEN [rec[q] EXCEPT !.disturbed = TRUE] ELSE rec[q]
    BY DEF Disturb
  <2>3. CASE q # p /\ rec[q].pc # "loop"
    <3>1. D[q] = [rec[q] EXCEPT !.disturbed = TRUE]
      BY <2>2, <2>3
    <3>2. QED
      BY <2>1, <2>3, <3>1 DEF Tasks, Marked
  <2>4. CASE ~(q # p /\ rec[q].pc # "loop")
    BY <2>1, <2>2, <2>4 DEF Marked
  <2>5. QED
    BY <2>3, <2>4
<1>2. D = [q \in Recorders |-> D[q]]
  BY DEF Disturb
<1>3. QED
  BY <1>1, <1>2 DEF Marked

LEMMA InitTypes == Init => SpoolTypes
<1> SUFFICES ASSUME Init PROVE SpoolTypes
  OBVIOUS
<1>1. day \in 1 .. Days /\ dirs \subseteq Paths /\ DOMAIN files = {}
  BY SpoolAssumption, RootIsPath DEF Init
<1>2. calls \in [Calls -> Fates]
  BY RootIsPath DEF Init, Fates, States
<1>3. rec \in [Recorders -> Tasks]
  BY RootIsPath DEF Init, Tasks, AtRest
<1>4. cleaner \in [pc : {"idle", "files", "unlink", "dirs"}, due : BOOLEAN,
                   todo : SUBSET Paths, doomed : Paths \cup {NULL}]
  BY DEF Init
<1>5. QED
  BY <1>1, <1>2, <1>3, <1>4 DEF SpoolTypes

-----------------------------------------------------------------------------
(* What each step of a recorder does to it and to its call.                 *)
RecIs(p, pc, c, path, level, disturbed) ==
  /\ rec' \in [Recorders -> Tasks]
  /\ rec'[p].pc = pc /\ rec'[p].call = c /\ rec'[p].path = path
  /\ rec'[p].level = level /\ rec'[p].disturbed = disturbed

OthersStay(p) == \A q \in Recorders \ {p} : rec'[q] = rec[q]

CallIs(c, is, path, by, disturbed) ==
  /\ calls' \in [Calls -> Fates]
  /\ calls'[c].is = is /\ calls'[c].path = path /\ calls'[c].by = by
  /\ calls'[c].disturbed = disturbed
  /\ \A d \in Calls \ {c} : calls'[d] = calls[d]

(* A record with several fields changed.                                    *)
Retasked(r, pc, l) == [r EXCEPT !.pc = pc, !.level = l]
Starting(pc, c, path, l) == [AtRest EXCEPT !.pc = pc, !.call = c, !.path = path, !.level = l]
Reopening(y, path, p) == [y EXCEPT !.is = "opening", !.path = path, !.by = p]

LEMMA TaskAndLevel ==
  ASSUME NEW r, r \in Tasks, NEW pc, pc = "stat" \/ pc = "mkdir" \/ pc = "open",
         NEW l, l \in Nat, NEW t, t = Retasked(r, pc, l)
  PROVE  /\ t \in Tasks /\ t.pc = pc /\ t.call = r.call /\ t.path = r.path
         /\ t.level = l /\ t.disturbed = r.disturbed
<1>1. t = [pc |-> pc, call |-> r.call, path |-> r.path, level |-> l, disturbed |-> r.disturbed]
  BY DEF Tasks, Retasked
<1>2. r.call \in Calls \cup {NULL} /\ r.path \in Paths /\ r.disturbed \in BOOLEAN
  BY DEF Tasks
<1>3. QED
  BY <1>1, <1>2 DEF Tasks

LEMMA StartingTask ==
  ASSUME NEW pc, pc = "stat" \/ pc = "open", NEW c \in Calls, NEW path \in Paths,
         NEW l \in Nat, NEW t, t = Starting(pc, c, path, l)
  PROVE  /\ t \in Tasks /\ t.pc = pc /\ t.call = c /\ t.path = path
         /\ t.level = l /\ ~t.disturbed
<1>1. AtRest \in Tasks /\ ~AtRest.disturbed
  BY RootIsPath DEF AtRest, Tasks
<1>2. t = [pc |-> pc, call |-> c, path |-> path, level |-> l, disturbed |-> FALSE]
  BY <1>1 DEF Starting, Tasks, AtRest
<1>3. QED
  BY <1>2 DEF Tasks

LEMMA OpeningFate ==
  ASSUME NEW y, y \in Fates, NEW path, path \in Paths, NEW p, p \in Recorders,
         NEW z, z = Reopening(y, path, p)
  PROVE  /\ z \in Fates /\ z.is = "opening" /\ z.path = path /\ z.by = p
         /\ z.disturbed = y.disturbed
<1>1. z = [is |-> "opening", path |-> path, by |-> p, disturbed |-> y.disturbed]
  BY DEF Fates, Reopening
<1>2. y.disturbed \in BOOLEAN
  BY DEF Fates
<1>3. QED
  BY <1>1, <1>2 DEF Fates, States

LEMMA TaskChange ==
  ASSUME SpoolTypes, NEW p \in Recorders, NEW r \in Tasks, rec' = [rec EXCEPT ![p] = r]
  PROVE  /\ rec' \in [Recorders -> Tasks] /\ rec'[p] = r /\ OthersStay(p)
BY DEF SpoolTypes, OthersStay

LEMMA FateChange ==
  ASSUME SpoolTypes, NEW c \in Calls, NEW y \in Fates, calls' = [calls EXCEPT ![c] = y]
  PROVE  CallIs(c, y.is, y.path, y.by, y.disturbed)
BY DEF SpoolTypes, CallIs

LEMMA NewCallEffect ==
  ASSUME SpoolTypes, NEW p \in Recorders, NEW c \in Calls, NewCall(p, c)
  PROVE  \E path \in Paths :
           /\ path = Expand(c, day) /\ Len(path) = Len(Template) /\ path # Root
           /\ rec[p].pc = "loop" /\ calls[c].is = "new"
           /\ RecIs(p, IF Len(path) > 1 THEN "stat" ELSE "open", c, path, Len(path) - 1, FALSE)
           /\ OthersStay(p)
           /\ CallIs(c, "opening", path, p, calls[c].disturbed)
           /\ UNCHANGED <<day, dirs, files, cleaner>>
<1>1. PICK path : path = Expand(c, day)
  OBVIOUS
<1>2. path \in Paths /\ Len(path) = Len(Template) /\ Len(path) - 1 \in Nat /\ path # Root
  BY <1>1, ExpandFacts, TemplateFacts DEF SpoolTypes
<1>3. PICK pc : pc = IF Len(path) > 1 THEN "stat" ELSE "open"
  OBVIOUS
<1>4. PICK r : r = Starting(pc, c, path, Len(path) - 1)
  OBVIOUS
<1>5. PICK y : y = Reopening(calls[c], path, p)
  OBVIOUS
<1>6. calls[c] \in Fates /\ calls' = [calls EXCEPT ![c] = y]
  BY <1>1, <1>5 DEF NewCall, SpoolTypes, Reopening
<1>7. CallIs(c, "opening", path, p, calls[c].disturbed)
  <2>1. /\ y \in Fates /\ y.is = "opening" /\ y.path = path /\ y.by = p
        /\ y.disturbed = calls[c].disturbed
    BY <1>2, <1>5, <1>6, OpeningFate
  <2>2. CallIs(c, y.is, y.path, y.by, y.disturbed)
    BY <1>6, <2>1, FateChange
  <2>3. QED
    BY <2>1, <2>2
<1>8. RecIs(p, pc, c, path, Len(path) - 1, FALSE) /\ OthersStay(p)
  <2>1. /\ r \in Tasks /\ r.pc = pc /\ r.call = c /\ r.path = path
        /\ r.level = Len(path) - 1 /\ r.disturbed = FALSE
    <3>1. (pc = "stat" \/ pc = "open") /\ Len(path) - 1 \in Nat /\ path \in Paths
      BY <1>2, <1>3
    <3>2. QED
      BY <1>4, <3>1, StartingTask
  <2>2. rec' = [rec EXCEPT ![p] = r]
    BY <1>1, <1>3, <1>4 DEF NewCall, Starting
  <2>3. QED
    BY <2>1, <2>2, TaskChange DEF RecIs
<1>9. QED
  BY <1>1, <1>2, <1>3, <1>7, <1>8 DEF NewCall

LEMMA StatEffect ==
  ASSUME SpoolTypes, TreeIsWhole, NEW p \in Recorders, Stat(p)
  PROVE  LET r == rec[p]
         IN  /\ r.pc = "stat" /\ OthersStay(p)
             /\ UNCHANGED <<day, dirs, files, calls, cleaner>>
             /\ \/ /\ Prefix(p) \notin dirs /\ r.level # 0
                   /\ RecIs(p, "stat", r.call, r.path, r.level - 1, r.disturbed)
                \/ /\ Prefix(p) \in dirs /\ AtLastLevel(p)
                   /\ RecIs(p, "open", r.call, r.path, r.level, r.disturbed)
                \/ /\ Prefix(p) \in dirs /\ ~AtLastLevel(p)
                   /\ RecIs(p, "mkdir", r.call, r.path, r.level + 1, r.disturbed)
<1> DEFINE r == rec[p]
<1>1. r \in Tasks /\ r.level \in Nat /\ r.path \in Paths
  BY RecFacts
<1>2. r.level = 0 => Prefix(p) \in dirs
  <2>1. SubSeq(r.path, 1, 0) = Root
    BY SubSeqEmpty DEF Root
  <2>2. QED
    BY <2>1 DEF Prefix, TreeIsWhole
<1>3. r.pc = "stat" /\ UNCHANGED <<day, dirs, files, calls, cleaner>>
  BY DEF Stat
<1> DEFINE t == CASE Prefix(p) \notin dirs -> [r EXCEPT !.level = @ - 1]
                  [] Prefix(p) \in dirs /\ AtLastLevel(p) -> [r EXCEPT !.pc = "open"]
                  [] OTHER -> [r EXCEPT !.pc = "mkdir", !.level = @ + 1]
<1>5. rec' = [rec EXCEPT ![p] = t]
  BY DEF Stat
<1>6. CASE Prefix(p) \notin dirs
  <2>1. t = [r EXCEPT !.level = @ - 1]
    BY <1>6
  <2> HIDE DEF t
  <2>2. t \in Tasks /\ t.pc = "stat" /\ t.call = r.call /\ t.path = r.path
        /\ t.level = r.level - 1 /\ t.disturbed = r.disturbed
    BY <1>1, <1>2, <1>3, <1>6, <2>1 DEF Tasks
  <2>3. QED
    BY <1>2, <1>3, <1>5, <1>6, <2>2, TaskChange DEF RecIs
<1>7. CASE Prefix(p) \in dirs /\ AtLastLevel(p)
  <2>1. t = [r EXCEPT !.pc = "open"]
    BY <1>7
  <2> HIDE DEF t
  <2>2. t \in Tasks /\ t.pc = "open" /\ t.call = r.call /\ t.path = r.path
        /\ t.level = r.level /\ t.disturbed = r.disturbed
    BY <1>1, <2>1 DEF Tasks
  <2>3. QED
    BY <1>3, <1>5, <1>7, <2>2, TaskChange DEF RecIs
<1>8. CASE Prefix(p) \in dirs /\ ~AtLastLevel(p)
  <2>1. t = Retasked(r, "mkdir", r.level + 1)
    BY <1>8 DEF Retasked
  <2> HIDE DEF t
  <2>2. t \in Tasks /\ t.pc = "mkdir" /\ t.call = r.call /\ t.path = r.path
        /\ t.level = r.level + 1 /\ t.disturbed = r.disturbed
    BY <1>1, <2>1, TaskAndLevel
  <2>3. QED
    BY <1>3, <1>5, <1>8, <2>2, TaskChange DEF RecIs
<1>9. QED
  BY <1>6, <1>7, <1>8

LEMMA MkdirEffect ==
  ASSUME SpoolTypes, NEW p \in Recorders, Mkdir(p)
  PROVE  LET r == rec[p]
         IN  /\ r.pc = "mkdir" /\ Prefix(p) \notin dirs /\ Parent(Prefix(p)) \in dirs
             /\ dirs' = dirs \cup {Prefix(p)}
             /\ UNCHANGED <<day, files, calls, cleaner>>
             /\ RecIs(p, IF AtLastLevel(p) THEN "open" ELSE "mkdir", r.call, r.path,
                      r.level + 1, r.disturbed)
             /\ \A q \in Recorders \ {p} : Marked(rec'[q], rec[q], rec[q].pc # "loop")
<1>1. PICK D : D = Disturb(p)
  OBVIOUS
<1>2. /\ D \in [Recorders -> Tasks]
      /\ \A q \in Recorders : Marked(D[q], rec[q], q # p /\ rec[q].pc # "loop")
  BY <1>1, DisturbFacts
<1>3. D[p] \in Tasks /\ D[p].call = rec[p].call /\ D[p].path = rec[p].path
      /\ D[p].level = rec[p].level /\ D[p].disturbed = rec[p].disturbed
  BY <1>2, RecFacts DEF Marked, Tasks
<1>4. PICK t : t = Retasked(D[p], Outward(p), rec[p].level + 1)
  OBVIOUS
<1>5. t \in Tasks /\ t.pc = Outward(p) /\ t.call = rec[p].call /\ t.path = rec[p].path
      /\ t.level = rec[p].level + 1 /\ t.disturbed = rec[p].disturbed
  <2>1. Outward(p) \in {"stat", "mkdir", "open"} /\ rec[p].level + 1 \in Nat
    BY RecFacts DEF Outward
  <2>2. QED
    BY <1>3, <1>4, <2>1, TaskAndLevel
<1>6. rec' = [D EXCEPT ![p] = t]
  BY <1>1, <1>2, <1>3, <1>4 DEF Mkdir, Retasked
<1>7. /\ rec' \in [Recorders -> Tasks] /\ rec'[p] = t
      /\ \A q \in Recorders \ {p} : rec'[q] = D[q]
  BY <1>2, <1>5, <1>6
<1>8. \A q \in Recorders \ {p} : Marked(rec'[q], rec[q], rec[q].pc # "loop")
  BY <1>2, <1>7 DEF Marked
<1>9. QED
  BY <1>5, <1>7, <1>8 DEF Mkdir, RecIs, Outward

LEMMA MkdirFailsEffect ==
  ASSUME SpoolTypes, NEW p \in Recorders, MkdirFails(p)
  PROVE  LET r == rec[p]
         IN  /\ r.pc = "mkdir" /\ (Parent(Prefix(p)) \notin dirs \/ Prefix(p) \in dirs)
             /\ UNCHANGED <<day, dirs, files, calls, cleaner>>
             /\ RecIs(p, "open", r.call, r.path, r.level, r.disturbed) /\ OthersStay(p)
<1> DEFINE r == rec[p]
<1>1. PICK t : t = [r EXCEPT !.pc = "open"]
  OBVIOUS
<1>2. t \in Tasks /\ t.pc = "open" /\ t.call = r.call /\ t.path = r.path
      /\ t.level = r.level /\ t.disturbed = r.disturbed
  BY <1>1, RecFacts DEF Tasks
<1>3. rec' = [rec EXCEPT ![p] = t]
  BY <1>1 DEF MkdirFails, SpoolTypes
<1>4. QED
  BY <1>2, <1>3, TaskChange DEF MkdirFails, RecIs

(* A file made anew, and a file taken away.                                 *)
FileIsMade(x, c) ==
  /\ DOMAIN files' = DOMAIN files \cup {x}
  /\ files'[x] \in Entries /\ files'[x].call = c /\ files'[x].age = 0
  /\ \A z \in DOMAIN files \ {x} : files'[z] = files[z]

FileIsGone(x) ==
  /\ DOMAIN files' = DOMAIN files \ {x}
  /\ \A z \in DOMAIN files' : files'[z] = files[z]

LEMMA OpenEffect ==
  ASSUME SpoolTypes, NEW p \in Recorders, Open(p), rec[p].call \in Calls
  PROVE  LET r == rec[p]
             y == calls[rec[p].call]
         IN  /\ r.pc = "open" /\ UNCHANGED <<day, dirs, cleaner>>
             /\ rec' \in [Recorders -> Tasks] /\ rec'[p].pc = "loop" /\ OthersStay(p)
             /\ \/ /\ Parent(r.path) \in dirs /\ FileIsMade(r.path, r.call)
                   /\ CallIs(r.call, "open", y.path, y.by, y.disturbed)
                \/ /\ Parent(r.path) \notin dirs /\ UNCHANGED files
                   /\ CallIs(r.call, "failed", y.path, y.by, r.disturbed)
<1> DEFINE r == rec[p]
           c == rec[p].call
           y == calls[c]
<1>1. /\ c \in Calls /\ y \in Fates /\ r.path \in Paths /\ r.disturbed \in BOOLEAN
      /\ AtRest \in Tasks /\ AtRest.pc = "loop"
  BY RecFacts, RootIsPath DEF SpoolTypes, Tasks, AtRest
<1>2. rec' \in [Recorders -> Tasks] /\ rec'[p].pc = "loop" /\ OthersStay(p)
  <2>1. rec' = [rec EXCEPT ![p] = AtRest]
    BY DEF Open
  <2>2. QED
    BY <1>1, <2>1, TaskChange
<1>3. CASE Parent(r.path) \in dirs
  <2>1. PICK v : v = [y EXCEPT !.is = "open"]
    OBVIOUS
  <2>2. v \in Fates /\ v.is = "open" /\ v.path = y.path /\ v.by = y.by
        /\ v.disturbed = y.disturbed
    BY <1>1, <2>1 DEF Fates, States
  <2>3. calls' = [calls EXCEPT ![c] = v]
    BY <1>3, <2>1 DEF Open
  <2>4. CallIs(c, v.is, v.path, v.by, v.disturbed)
    BY <1>1, <2>2, <2>3, FateChange
  <2>5. FileIsMade(r.path, c)
    <3>1. files' = Create(r.path, c)
      BY <1>3 DEF Open
    <3>2. [call |-> c, age |-> 0] \in Entries
      BY <1>1 DEF Entries
    <3>3. QED
      BY <3>1, <3>2 DEF Create, FileIsMade
  <2>6. QED
    BY <1>2, <1>3, <2>2, <2>4, <2>5 DEF Open
<1>4. CASE Parent(r.path) \notin dirs
  <2>1. PICK v : v = [y EXCEPT !.is = "failed", !.disturbed = r.disturbed]
    OBVIOUS
  <2>2. v = [is |-> "failed", path |-> y.path, by |-> y.by, disturbed |-> r.disturbed]
    BY <1>1, <2>1 DEF Fates
  <2>3. v \in Fates /\ v.is = "failed" /\ v.path = y.path /\ v.by = y.by
        /\ v.disturbed = r.disturbed
    BY <1>1, <2>2 DEF Fates, States
  <2>4. calls' = [calls EXCEPT ![c] = v]
    BY <1>1, <1>4, <2>1 DEF Open, SpoolTypes
  <2>5. CallIs(c, v.is, v.path, v.by, v.disturbed)
    BY <1>1, <2>3, <2>4, FateChange
  <2>6. QED
    BY <1>2, <1>4, <2>3, <2>5 DEF Open
<1>5. QED
  BY <1>3, <1>4

LEMMA CloseEffect ==
  ASSUME SpoolTypes, NEW p \in Recorders, NEW c \in Calls, Close(p, c)
  PROVE  LET y == calls[c]
         IN  /\ rec[p].pc = "loop" /\ y.is = "open" /\ UNCHANGED <<day, dirs, rec, cleaner>>
             /\ \/ CallIs(c, "kept", y.path, y.by, y.disturbed) /\ UNCHANGED files
                \/ /\ CallIs(c, "erased", y.path, y.by, y.disturbed)
                   /\ FileIsGone(FnPcap(c, y.path))
<1> DEFINE y == calls[c]
<1>1. y \in Fates
  BY DEF SpoolTypes
<1>2. ASSUME NEW is, is = "kept" \/ is = "erased", calls' = [calls EXCEPT ![c].is = is]
      PROVE  CallIs(c, is, y.path, y.by, y.disturbed)
  <2>1. PICK v : v = [y EXCEPT !.is = is]
    OBVIOUS
  <2>2. v \in Fates /\ v.is = is /\ v.path = y.path /\ v.by = y.by
        /\ v.disturbed = y.disturbed
    BY <1>1, <1>2, <2>1 DEF Fates, States
  <2>3. calls' = [calls EXCEPT ![c] = v]
    BY <1>2, <2>1
  <2>4. CallIs(c, v.is, v.path, v.by, v.disturbed)
    BY <2>2, <2>3, FateChange
  <2>5. QED
    BY <2>2, <2>4
<1>3. CASE calls' = [calls EXCEPT ![c].is = "kept"] /\ UNCHANGED files
  BY <1>2, <1>3 DEF Close
<1>4. CASE calls' = [calls EXCEPT ![c].is = "erased"] /\ files' = Unlink(FnPcap(c, calls[c].path))
  <2>1. FileIsGone(FnPcap(c, y.path))
    BY <1>4 DEF Unlink, FileIsGone
  <2>2. QED
    BY <1>2, <1>4, <2>1 DEF Close
<1>5. QED
  BY <1>3, <1>4 DEF Close

-----------------------------------------------------------------------------
(* What each step of the clean-up does.                                     *)
Cleaners == [pc : {"idle", "files", "unlink", "dirs"}, due : BOOLEAN,
             todo : SUBSET Paths, doomed : Paths \cup {NULL}]

CleanerIs(pc, todo, doomed) ==
  /\ cleaner' \in Cleaners
  /\ cleaner'.pc = pc /\ cleaner'.todo = todo /\ cleaner'.doomed = doomed

LEMMA CleanerFacts ==
  ASSUME SpoolTypes
  PROVE  /\ cleaner \in Cleaners /\ cleaner.due \in BOOLEAN
         /\ cleaner.todo \subseteq Paths /\ cleaner.doomed \in Paths \cup {NULL}
BY DEF SpoolTypes, Cleaners

LEMMA NextDayEffect ==
  ASSUME SpoolTypes, NextDay
  PROVE  /\ cleaner.pc = "idle" /\ CleanerIs("idle", cleaner.todo, cleaner.doomed)
         /\ day' \in 1 .. Days /\ UNCHANGED <<dirs, calls, rec>>
         /\ DOMAIN files' = DOMAIN files
         /\ \A z \in DOMAIN files :
              /\ files'[z] \in Entries /\ files'[z].call = files[z].call
              /\ IsOpen(z) /\ ~LinkMayFallSilent => files'[z].age = 0
<1>1. CleanerIs("idle", cleaner.todo, cleaner.doomed)
  BY CleanerFacts DEF NextDay, CleanerIs, Cleaners
<1>2. day' \in 1 .. Days
  BY SpoolAssumption DEF NextDay, SpoolTypes
<1>3. PICK silent \in {FALSE, LinkMayFallSilent} :
        files' = [x \in DOMAIN files |->
                    [files[x] EXCEPT !.age = IF IsOpen(x) /\ ~silent THEN 0 ELSE Older(@)]]
  BY DEF NextDay
<1>4. ASSUME NEW z \in DOMAIN files
      PROVE  /\ files'[z] \in Entries /\ files'[z].call = files[z].call
             /\ IsOpen(z) /\ ~LinkMayFallSilent => files'[z].age = 0
  <2>1. files[z] \in Entries /\ files[z].age \in Nat /\ files[z].call \in Calls
    BY DEF SpoolTypes, Entries
  <2>2. PICK n : n = IF IsOpen(z) /\ ~silent THEN 0 ELSE Older(files[z].age)
    OBVIOUS
  <2>3. n \in Nat /\ (IsOpen(z) /\ ~silent => n = 0)
    BY <2>1, <2>2 DEF Older
  <2>4. files'[z] = [files[z] EXCEPT !.age = n]
    BY <1>3, <2>2
  <2>5. files'[z] \in Entries /\ files'[z].call = files[z].call /\ files'[z].age = n
    BY <2>1, <2>3, <2>4 DEF Entries
  <2>6. ~LinkMayFallSilent => ~silent
    OBVIOUS
  <2>7. QED
    BY <2>3, <2>5, <2>6
<1>5. DOMAIN files' = DOMAIN files
  BY <1>3
<1>6. QED
  BY <1>1, <1>2, <1>4, <1>5 DEF NextDay

LEMMA FindFilesEffect ==
  ASSUME SpoolTypes, FindFiles
  PROVE  CleanerIs("files", DOMAIN files, NULL) /\ UNCHANGED <<day, dirs, files, calls, rec>>
BY DEF SpoolTypes, FindFiles, CleanerIs, Cleaners

LEMMA LookAtFileEffect ==
  ASSUME SpoolTypes, NEW x \in cleaner.todo, LookAtFile(x)
  PROVE  /\ cleaner.pc = "files" /\ UNCHANGED <<day, dirs, files, calls, rec>>
         /\ \/ /\ x \in DOMAIN files /\ files[x].age > Retention
               /\ CleanerIs("unlink", cleaner.todo \ {x}, x)
            \/ CleanerIs("files", cleaner.todo \ {x}, cleaner.doomed)
<1>1. cleaner \in Cleaners /\ x \in Paths /\ cleaner.todo \ {x} \in SUBSET Paths
      /\ cleaner.due \in BOOLEAN /\ cleaner.doomed \in Paths \cup {NULL}
  BY CleanerFacts
<1>2. CASE x \in DOMAIN files /\ IsOld(x)
  <2>1. PICK todo : todo = cleaner.todo \ {x}
    OBVIOUS
  <2>2. cleaner' = [cleaner EXCEPT !.pc = "unlink", !.todo = todo, !.doomed = x]
    BY <1>2, <2>1 DEF LookAtFile
  <2>3. cleaner' = [pc |-> "unlink", due |-> cleaner.due, todo |-> todo, doomed |-> x]
    BY <1>1, <2>2 DEF Cleaners
  <2>4. QED
    BY <1>1, <1>2, <2>1, <2>3 DEF LookAtFile, CleanerIs, Cleaners, IsOld
<1>3. CASE ~(x \in DOMAIN files /\ IsOld(x))
  <2>1. cleaner' = [cleaner EXCEPT !.todo = @ \ {x}]
    BY <1>3 DEF LookAtFile
  <2>2. CleanerIs("files", cleaner.todo \ {x}, cleaner.doomed)
    BY <1>1, <2>1 DEF LookAtFile, CleanerIs, Cleaners
  <2>3. QED
    BY <2>2 DEF LookAtFile
<1>4. QED
  BY <1>2, <1>3

LEMMA DeleteFileEffect ==
  ASSUME SpoolTypes, DeleteFile
  PROVE  /\ cleaner.pc = "unlink" /\ CleanerIs("files", cleaner.todo, NULL)
         /\ FileIsGone(cleaner.doomed) /\ UNCHANGED <<day, dirs, rec>>
         /\ calls' \in [Calls -> Fates]
         /\ \A c \in Calls :
              /\ calls'[c].path = calls[c].path /\ calls'[c].by = calls[c].by
              /\ calls'[c].disturbed = calls[c].disturbed
              /\ calls'[c].is = IF Expires(c) THEN "expired" ELSE calls[c].is
<1>1. CleanerIs("files", cleaner.todo, NULL)
  <2>1. cleaner' = [cleaner EXCEPT !.pc = "files", !.doomed = NULL]
    BY DEF DeleteFile
  <2>2. cleaner' = [pc |-> "files", due |-> cleaner.due, todo |-> cleaner.todo, doomed |-> NULL]
    BY <2>1, CleanerFacts DEF Cleaners
  <2>3. QED
    BY <2>2, CleanerFacts DEF CleanerIs, Cleaners
<1>2. FileIsGone(cleaner.doomed)
  BY DEF DeleteFile, Unlink, FileIsGone
<1>3. ASSUME NEW c \in Calls
      PROVE  /\ calls'[c] \in Fates
             /\ calls'[c].path = calls[c].path /\ calls'[c].by = calls[c].by
             /\ calls'[c].disturbed = calls[c].disturbed
             /\ calls'[c].is = IF Expires(c) THEN "expired" ELSE calls[c].is
  <2>1. calls[c] \in Fates
    BY DEF SpoolTypes
  <2>2. calls'[c] = IF Expires(c) THEN [calls[c] EXCEPT !.is = "expired"] ELSE calls[c]
    BY DEF DeleteFile
  <2>3. CASE Expires(c)
    <3>1. calls'[c] = [calls[c] EXCEPT !.is = "expired"]
      BY <2>2, <2>3
    <3>2. QED
      BY <2>1, <2>3, <3>1 DEF Fates, States
  <2>4. CASE ~Expires(c)
    BY <2>1, <2>2, <2>4
  <2>5. QED
    BY <2>3, <2>4
<1>4. calls' = [c \in Calls |-> calls'[c]]
  BY DEF DeleteFile
<1>5. calls' \in [Calls -> Fates]
  BY <1>3, <1>4
<1>6. QED
  BY <1>1, <1>2, <1>3, <1>5 DEF DeleteFile

LEMMA FindDirsEffect ==
  ASSUME SpoolTypes, FindDirs
  PROVE  /\ CleanerIs("dirs", dirs \ {Root}, cleaner.doomed)
         /\ UNCHANGED <<day, dirs, files, calls, rec>>
<1>1. dirs \ {Root} \in SUBSET Paths
  BY DEF SpoolTypes
<1>2. PICK todo : todo = dirs \ {Root}
  OBVIOUS
<1>3. cleaner' = [cleaner EXCEPT !.pc = "dirs", !.todo = todo]
  BY <1>2 DEF FindDirs, Searched
<1>4. cleaner' = [pc |-> "dirs", due |-> cleaner.due, todo |-> todo, doomed |-> cleaner.doomed]
  BY <1>3, CleanerFacts DEF Cleaners
<1>5. CleanerIs("dirs", todo, cleaner.doomed)
  BY <1>1, <1>2, <1>4, CleanerFacts DEF CleanerIs, Cleaners
<1>6. QED
  BY <1>2, <1>5 DEF FindDirs

LEMMA DeleteDirEffect ==
  ASSUME SpoolTypes, NEW d \in cleaner.todo, DeleteDir(d)
  PROVE  /\ cleaner.pc = "dirs" /\ CleanerIs("dirs", cleaner.todo \ {d}, cleaner.doomed)
         /\ UNCHANGED <<day, files, calls>>
         /\ \/ UNCHANGED <<dirs, rec>>
            \/ /\ d \in dirs /\ IsEmpty(d) /\ dirs' = dirs \ {d}
               /\ rec' \in [Recorders -> Tasks]
               /\ \A q \in Recorders : Marked(rec'[q], rec[q], rec[q].pc # "loop")
<1>1. CleanerIs("dirs", cleaner.todo \ {d}, cleaner.doomed)
  <2>1. cleaner' = [cleaner EXCEPT !.todo = @ \ {d}] /\ cleaner.pc = "dirs"
    BY DEF DeleteDir
  <2>2. QED
    BY <2>1, CleanerFacts DEF CleanerIs, Cleaners
<1>2. CASE d \in dirs /\ Removable(d)
  <2>1. PICK D : D = Disturb(NULL)
    OBVIOUS
  <2>2. /\ D \in [Recorders -> Tasks]
        /\ \A q \in Recorders : Marked(D[q], rec[q], q # NULL /\ rec[q].pc # "loop")
    BY <2>1, DisturbFacts
  <2>3. \A q \in Recorders : q # NULL
    BY SpoolAssumption
  <2>4. dirs' = dirs \ {d} /\ rec' = D
    BY <1>2, <2>1 DEF DeleteDir
  <2>5. QED
    BY <1>1, <1>2, <2>2, <2>3, <2>4 DEF DeleteDir, Removable
<1>3. CASE ~(d \in dirs /\ Removable(d))
  BY <1>1, <1>3 DEF DeleteDir
<1>4. QED
  BY <1>2, <1>3

LEMMA CleanedUpEffect ==
  ASSUME SpoolTypes, CleanedUp
  PROVE  /\ CleanerIs("idle", cleaner.todo, cleaner.doomed)
         /\ UNCHANGED <<day, dirs, files, calls, rec>>
BY CleanerFacts DEF CleanedUp, CleanerIs, Cleaners

-----------------------------------------------------------------------------
(* The tree stays whole, and every recorder stays with its call.            *)

(* Where a recorder is on its path.                                         *)
LEMMA WayFacts ==
  ASSUME SpoolTypes, Openers, NEW p \in Recorders, rec[p].pc # "loop"
  PROVE  LET r == rec[p]
             N == Len(Template)
         IN  /\ r.call \in Calls /\ calls[r.call].is = "opening" /\ calls[r.call].by = p
             /\ calls[r.call].path = r.path
             /\ N \in Nat \ {0} /\ r.path \in Paths /\ Len(r.path) = N
             /\ Parent(r.path) = SubSeq(r.path, 1, N - 1) /\ Parent(r.path) \in Paths
             /\ r.path # Root
             /\ AtLastLevel(p) <=> r.level = N - 1
             /\ r.pc = "stat" \/ r.pc = "mkdir" =>
                  r.level \in 0 .. N - 1 /\ Prefix(p) \in Paths /\ Len(Prefix(p)) = r.level
             /\ r.pc = "mkdir" =>
                  /\ r.level # 0 /\ Prefix(p) # Root
                  /\ Parent(Prefix(p)) = SubSeq(r.path, 1, r.level - 1)
<1> DEFINE r == rec[p]
           N == Len(Template)
<1>1. r \in Tasks /\ r.path \in Paths /\ r.level \in Nat
  BY RecFacts
<1>2. /\ r.call \in Calls /\ Len(r.path) = N
      /\ calls[r.call].is = "opening" /\ calls[r.call].by = p
      /\ calls[r.call].path = r.path
      /\ r.pc = "stat" => r.level \in 0 .. N - 1
      /\ r.pc = "mkdir" => r.level \in 1 .. N - 1
  BY DEF Openers, Opener
<1>3. N \in Nat \ {0}
  BY TemplateFacts
<1>4. /\ Parent(r.path) = SubSeq(r.path, 1, N - 1) /\ Parent(r.path) \in Paths
      /\ r.path # Root
  <2>1. N - 1 \in 0 .. Len(r.path) /\ Len(r.path) # 0
    BY <1>2, <1>3
  <2>2. SubSeq(r.path, 1, N - 1) \in Paths /\ Parent(r.path) = SubSeq(r.path, 1, Len(r.path) - 1)
    BY <1>1, <2>1, PrefixFacts
  <2>3. QED
    BY <1>2, <2>1, <2>2, RootIsPath
<1>5. ASSUME r.pc = "stat" \/ r.pc = "mkdir"
      PROVE  r.level \in 0 .. N - 1 /\ Prefix(p) \in Paths /\ Len(Prefix(p)) = r.level
  <2>1. r.level \in 0 .. N - 1 /\ r.level \in 0 .. Len(r.path)
    BY <1>2, <1>3, <1>5
  <2>2. SubSeq(r.path, 1, r.level) \in Paths /\ Len(SubSeq(r.path, 1, r.level)) = r.level
    BY <1>1, <2>1, PrefixFacts
  <2>3. QED
    BY <2>1, <2>2 DEF Prefix
<1>6. ASSUME r.pc = "mkdir"
      PROVE  /\ r.level # 0 /\ Prefix(p) # Root
             /\ Parent(Prefix(p)) = SubSeq(r.path, 1, r.level - 1)
  <2>1. r.level \in 0 .. Len(r.path) /\ r.level # 0
    BY <1>2, <1>3, <1>6
  <2>2. /\ SubSeq(r.path, 1, r.level) # Root
        /\ Parent(SubSeq(r.path, 1, r.level)) = SubSeq(r.path, 1, r.level - 1)
    BY <1>1, <2>1, PrefixFacts
  <2>3. QED
    BY <2>1, <2>2 DEF Prefix
<1>7. QED
  BY <1>1, <1>2, <1>3, <1>4, <1>5, <1>6 DEF AtLastLevel

LEMMA InitBase == Init => BaseInv
<1> SUFFICES ASSUME Init PROVE BaseInv
  OBVIOUS
<1>1. SpoolTypes
  BY InitTypes
<1>2. TreeIsWhole
  BY DEF Init, TreeIsWhole
<1>3. RootIsSafe /\ Openers
  BY DEF Init, RootIsSafe, Openers, Opener, AtRest
<1>4. QED
  BY <1>1, <1>2, <1>3 DEF BaseInv

LEMMA NextTypes == BaseInv /\ [Next]_vars => SpoolTypes'
<1> SUFFICES ASSUME BaseInv, [Next]_vars PROVE SpoolTypes'
  OBVIOUS
<1> USE DEF Cleaners
<1>1. SpoolTypes /\ TreeIsWhole /\ Openers
  BY DEF BaseInv
<1>2. CASE UNCHANGED vars
  BY <1>1, <1>2 DEF SpoolTypes, vars
<1>3. ASSUME NEW p \in Recorders, NEW c \in Calls, NewCall(p, c)
      PROVE  SpoolTypes'
  <2>1. /\ rec' \in [Recorders -> Tasks] /\ calls' \in [Calls -> Fates]
        /\ UNCHANGED <<day, dirs, files, cleaner>>
    BY <1>1, <1>3, NewCallEffect DEF RecIs, CallIs
  <2>2. QED
    BY <1>1, <2>1 DEF SpoolTypes
<1>4. ASSUME NEW p \in Recorders, Stat(p)
      PROVE  SpoolTypes'
  <2>1. rec' \in [Recorders -> Tasks] /\ UNCHANGED <<day, dirs, files, calls, cleaner>>
    BY <1>1, <1>4, StatEffect DEF RecIs
  <2>2. QED
    BY <1>1, <2>1 DEF SpoolTypes
<1>5. ASSUME NEW p \in Recorders, Mkdir(p)
      PROVE  SpoolTypes'
  <2>1. /\ rec' \in [Recorders -> Tasks] /\ rec[p].pc = "mkdir"
        /\ dirs' = dirs \cup {Prefix(p)} /\ UNCHANGED <<day, files, calls, cleaner>>
    BY <1>1, <1>5, MkdirEffect DEF RecIs
  <2>2. Prefix(p) \in Paths
    BY <1>1, <2>1, WayFacts
  <2>3. QED
    BY <1>1, <2>1, <2>2 DEF SpoolTypes
<1>6. ASSUME NEW p \in Recorders, MkdirFails(p)
      PROVE  SpoolTypes'
  <2>1. rec' \in [Recorders -> Tasks] /\ UNCHANGED <<day, dirs, files, calls, cleaner>>
    BY <1>1, <1>6, MkdirFailsEffect DEF RecIs
  <2>2. QED
    BY <1>1, <2>1 DEF SpoolTypes
<1>7. ASSUME NEW p \in Recorders, Open(p)
      PROVE  SpoolTypes'
  <2>1. rec[p].pc = "open"
    BY <1>7 DEF Open
  <2>2. rec[p].call \in Calls /\ rec[p].path \in Paths
    BY <1>1, <2>1, WayFacts
  <2>3. /\ rec' \in [Recorders -> Tasks] /\ calls' \in [Calls -> Fates]
        /\ UNCHANGED <<day, dirs, cleaner>>
        /\ FileIsMade(rec[p].path, rec[p].call) \/ UNCHANGED files
    BY <1>1, <1>7, <2>2, OpenEffect DEF CallIs
  <2>4. DOMAIN files' \subseteq Paths /\ \A x \in DOMAIN files' : files'[x] \in Entries
    BY <1>1, <2>2, <2>3 DEF FileIsMade, SpoolTypes
  <2>5. QED
    BY <1>1, <2>3, <2>4 DEF SpoolTypes
<1>8. ASSUME NEW p \in Recorders, NEW c \in Calls, Close(p, c)
      PROVE  SpoolTypes'
  <2>1. /\ calls' \in [Calls -> Fates] /\ UNCHANGED <<day, dirs, rec, cleaner>>
        /\ FileIsGone(FnPcap(c, calls[c].path)) \/ UNCHANGED files
    BY <1>1, <1>8, CloseEffect DEF CallIs
  <2>2. DOMAIN files' \subseteq Paths /\ \A x \in DOMAIN files' : files'[x] \in Entries
    BY <1>1, <2>1 DEF FileIsGone, SpoolTypes
  <2>3. QED
    BY <1>1, <2>1, <2>2 DEF SpoolTypes
<1>9. CASE NextDay
  <2>1. /\ cleaner' \in Cleaners /\ day' \in 1 .. Days /\ UNCHANGED <<dirs, calls, rec>>
        /\ DOMAIN files' = DOMAIN files /\ \A z \in DOMAIN files : files'[z] \in Entries
    BY <1>1, <1>9, NextDayEffect DEF CleanerIs
  <2>2. QED
    BY <1>1, <2>1 DEF SpoolTypes
<1>10. CASE FindFiles
  <2>1. cleaner' \in Cleaners /\ UNCHANGED <<day, dirs, files, calls, rec>>
    BY <1>1, <1>10, FindFilesEffect DEF CleanerIs
  <2>2. QED
    BY <1>1, <2>1 DEF SpoolTypes
<1>11. ASSUME NEW x \in cleaner.todo, LookAtFile(x)
       PROVE  SpoolTypes'
  <2>1. cleaner' \in Cleaners /\ UNCHANGED <<day, dirs, files, calls, rec>>
    BY <1>1, <1>11, LookAtFileEffect DEF CleanerIs
  <2>2. QED
    BY <1>1, <2>1 DEF SpoolTypes
<1>12. CASE DeleteFile
  <2>1. /\ cleaner' \in Cleaners /\ UNCHANGED <<day, dirs, rec>>
        /\ FileIsGone(cleaner.doomed) /\ calls' \in [Calls -> Fates]
    BY <1>1, <1>12, DeleteFileEffect DEF CleanerIs
  <2>2. DOMAIN files' \subseteq Paths /\ \A x \in DOMAIN files' : files'[x] \in Entries
    BY <1>1, <2>1 DEF FileIsGone, SpoolTypes
  <2>3. QED
    BY <1>1, <2>1, <2>2 DEF SpoolTypes
<1>13. CASE FindDirs
  <2>1. cleaner' \in Cleaners /\ UNCHANGED <<day, dirs, files, calls, rec>>
    BY <1>1, <1>13, FindDirsEffect DEF CleanerIs
  <2>2. QED
    BY <1>1, <2>1 DEF SpoolTypes
<1>14. ASSUME NEW d \in cleaner.todo, DeleteDir(d)
       PROVE  SpoolTypes'
  <2>1. /\ cleaner' \in Cleaners /\ UNCHANGED <<day, files, calls>>
        /\ UNCHANGED <<dirs, rec>> \/ (dirs' = dirs \ {d} /\ rec' \in [Recorders -> Tasks])
    BY <1>1, <1>14, DeleteDirEffect DEF CleanerIs
  <2>2. QED
    BY <1>1, <2>1 DEF SpoolTypes
<1>15. CASE CleanedUp
  <2>1. cleaner' \in Cleaners /\ UNCHANGED <<day, dirs, files, calls, rec>>
    BY <1>1, <1>15, CleanedUpEffect DEF CleanerIs
  <2>2. QED
    BY <1>1, <2>1 DEF SpoolTypes
<1>16. QED
  BY <1>2, <1>3, <1>4, <1>5, <1>6, <1>7, <1>8, <1>9, <1>10, <1>11, <1>12, <1>13, <1>14, <1>15
     DEF Next, Opening, Clean

LEMMA NextTree == BaseInv /\ [Next]_vars => TreeIsWhole'
<1> SUFFICES ASSUME BaseInv, [Next]_vars PROVE TreeIsWhole'
  OBVIOUS
<1>1. SpoolTypes /\ TreeIsWhole /\ Openers /\ RootIsSafe
  BY DEF BaseInv
<1>2. ASSUME UNCHANGED dirs, DOMAIN files' \subseteq DOMAIN files
      PROVE  TreeIsWhole'
  BY <1>1, <1>2 DEF TreeIsWhole
<1>3. CASE UNCHANGED vars
  BY <1>2, <1>3 DEF vars
<1>4. ASSUME NEW p \in Recorders, NEW c \in Calls, NewCall(p, c)
      PROVE  TreeIsWhole'
  BY <1>2, <1>4 DEF NewCall
<1>5. ASSUME NEW p \in Recorders, Stat(p) \/ MkdirFails(p)
      PROVE  TreeIsWhole'
  BY <1>2, <1>5 DEF Stat, MkdirFails
<1>6. ASSUME NEW p \in Recorders, Mkdir(p)
      PROVE  TreeIsWhole'
  BY <1>1, <1>6 DEF Mkdir, TreeIsWhole
<1>7. ASSUME NEW p \in Recorders, Open(p)
      PROVE  TreeIsWhole'
  <2>1. rec[p].call \in Calls
    BY <1>1, <1>7, WayFacts DEF Open
  <2>2. /\ UNCHANGED dirs
        /\ \/ Parent(rec[p].path) \in dirs /\ DOMAIN files' = DOMAIN files \cup {rec[p].path}
           \/ UNCHANGED files
    BY <1>1, <1>7, <2>1, OpenEffect DEF FileIsMade
  <2>3. QED
    BY <1>1, <1>2, <2>2 DEF TreeIsWhole
<1>8. ASSUME NEW p \in Recorders, NEW c \in Calls, Close(p, c)
      PROVE  TreeIsWhole'
  BY <1>1, <1>2, <1>8, CloseEffect DEF FileIsGone
<1>9. CASE NextDay
  BY <1>1, <1>2, <1>9, NextDayEffect
<1>10. CASE FindFiles \/ FindDirs \/ CleanedUp
  BY <1>2, <1>10 DEF FindFiles, FindDirs, CleanedUp
<1>11. ASSUME NEW x \in cleaner.todo, LookAtFile(x)
       PROVE  TreeIsWhole'
  BY <1>2, <1>11 DEF LookAtFile
<1>12. CASE DeleteFile
  BY <1>1, <1>2, <1>12, DeleteFileEffect DEF FileIsGone
<1>13. ASSUME NEW d \in cleaner.todo, DeleteDir(d)
       PROVE  TreeIsWhole'
  <2>1. /\ cleaner.pc = "dirs" /\ UNCHANGED files
        /\ UNCHANGED dirs \/ (IsEmpty(d) /\ dirs' = dirs \ {d})
    BY <1>1, <1>13, DeleteDirEffect
  <2>2. d # Root
    BY <1>1, <2>1 DEF RootIsSafe
  <2>3. CASE IsEmpty(d) /\ dirs' = dirs \ {d}
    BY <1>1, <2>1, <2>2, <2>3 DEF TreeIsWhole, IsEmpty
  <2>4. QED
    BY <1>2, <2>1, <2>3
<1>14. QED
  BY <1>3, <1>4, <1>5, <1>6, <1>7, <1>8, <1>9, <1>10, <1>11, <1>12, <1>13
     DEF Next, Opening, Clean

LEMMA NextRoot == BaseInv /\ [Next]_vars => RootIsSafe'
<1> SUFFICES ASSUME BaseInv, [Next]_vars PROVE RootIsSafe'
  OBVIOUS
<1>1. SpoolTypes /\ TreeIsWhole /\ Openers /\ RootIsSafe
  BY DEF BaseInv
<1>2. CASE UNCHANGED cleaner
  BY <1>1, <1>2 DEF RootIsSafe
<1>3. CASE NextDay
  BY <1>1, <1>3, NextDayEffect DEF CleanerIs, RootIsSafe
<1>4. CASE FindFiles
  BY <1>1, <1>4, FindFilesEffect DEF CleanerIs, RootIsSafe
<1>5. ASSUME NEW x \in cleaner.todo, LookAtFile(x)
      PROVE  RootIsSafe'
  <2>1. cleaner'.pc = "unlink" \/ cleaner'.pc = "files"
    BY <1>1, <1>5, LookAtFileEffect DEF CleanerIs
  <2>2. QED
    BY <2>1 DEF RootIsSafe
<1>6. CASE DeleteFile
  BY <1>1, <1>6, DeleteFileEffect DEF CleanerIs, RootIsSafe
<1>7. CASE FindDirs
  BY <1>1, <1>7, FindDirsEffect DEF CleanerIs, RootIsSafe
<1>8. ASSUME NEW d \in cleaner.todo, DeleteDir(d)
      PROVE  RootIsSafe'
  BY <1>1, <1>8, DeleteDirEffect DEF CleanerIs, RootIsSafe
<1>9. CASE CleanedUp
  BY <1>1, <1>9, CleanedUpEffect DEF CleanerIs, RootIsSafe
<1>10. QED
  BY <1>2, <1>3, <1>4, <1>5, <1>6, <1>7, <1>8, <1>9
     DEF Next, Opening, Clean, vars, NewCall, Close, Stat, Mkdir, MkdirFails, Open

(* A recorder that nobody touches stays where it is.                        *)
SameWay(q) ==
  /\ rec'[q].pc = rec[q].pc /\ rec'[q].call = rec[q].call
  /\ rec'[q].path = rec[q].path /\ rec'[q].level = rec[q].level

SameFate(c) ==
  /\ calls'[c].is = calls[c].is /\ calls'[c].by = calls[c].by
  /\ calls'[c].path = calls[c].path

LEMMA OpenerStays ==
  ASSUME NEW q \in Recorders, Opener(q), SameWay(q),
         rec[q].pc # "loop" => SameFate(rec[q].call)
  PROVE  Opener(q)'
BY DEF Opener, SameWay, SameFate

LEMMA OpenersStay ==
  ASSUME Openers, \A q \in Recorders : SameWay(q),
         \A c \in Calls : calls[c].is = "opening" => SameFate(c)
  PROVE  Openers'
<1>1. ASSUME NEW q \in Recorders
      PROVE  Opener(q)'
  <2>1. Opener(q) /\ SameWay(q)
    BY DEF Openers
  <2>2. rec[q].pc # "loop" => SameFate(rec[q].call)
    BY <2>1 DEF Opener
  <2>3. QED
    BY <2>1, <2>2, OpenerStays
<1>2. QED
  BY <1>1 DEF Openers

LEMMA NextOpeners == BaseInv /\ [Next]_vars => Openers'
<1> SUFFICES ASSUME BaseInv, [Next]_vars PROVE Openers'
  OBVIOUS
<1>1. SpoolTypes /\ TreeIsWhole /\ Openers /\ RootIsSafe
  BY DEF BaseInv
<1>2. CASE UNCHANGED <<rec, calls>>
  BY <1>1, <1>2, OpenersStay DEF SameWay, SameFate
<1>3. ASSUME NEW p \in Recorders, NEW c \in Calls, calls[c].is # "opening", OthersStay(p),
             Opener(p)', \A d \in Calls \ {c} : calls'[d] = calls[d]
      PROVE  Openers'
  <2>1. ASSUME NEW q \in Recorders \ {p}
        PROVE  Opener(q)'
    <3>1. Opener(q) /\ SameWay(q)
      BY <1>1, <1>3 DEF Openers, SameWay, OthersStay
    <3>2. rec[q].pc # "loop" => SameFate(rec[q].call)
      BY <1>3, <3>1 DEF Opener, SameFate
    <3>3. QED
      BY <3>1, <3>2, OpenerStays
  <2>2. QED
    BY <1>3, <2>1 DEF Openers
<1>4. ASSUME NEW p \in Recorders, UNCHANGED calls, Opener(p)',
             \A q \in Recorders \ {p} : SameWay(q)
      PROVE  Openers'
  <2>1. ASSUME NEW q \in Recorders \ {p}
        PROVE  Opener(q)'
    BY <1>1, <1>4, OpenerStays DEF Openers, SameFate
  <2>2. QED
    BY <1>4, <2>1 DEF Openers
<1>5. ASSUME NEW p \in Recorders, NEW c \in Calls, NewCall(p, c)
      PROVE  Openers'
  <2>1. PICK path \in Paths :
          /\ Len(path) = Len(Template) /\ calls[c].is = "new" /\ OthersStay(p)
          /\ RecIs(p, IF Len(path) > 1 THEN "stat" ELSE "open", c, path, Len(path) - 1, FALSE)
          /\ CallIs(c, "opening", path, p, calls[c].disturbed)
    BY <1>1, <1>5, NewCallEffect
  <2>2. Opener(p)'
    BY <2>1, TemplateFacts DEF RecIs, CallIs, Opener
  <2>3. QED
    BY <1>3, <2>1, <2>2 DEF CallIs
<1>6. ASSUME NEW p \in Recorders, Stat(p)
      PROVE  Openers'
  <2>1. /\ rec[p].pc = "stat" /\ OthersStay(p) /\ UNCHANGED calls
        /\ \/ /\ rec[p].level # 0
              /\ RecIs(p, "stat", rec[p].call, rec[p].path, rec[p].level - 1, rec[p].disturbed)
           \/ RecIs(p, "open", rec[p].call, rec[p].path, rec[p].level, rec[p].disturbed)
           \/ /\ ~AtLastLevel(p)
              /\ RecIs(p, "mkdir", rec[p].call, rec[p].path, rec[p].level + 1, rec[p].disturbed)
    BY <1>1, <1>6, StatEffect
  <2>2. /\ rec[p].level \in 0 .. Len(Template) - 1 /\ Len(Template) \in Nat \ {0}
        /\ AtLastLevel(p) <=> rec[p].level = Len(Template) - 1
    BY <1>1, <2>1, WayFacts
  <2>3. Opener(p)'
    BY <1>1, <2>1, <2>2 DEF RecIs, Openers, Opener
  <2>4. QED
    BY <1>4, <2>1, <2>3 DEF OthersStay, SameWay
<1>7. ASSUME NEW p \in Recorders, Mkdir(p)
      PROVE  Openers'
  <2>1. /\ rec[p].pc = "mkdir" /\ UNCHANGED calls
        /\ RecIs(p, IF AtLastLevel(p) THEN "open" ELSE "mkdir", rec[p].call, rec[p].path,
                 rec[p].level + 1, rec[p].disturbed)
        /\ \A q \in Recorders \ {p} : Marked(rec'[q], rec[q], rec[q].pc # "loop")
    BY <1>1, <1>7, MkdirEffect
  <2>2. /\ rec[p].level \in 0 .. Len(Template) - 1 /\ Len(Template) \in Nat \ {0}
        /\ AtLastLevel(p) <=> rec[p].level = Len(Template) - 1
    BY <1>1, <2>1, WayFacts
  <2>3. Opener(p)'
    BY <1>1, <2>1, <2>2 DEF RecIs, Openers, Opener
  <2>4. QED
    BY <1>4, <2>1, <2>3 DEF Marked, SameWay
<1>8. ASSUME NEW p \in Recorders, MkdirFails(p)
      PROVE  Openers'
  <2>1. /\ rec[p].pc = "mkdir" /\ UNCHANGED calls /\ OthersStay(p)
        /\ RecIs(p, "open", rec[p].call, rec[p].path, rec[p].level, rec[p].disturbed)
    BY <1>1, <1>8, MkdirFailsEffect
  <2>2. Opener(p)'
    BY <1>1, <2>1 DEF RecIs, Openers, Opener
  <2>3. QED
    BY <1>4, <2>1, <2>2 DEF OthersStay, SameWay
<1>9. ASSUME NEW p \in Recorders, Open(p)
      PROVE  Openers'
  <2>1. rec[p].pc = "open"
    BY <1>9 DEF Open
  <2>2. rec[p].call \in Calls
    BY <1>1, <2>1, WayFacts
  <2>3. /\ rec'[p].pc = "loop" /\ OthersStay(p)
        /\ \A d \in Calls \ {rec[p].call} : calls'[d] = calls[d]
    BY <1>1, <1>9, <2>2, OpenEffect DEF CallIs
  <2>4. ASSUME NEW q \in Recorders \ {p}
        PROVE  Opener(q)'
    <3>1. Opener(q) /\ Opener(p) /\ SameWay(q)
      BY <1>1, <2>3 DEF Openers, SameWay, OthersStay
    <3>2. rec[q].pc # "loop" => SameFate(rec[q].call)
      BY <2>1, <2>3, <3>1 DEF Opener, SameFate
    <3>3. QED
      BY <3>1, <3>2, OpenerStays
  <2>5. Opener(p)'
    BY <2>3 DEF Opener
  <2>6. QED
    BY <2>4, <2>5 DEF Openers
<1>10. ASSUME NEW p \in Recorders, NEW c \in Calls, Close(p, c)
       PROVE  Openers'
  <2>1. /\ calls[c].is = "open" /\ UNCHANGED rec
        /\ \A d \in Calls \ {c} : calls'[d] = calls[d]
    BY <1>1, <1>10, CloseEffect DEF CallIs
  <2>2. QED
    BY <1>1, <2>1, OpenersStay DEF SameWay, SameFate
<1>11. CASE DeleteFile
  <2>1. /\ UNCHANGED rec
        /\ \A c \in Calls :
             /\ calls'[c].path = calls[c].path /\ calls'[c].by = calls[c].by
             /\ calls'[c].is = IF Expires(c) THEN "expired" ELSE calls[c].is
    BY <1>1, <1>11, DeleteFileEffect
  <2>2. \A c \in Calls : calls[c].is = "opening" => SameFate(c)
    BY <2>1 DEF SameFate, Expires
  <2>3. \A q \in Recorders : SameWay(q)
    BY <2>1 DEF SameWay
  <2>4. QED
    BY <1>1, <2>2, <2>3, OpenersStay
<1>12. ASSUME NEW d \in cleaner.todo, DeleteDir(d)
       PROVE  Openers'
  <2>1. /\ UNCHANGED calls
        /\ \/ UNCHANGED rec
           \/ \A q \in Recorders : Marked(rec'[q], rec[q], rec[q].pc # "loop")
    BY <1>1, <1>12, DeleteDirEffect
  <2>2. \A q \in Recorders : SameWay(q)
    BY <2>1 DEF Marked, SameWay
  <2>3. QED
    BY <1>1, <2>1, <2>2, OpenersStay DEF SameFate
<1>13. QED
  BY <1>2, <1>5, <1>6, <1>7, <1>8, <1>9, <1>10, <1>11, <1>12
     DEF Next, Opening, Clean, vars, NextDay, FindFiles, LookAtFile, FindDirs, CleanedUp

LEMMA BaseIsInvariant == Spec => []BaseInv
<1>1. BaseInv /\ [Next]_vars => BaseInv'
  BY NextTypes, NextTree, NextRoot, NextOpeners DEF BaseInv
<1>2. QED
  BY InitBase, <1>1, PTL DEF Spec

(* Whatever mkdir, rmdir and fopen of several recorders and the clean-up do *)
(* between each other, everything in the spool lies in a directory that is  *)
(* there.                                                                   *)
THEOREM NothingIsOrphaned == Spec => []TreeIsWhole
<1>1. BaseInv => TreeIsWhole
  BY DEF BaseInv
<1>2. QED
  BY BaseIsInvariant, <1>1, PTL

-----------------------------------------------------------------------------
(* mkdir_p makes every level that is missing.                               *)

(* As long as nobody else makes or removes a directory, what a recorder has *)
(* seen of its path stays so: the level above is missing while it looks     *)
(* upwards, the level at hand is missing but not its parent while it makes  *)
(* directories, and the last directory is there when it opens the file.     *)
WayAhead(p) ==
  LET r == rec[p]
  IN  r.pc # "loop" /\ ~r.disturbed =>
        /\ r.pc = "stat" /\ ~AtLastLevel(p) => SubSeq(r.path, 1, r.level + 1) \notin dirs
        /\ r.pc = "mkdir" => Parent(Prefix(p)) \in dirs /\ Prefix(p) \notin dirs
        /\ r.pc = "open" => Parent(r.path) \in dirs

WaysAhead == \A p \in Recorders : WayAhead(p)

LEMMA WayAheadStays ==
  ASSUME NEW q \in Recorders, WayAhead(q), rec'[q] = rec[q], UNCHANGED dirs
  PROVE  WayAhead(q)'
BY DEF WayAhead, Prefix, AtLastLevel

LEMMA WaysAheadStay ==
  ASSUME NEW p \in Recorders, WaysAhead, OthersStay(p), UNCHANGED dirs, WayAhead(p)'
  PROVE  WaysAhead'
<1>1. ASSUME NEW q \in Recorders \ {p}
      PROVE  WayAhead(q)'
  BY <1>1, WayAheadStays DEF WaysAhead, OthersStay
<1>2. QED
  BY <1>1 DEF WaysAhead

LEMMA WayAheadLost ==
  ASSUME SpoolTypes, NEW q \in Recorders, Marked(rec'[q], rec[q], rec[q].pc # "loop")
  PROVE  WayAhead(q)'
<1>1. rec'[q].pc = "loop" \/ rec'[q].disturbed
  BY DEF Marked
<1>2. QED
  BY <1>1 DEF WayAhead

LEMMA NewCallAhead ==
  ASSUME BaseInv, WaysAhead, NEW p \in Recorders, NEW c \in Calls, NewCall(p, c)
  PROVE  WaysAhead'
<1>1. SpoolTypes /\ TreeIsWhole
  BY DEF BaseInv
<1>2. PICK path \in Paths :
        /\ Len(path) = Len(Template) /\ OthersStay(p) /\ UNCHANGED dirs
        /\ RecIs(p, IF Len(path) > 1 THEN "stat" ELSE "open", c, path, Len(path) - 1, FALSE)
  BY <1>1, NewCallEffect
<1>3. Len(path) \in Nat \ {0}
  BY <1>2, TemplateFacts
<1>4. Len(path) = 1 => Parent(path) = Root
  <2>1. Len(path) - 1 \in 0 .. Len(path)
    BY <1>3
  <2>2. /\ Len(path) - 1 = 0 => SubSeq(path, 1, Len(path) - 1) = Root
    BY <2>1, PrefixFacts
  <2>3. QED
    BY <1>3, <2>2 DEF Parent
<1>5. WayAhead(p)'
  <2>1. CASE Len(path) > 1
    BY <1>2, <1>3, <2>1 DEF RecIs, WayAhead, AtLastLevel
  <2>2. CASE Len(path) = 1
    BY <1>1, <1>2, <1>3, <1>4, <2>2 DEF RecIs, WayAhead, TreeIsWhole
  <2>3. Len(path) > 1 \/ Len(path) = 1
    <3>1. \A n \in Nat \ {0} : n > 1 \/ n = 1
      OBVIOUS
    <3>2. QED
      BY <1>3, <3>1, Zenon
  <2>4. QED
    BY <2>1, <2>2, <2>3
<1>6. QED
  BY <1>2, <1>5, WaysAheadStay

LEMMA StatAhead ==
  ASSUME BaseInv, WaysAhead, NEW p \in Recorders, Stat(p)
  PROVE  WaysAhead'
<1> DEFINE r == rec[p]
           N == Len(Template)
<1>1. SpoolTypes /\ TreeIsWhole /\ Openers /\ WayAhead(p)
  BY DEF BaseInv, WaysAhead
<1>2. /\ r.pc = "stat" /\ OthersStay(p) /\ UNCHANGED dirs
      /\ \/ /\ Prefix(p) \notin dirs /\ r.level # 0
            /\ RecIs(p, "stat", r.call, r.path, r.level - 1, r.disturbed)
         \/ /\ Prefix(p) \in dirs /\ AtLastLevel(p)
            /\ RecIs(p, "open", r.call, r.path, r.level, r.disturbed)
         \/ /\ Prefix(p) \in dirs /\ ~AtLastLevel(p)
            /\ RecIs(p, "mkdir", r.call, r.path, r.level + 1, r.disturbed)
  BY <1>1, StatEffect
<1>3. /\ N \in Nat \ {0} /\ r.path \in Paths /\ Len(r.path) = N /\ r.level \in 0 .. N - 1
      /\ Parent(r.path) = SubSeq(r.path, 1, N - 1)
      /\ AtLastLevel(p) <=> r.level = N - 1
  BY <1>1, <1>2, WayFacts
<1>4. Prefix(p) = SubSeq(r.path, 1, r.level)
  BY DEF Prefix
<1> HIDE DEF N
<1>5. CASE /\ Prefix(p) \notin dirs /\ r.level # 0
           /\ RecIs(p, "stat", r.call, r.path, r.level - 1, r.disturbed)
  <2>1. (r.level - 1) + 1 = r.level
    BY <1>3
  <2>2. SubSeq(r.path, 1, (r.level - 1) + 1) \notin dirs'
    BY <1>2, <1>4, <1>5, <2>1
  <2>3. WayAhead(p)'
    BY <1>5, <2>2 DEF RecIs, WayAhead
  <2>4. QED
    BY <1>1, <1>2, <2>3, WaysAheadStay
<1>6. CASE /\ Prefix(p) \in dirs /\ AtLastLevel(p)
           /\ RecIs(p, "open", r.call, r.path, r.level, r.disturbed)
  <2>1. Parent(r.path) \in dirs'
    BY <1>2, <1>3, <1>4, <1>6
  <2>2. WayAhead(p)'
    BY <1>6, <2>1 DEF RecIs, WayAhead
  <2>3. QED
    BY <1>1, <1>2, <2>2, WaysAheadStay
<1>7. CASE /\ Prefix(p) \in dirs /\ ~AtLastLevel(p)
           /\ RecIs(p, "mkdir", r.call, r.path, r.level + 1, r.disturbed)
  <2>1. PICK l : l = r.level + 1
    OBVIOUS
  <2>2. l \in 0 .. Len(r.path) /\ l # 0 /\ l - 1 = r.level
    BY <1>3, <1>7, <2>1
  <2>3. Parent(SubSeq(r.path, 1, l)) = Prefix(p)
    BY <1>3, <1>4, <2>2, PrefixFacts
  <2>4. Prefix(p)' = SubSeq(r.path, 1, l)
    BY <1>7, <2>1 DEF RecIs, Prefix
  <2>5. ~r.disturbed => SubSeq(r.path, 1, l) \notin dirs
    BY <1>1, <1>2, <1>7, <2>1 DEF WayAhead
  <2>6. ~rec'[p].disturbed => Parent(Prefix(p)') \in dirs' /\ Prefix(p)' \notin dirs'
    BY <1>2, <1>7, <2>3, <2>4, <2>5 DEF RecIs
  <2>7. WayAhead(p)'
    BY <1>7, <2>6 DEF RecIs, WayAhead, Parent
  <2>8. QED
    BY <1>1, <1>2, <2>7, WaysAheadStay
<1>8. QED
  BY <1>2, <1>5, <1>6, <1>7

LEMMA MkdirAhead ==
  ASSUME BaseInv, WaysAhead, NEW p \in Recorders, Mkdir(p)
  PROVE  WaysAhead'
<1> DEFINE r == rec[p]
           N == Len(Template)
<1>1. SpoolTypes /\ TreeIsWhole /\ Openers
  BY DEF BaseInv
<1>2. /\ r.pc = "mkdir" /\ Prefix(p) \notin dirs /\ dirs' = dirs \cup {Prefix(p)}
      /\ RecIs(p, IF AtLastLevel(p) THEN "open" ELSE "mkdir", r.call, r.path,
               r.level + 1, r.disturbed)
      /\ \A q \in Recorders \ {p} : Marked(rec'[q], rec[q], rec[q].pc # "loop")
  BY <1>1, MkdirEffect
<1>3. /\ N \in Nat \ {0} /\ r.path \in Paths /\ Len(r.path) = N /\ r.level \in 0 .. N - 1
      /\ Parent(r.path) = SubSeq(r.path, 1, N - 1)
      /\ AtLastLevel(p) <=> r.level = N - 1
      /\ Len(Prefix(p)) = r.level
  BY <1>1, <1>2, WayFacts
<1>4. Prefix(p) = SubSeq(r.path, 1, r.level)
  BY DEF Prefix
<1> HIDE DEF N
<1>5. ASSUME AtLastLevel(p) PROVE WayAhead(p)'
  <2>1. Parent(r.path) \in dirs'
    BY <1>2, <1>3, <1>4, <1>5
  <2>2. QED
    BY <1>2, <1>5, <2>1 DEF RecIs, WayAhead
<1>6. ASSUME ~AtLastLevel(p) PROVE WayAhead(p)'
  <2>1. PICK l : l = r.level + 1
    OBVIOUS
  <2>2. l \in 0 .. Len(r.path) /\ l # 0 /\ l - 1 = r.level
    BY <1>3, <1>6, <2>1
  <2>3. /\ Parent(SubSeq(r.path, 1, l)) = Prefix(p)
        /\ Len(SubSeq(r.path, 1, l)) = l /\ SubSeq(r.path, 1, l) # Root
    <3>1. /\ Parent(SubSeq(r.path, 1, l)) = SubSeq(r.path, 1, l - 1)
          /\ Len(SubSeq(r.path, 1, l)) = l /\ SubSeq(r.path, 1, l) # Root
      BY <1>3, <2>2, PrefixFacts
    <3>2. QED
      BY <1>4, <2>2, <3>1
  <2>4. Prefix(p)' = SubSeq(r.path, 1, l)
    BY <1>2, <1>6, <2>1 DEF RecIs, Prefix
  <2>5. SubSeq(r.path, 1, l) \notin dirs
    BY <1>1, <1>2, <2>3 DEF TreeIsWhole
  <2>6. SubSeq(r.path, 1, l) # Prefix(p)
    BY <1>3, <2>1, <2>3
  <2>7. Parent(Prefix(p)') \in dirs' /\ Prefix(p)' \notin dirs'
    BY <1>2, <2>3, <2>4, <2>5, <2>6
  <2>8. QED
    BY <1>2, <1>6, <2>7 DEF RecIs, WayAhead, Parent
<1>7. WayAhead(p)'
  BY <1>5, <1>6
<1>8. ASSUME NEW q \in Recorders \ {p}
      PROVE  WayAhead(q)'
  BY <1>1, <1>2, WayAheadLost
<1>9. QED
  BY <1>7, <1>8 DEF WaysAhead

LEMMA NextAhead == BaseInv /\ WaysAhead /\ [Next]_vars => WaysAhead'
<1> SUFFICES ASSUME BaseInv, WaysAhead, [Next]_vars PROVE WaysAhead'
  OBVIOUS
<1>1. SpoolTypes /\ TreeIsWhole /\ Openers
  BY DEF BaseInv
<1>2. CASE UNCHANGED <<dirs, rec>>
  <2>1. ASSUME NEW q \in Recorders
        PROVE  WayAhead(q)'
    BY <1>2, WayAheadStays DEF WaysAhead
  <2>2. QED
    BY <2>1 DEF WaysAhead
<1>3. ASSUME NEW p \in Recorders, NEW c \in Calls, NewCall(p, c)
      PROVE  WaysAhead'
  BY <1>3, NewCallAhead
<1>4. ASSUME NEW p \in Recorders, Stat(p)
      PROVE  WaysAhead'
  BY <1>4, StatAhead
<1>5. ASSUME NEW p \in Recorders, Mkdir(p)
      PROVE  WaysAhead'
  BY <1>5, MkdirAhead
<1>6. ASSUME NEW p \in Recorders, MkdirFails(p)
      PROVE  WaysAhead'
  <2>1. /\ rec[p].pc = "mkdir" /\ (Parent(Prefix(p)) \notin dirs \/ Prefix(p) \in dirs)
        /\ UNCHANGED dirs /\ OthersStay(p)
        /\ RecIs(p, "open", rec[p].call, rec[p].path, rec[p].level, rec[p].disturbed)
    BY <1>1, <1>6, MkdirFailsEffect
  <2>2. rec[p].disturbed
    BY <2>1 DEF WaysAhead, WayAhead
  <2>3. WayAhead(p)'
    BY <2>1, <2>2 DEF RecIs, WayAhead
  <2>4. QED
    BY <2>1, <2>3, WaysAheadStay
<1>7. ASSUME NEW p \in Recorders, Open(p)
      PROVE  WaysAhead'
  <2>1. rec[p].call \in Calls
    BY <1>1, <1>7, WayFacts DEF Open
  <2>2. rec'[p].pc = "loop" /\ OthersStay(p) /\ UNCHANGED dirs
    BY <1>1, <1>7, <2>1, OpenEffect
  <2>3. WayAhead(p)'
    BY <2>2 DEF WayAhead
  <2>4. QED
    BY <2>2, <2>3, WaysAheadStay
<1>8. ASSUME NEW d \in cleaner.todo, DeleteDir(d)
      PROVE  WaysAhead'
  <2>1. CASE \A q \in Recorders : Marked(rec'[q], rec[q], rec[q].pc # "loop")
    BY <1>1, <2>1, WayAheadLost DEF WaysAhead
  <2>2. QED
    BY <1>1, <1>2, <1>8, <2>1, DeleteDirEffect
<1>9. QED
  BY <1>2, <1>3, <1>4, <1>5, <1>6, <1>7, <1>8
     DEF Next, Opening, Clean, vars, Close, NextDay, FindFiles, LookAtFile, DeleteFile,
         FindDirs, CleanedUp

(* A call's file that could not be opened.                                  *)
LEMMA NextFails ==
  BaseInv /\ WaysAhead /\ OpenFailsOnlyIfDisturbed /\ [Next]_vars => OpenFailsOnlyIfDisturbed'
<1> SUFFICES ASSUME BaseInv, WaysAhead, OpenFailsOnlyIfDisturbed, [Next]_vars
             PROVE  OpenFailsOnlyIfDisturbed'
  OBVIOUS
<1>1. SpoolTypes /\ TreeIsWhole /\ Openers
  BY DEF BaseInv
<1>2. ASSUME NEW c \in Calls, calls'[c].is = "failed" => calls'[c].disturbed,
             \A d \in Calls \ {c} : calls'[d] = calls[d]
      PROVE  OpenFailsOnlyIfDisturbed'
  BY <1>2 DEF OpenFailsOnlyIfDisturbed
<1>3. CASE UNCHANGED calls
  BY <1>3 DEF OpenFailsOnlyIfDisturbed
<1>4. ASSUME NEW p \in Recorders, NEW c \in Calls, NewCall(p, c)
      PROVE  OpenFailsOnlyIfDisturbed'
  BY <1>1, <1>2, <1>4, NewCallEffect DEF CallIs
<1>5. ASSUME NEW p \in Recorders, Open(p)
      PROVE  OpenFailsOnlyIfDisturbed'
  <2>1. rec[p].call \in Calls
    BY <1>1, <1>5, WayFacts DEF Open
  <2>2. \/ CallIs(rec[p].call, "open", calls[rec[p].call].path, calls[rec[p].call].by,
                  calls[rec[p].call].disturbed)
        \/ /\ rec[p].pc = "open" /\ Parent(rec[p].path) \notin dirs
           /\ CallIs(rec[p].call, "failed", calls[rec[p].call].path, calls[rec[p].call].by,
                     rec[p].disturbed)
    BY <1>1, <1>5, <2>1, OpenEffect
  <2>3. rec[p].pc = "open" /\ Parent(rec[p].path) \notin dirs => rec[p].disturbed
    BY DEF WaysAhead, WayAhead
  <2>4. QED
    BY <1>2, <2>1, <2>2, <2>3 DEF CallIs
<1>6. ASSUME NEW p \in Recorders, NEW c \in Calls, Close(p, c)
      PROVE  OpenFailsOnlyIfDisturbed'
  <2>1. \/ CallIs(c, "kept", calls[c].path, calls[c].by, calls[c].disturbed)
        \/ CallIs(c, "erased", calls[c].path, calls[c].by, calls[c].disturbed)
    BY <1>1, <1>6, CloseEffect
  <2>2. QED
    BY <1>2, <2>1 DEF CallIs
<1>7. CASE DeleteFile
  BY <1>1, <1>7, DeleteFileEffect DEF OpenFailsOnlyIfDisturbed
<1>8. QED
  BY <1>3, <1>4, <1>5, <1>6, <1>7
     DEF Next, Opening, Clean, vars, Stat, Mkdir, MkdirFails, NextDay, FindFiles, LookAtFile,
         FindDirs, DeleteDir, CleanedUp

(* mkdir_p makes every missing level: of any number of recorders below any  *)
(* template, one fails to open a file only if another process has made or   *)
(* removed a directory between its first stat and its fopen.                *)
THEOREM OnlyOthersMakeOpenFail == Spec => []OpenFailsOnlyIfDisturbed
<1>1. Init => WaysAhead /\ OpenFailsOnlyIfDisturbed
  BY DEF Init, WaysAhead, WayAhead, AtRest, OpenFailsOnlyIfDisturbed
<1>2. QED
  BY BaseIsInvariant, <1>1, NextAhead, NextFails, PTL DEF Spec

-----------------------------------------------------------------------------
(* No recording is lost before its time.                                    *)

(* Every path is the call's own, of the day it was opened.                  *)
PathIsNamed(c) ==
  IF calls[c].is = "new" THEN calls[c].path = Root
                         ELSE \E d \in 1 .. Days : calls[c].path = Expand(c, d)
Named == \A c \in Calls : PathIsNamed(c)

(* A file is at the path of the call that made it.                          *)
HasOwner(z) ==
  /\ calls[files[z].call].path = z
  /\ calls[files[z].call].is \in {"open", "kept", "erased", "expired"}
Owned == \A z \in DOMAIN files : HasOwner(z)

(* What is being recorded is not old.                                       *)
Fresh == \A z \in DOMAIN files : IsOpen(z) => files[z].age = 0

(* What the clean-up is about to unlink is the path of a call that has      *)
(* ended, and the file it finds there is old, or a second call has put it   *)
(* there.                                                                   *)
Ended(x) ==
  \E c \in Calls : calls[c].path = x /\ calls[c].is \in {"kept", "erased", "expired"}
Shared(x) == \E c, d \in Calls : c # d /\ calls[c].path = x /\ calls[d].path = x
DoomedIsDead ==
  cleaner.pc = "unlink" =>
    /\ Ended(cleaner.doomed)
    /\ cleaner.doomed \in DOMAIN files =>
         files[cleaner.doomed].age > Retention \/ Shared(cleaner.doomed)

(* The two invariants of the runs, for one call.                            *)
IsRecorded(c) ==
  calls[c].is = "open" \/ calls[c].is = "kept" => SharesPath(c) \/ HasItsFile(c)
Recorded == \A c \in Calls : IsRecorded(c)

FilesInv == Named /\ Owned /\ Fresh /\ DoomedIsDead /\ Recorded

(* A call keeps its path unless it had none.                                *)
PathsStay == \A c \in Calls : calls'[c].path = calls[c].path

LEMMA SharingStays ==
  ASSUME PathsStay
  PROVE  /\ \A c \in Calls : SharesPath(c)' <=> SharesPath(c)
         /\ \A x : Shared(x)' <=> Shared(x)
BY DEF PathsStay, SharesPath, Shared

LEMMA NewCallNamed ==
  ASSUME BaseInv, Named, NEW p \in Recorders, NEW c \in Calls, NewCall(p, c)
  PROVE  Named'
<1>1. SpoolTypes
  BY DEF BaseInv
<1>2. PICK path \in Paths :
        path = Expand(c, day) /\ CallIs(c, "opening", path, p, calls[c].disturbed)
  BY <1>1, NewCallEffect
<1>3. /\ calls'[c].is = "opening" /\ calls'[c].path = path
      /\ \A d \in Calls \ {c} : calls'[d] = calls[d]
  BY <1>2 DEF CallIs
<1>4. day \in 1 .. Days
  BY <1>1 DEF SpoolTypes
<1>5. \E d \in 1 .. Days : calls'[c].path = Expand(c, d)
  BY <1>2, <1>3, <1>4
<1>6. PathIsNamed(c)'
  BY <1>3, <1>5 DEF PathIsNamed, Expand, Field
<1>7. ASSUME NEW d \in Calls \ {c}
      PROVE  PathIsNamed(d)'
  BY <1>3 DEF Named, PathIsNamed, Expand, Field
<1>8. QED
  BY <1>6, <1>7 DEF Named

LEMMA NewCallFiles ==
  ASSUME BaseInv, FilesInv, NEW p \in Recorders, NEW c \in Calls, NewCall(p, c)
  PROVE  FilesInv'
<1>1. SpoolTypes /\ Named /\ Owned /\ Fresh /\ DoomedIsDead /\ Recorded
  BY DEF BaseInv, FilesInv
<1>2. PICK path \in Paths :
        /\ path = Expand(c, day) /\ path # Root /\ calls[c].is = "new"
        /\ CallIs(c, "opening", path, p, calls[c].disturbed)
        /\ UNCHANGED <<day, dirs, files, cleaner>>
  BY <1>1, NewCallEffect
<1>3. /\ calls'[c].is = "opening" /\ calls'[c].path = path /\ calls[c].path = Root
      /\ \A d \in Calls \ {c} : calls'[d] = calls[d]
  BY <1>1, <1>2 DEF CallIs, Named, PathIsNamed
<1>4. Named'
  BY <1>1, NewCallNamed
<1>5. Owned'
  <2>1. ASSUME NEW z \in DOMAIN files
        PROVE  HasOwner(z)'
    <3>1. HasOwner(z) /\ files[z].call \in Calls
      BY <1>1 DEF Owned, SpoolTypes, Entries
    <3>2. files[z].call # c
      BY <1>2, <3>1 DEF HasOwner
    <3>3. QED
      BY <1>2, <1>3, <3>1, <3>2 DEF HasOwner
  <2>2. QED
    BY <1>2, <2>1 DEF Owned
<1>6. Fresh'
  <2>1. \A z : IsOpen(z)' => IsOpen(z)
    BY <1>3 DEF IsOpen
  <2>2. QED
    BY <1>1, <1>2, <2>1 DEF Fresh
<1>7. DoomedIsDead'
  <2>1. ASSUME cleaner.pc = "unlink", NEW x, x = cleaner.doomed
        PROVE  Ended(x)' /\ (x \in DOMAIN files => files[x].age > Retention \/ Shared(x)')
    <3>1. PICK e \in Calls : calls[e].path = x /\ calls[e].is \in {"kept", "erased", "expired"}
      BY <1>1, <2>1 DEF DoomedIsDead, Ended
    <3>2. e # c
      BY <1>2, <3>1
    <3>3. Ended(x)'
      BY <1>3, <3>1, <3>2 DEF Ended
    <3>4. x # Root
      BY <1>1, <3>1, ExpandFacts DEF Named, PathIsNamed
    <3>5. Shared(x) => Shared(x)'
      <4>1. ASSUME NEW a \in Calls, NEW b \in Calls, a # b, calls[a].path = x, calls[b].path = x
            PROVE  Shared(x)'
        <5>1. a # c /\ b # c
          BY <1>3, <3>4, <4>1
        <5>2. calls'[a].path = x /\ calls'[b].path = x
          BY <1>3, <4>1, <5>1
        <5>3. QED
          BY <4>1, <5>2 DEF Shared
      <4>2. QED
        BY <4>1 DEF Shared
    <3>6. QED
      BY <1>1, <2>1, <3>3, <3>5 DEF DoomedIsDead
  <2>2. QED
    BY <1>2, <2>1 DEF DoomedIsDead, Ended, Shared
<1>8. Recorded'
  <2>1. ASSUME NEW d \in Calls \ {c}, calls[d].is = "open" \/ calls[d].is = "kept"
        PROVE  SharesPath(d)' \/ HasItsFile(d)'
    <3>1. SharesPath(d) \/ HasItsFile(d)
      BY <1>1, <2>1 DEF Recorded, IsRecorded
    <3>2. calls[d].path # Root
      BY <1>1, <2>1, ExpandFacts DEF Named, PathIsNamed
    <3>3. SharesPath(d) => SharesPath(d)'
      BY <1>3, <3>2 DEF SharesPath
    <3>4. HasItsFile(d) => HasItsFile(d)'
      BY <1>2, <1>3 DEF HasItsFile
    <3>5. QED
      BY <3>1, <3>3, <3>4
  <2>2. ASSUME NEW d \in Calls
        PROVE  IsRecorded(d)'
    BY <1>3, <2>1 DEF IsRecorded
  <2>3. QED
    BY <2>2 DEF Recorded
<1>9. QED
  BY <1>4, <1>5, <1>6, <1>7, <1>8 DEF FilesInv

(* Only one call's fate changes, and no path.                               *)
LEMMA NamedStays ==
  ASSUME Named, PathsStay, \A c \in Calls : calls'[c].is = "new" <=> calls[c].is = "new"
  PROVE  Named'
<1>1. ASSUME NEW c \in Calls
      PROVE  PathIsNamed(c)'
  <2>1. PathIsNamed(c) /\ (calls'[c].is = "new" <=> calls[c].is = "new")
    BY DEF Named
  <2>2. \A d : Expand(c, d)' = Expand(c, d)
    BY DEF Expand, Field
  <2>3. calls'[c].path = calls[c].path
    BY DEF PathsStay
  <2>4. CASE calls[c].is = "new"
    BY <2>1, <2>3, <2>4 DEF PathIsNamed
  <2>5. CASE calls[c].is # "new"
    <3>1. PICK d \in 1 .. Days : calls[c].path = Expand(c, d)
      BY <2>1, <2>5 DEF PathIsNamed
    <3>2. calls'[c].path = Expand(c, d)'
      BY <2>2, <2>3, <3>1
    <3>3. QED
      BY <2>1, <2>5, <3>2 DEF PathIsNamed
  <2>6. QED
    BY <2>4, <2>5
<1>2. QED
  BY <1>1 DEF Named

LEMMA CallChange ==
  ASSUME NEW c \in Calls, NEW is, NEW by, NEW yes, CallIs(c, is, calls[c].path, by, yes)
  PROVE  /\ PathsStay /\ calls'[c].is = is /\ \A d \in Calls \ {c} : calls'[d] = calls[d]
BY DEF CallIs, PathsStay

LEMMA OpenFiles ==
  ASSUME BaseInv, FilesInv, NEW p \in Recorders, Open(p)
  PROVE  FilesInv'
<1>1. SpoolTypes /\ Openers /\ Named /\ Owned /\ Fresh /\ DoomedIsDead /\ Recorded
  BY DEF BaseInv, FilesInv
<1>2. PICK c, path : c = rec[p].call /\ path = rec[p].path
  OBVIOUS
<1>3. c \in Calls /\ calls[c].is = "opening" /\ calls[c].path = path /\ path \in Paths
  BY <1>1, <1>2, WayFacts DEF Open
<1>4. /\ UNCHANGED cleaner /\ PathsStay /\ \A d \in Calls \ {c} : calls'[d] = calls[d]
      /\ \/ FileIsMade(path, c) /\ calls'[c].is = "open"
         \/ UNCHANGED files /\ calls'[c].is = "failed"
  <2>1. /\ UNCHANGED cleaner
        /\ \/ /\ FileIsMade(path, c)
              /\ CallIs(c, "open", calls[c].path, calls[c].by, calls[c].disturbed)
           \/ /\ UNCHANGED files
              /\ CallIs(c, "failed", calls[c].path, calls[c].by, rec[p].disturbed)
    BY <1>1, <1>2, <1>3, OpenEffect
  <2>2. CASE /\ FileIsMade(path, c)
             /\ CallIs(c, "open", calls[c].path, calls[c].by, calls[c].disturbed)
    BY <1>3, <2>1, <2>2, CallChange
  <2>3. CASE /\ UNCHANGED files
             /\ CallIs(c, "failed", calls[c].path, calls[c].by, rec[p].disturbed)
    BY <1>3, <2>1, <2>3, CallChange
  <2>4. QED
    BY <2>1, <2>2, <2>3
<1>5. Named'
  BY <1>1, <1>3, <1>4, NamedStays
<1>6. ASSUME NEW d \in Calls
      PROVE  SharesPath(d)' <=> SharesPath(d)
  BY <1>4, SharingStays
<1>7. ASSUME NEW z \in DOMAIN files
      PROVE  /\ HasOwner(z) /\ files[z].call \in Calls \ {c}
             /\ calls'[files[z].call] = calls[files[z].call]
  BY <1>1, <1>3, <1>4 DEF Owned, HasOwner, SpoolTypes, Entries
<1>8. CASE UNCHANGED files /\ calls'[c].is = "failed"
  <2>1. Owned'
    <3>1. ASSUME NEW z \in DOMAIN files
          PROVE  HasOwner(z)'
      BY <1>7, <1>8 DEF HasOwner
    <3>2. QED
      BY <1>8, <3>1 DEF Owned
  <2>2. Fresh'
    <3>1. \A z : IsOpen(z)' => IsOpen(z)
      BY <1>4, <1>8 DEF IsOpen
    <3>2. QED
      BY <1>1, <1>8, <3>1 DEF Fresh
  <2>3. DoomedIsDead'
    <3>1. \A x : (Ended(x) => Ended(x)') /\ (Shared(x) => Shared(x)')
      BY <1>3, <1>4, SharingStays DEF Ended
    <3>2. QED
      BY <1>1, <1>4, <1>8, <3>1 DEF DoomedIsDead
  <2>4. Recorded'
    <3>1. ASSUME NEW d \in Calls
          PROVE  IsRecorded(d)'
      BY <1>1, <1>4, <1>6, <1>8 DEF Recorded, IsRecorded, HasItsFile
    <3>2. QED
      BY <3>1 DEF Recorded
  <2>5. QED
    BY <1>5, <2>1, <2>2, <2>3, <2>4 DEF FilesInv
<1>9. CASE FileIsMade(path, c) /\ calls'[c].is = "open"
  <2>1. /\ DOMAIN files' = DOMAIN files \cup {path} /\ files'[path].call = c
        /\ files'[path].age = 0 /\ \A z \in DOMAIN files \ {path} : files'[z] = files[z]
        /\ calls'[c].path = path
    BY <1>3, <1>4, <1>9 DEF FileIsMade, PathsStay
  <2>2. Owned'
    <3>1. ASSUME NEW z \in DOMAIN files \ {path}
          PROVE  HasOwner(z)'
      BY <1>7, <2>1 DEF HasOwner
    <3>2. HasOwner(path)'
      BY <1>9, <2>1 DEF HasOwner
    <3>3. QED
      BY <2>1, <3>1, <3>2 DEF Owned
  <2>3. Fresh'
    <3>1. \A z : z # path /\ IsOpen(z)' => IsOpen(z)
      BY <1>4, <2>1 DEF IsOpen
    <3>2. QED
      BY <1>1, <2>1, <3>1 DEF Fresh
  <2>4. DoomedIsDead'
    <3>1. \A x : (Ended(x) => Ended(x)') /\ (Shared(x) => Shared(x)')
      BY <1>3, <1>4, SharingStays DEF Ended
    <3>2. Ended(path) => Shared(path)'
      <4>1. ASSUME NEW e \in Calls, calls[e].path = path,
                   calls[e].is \in {"kept", "erased", "expired"}
            PROVE  Shared(path)'
        <5>1. e # c /\ calls'[e].path = path
          BY <1>3, <1>4, <4>1
        <5>2. QED
          BY <1>3, <2>1, <4>1, <5>1 DEF Shared
      <4>2. QED
        BY <4>1 DEF Ended
    <3>3. QED
      BY <1>1, <1>4, <2>1, <3>1, <3>2 DEF DoomedIsDead
  <2>5. Recorded'
    <3>1. HasItsFile(c)'
      BY <2>1 DEF HasItsFile
    <3>2. ASSUME NEW d \in Calls \ {c}
          PROVE  IsRecorded(d)'
      <4>1. CASE calls[d].path = path
        <5>1. SharesPath(d)
          BY <1>3, <3>2, <4>1 DEF SharesPath
        <5>2. QED
          BY <1>6, <3>2, <5>1 DEF IsRecorded
      <4>2. CASE calls[d].path # path
        BY <1>1, <1>4, <1>6, <2>1, <3>2, <4>2 DEF Recorded, IsRecorded, HasItsFile
      <4>3. QED
        BY <4>1, <4>2
    <3>3. QED
      BY <3>1, <3>2 DEF Recorded, IsRecorded
  <2>6. QED
    BY <1>5, <2>2, <2>3, <2>4, <2>5 DEF FilesInv
<1>10. QED
  BY <1>4, <1>8, <1>9

LEMMA CloseFiles ==
  ASSUME BaseInv, FilesInv, NEW p \in Recorders, NEW c \in Calls, Close(p, c)
  PROVE  FilesInv'
<1>1. SpoolTypes /\ Named /\ Owned /\ Fresh /\ DoomedIsDead /\ Recorded
  BY DEF BaseInv, FilesInv
<1>2. PICK gone : gone = FnPcap(c, calls[c].path)
  OBVIOUS
<1>3. /\ calls[c].is = "open" /\ UNCHANGED cleaner /\ PathsStay
      /\ \A d \in Calls \ {c} : calls'[d] = calls[d]
      /\ \/ UNCHANGED files /\ calls'[c].is = "kept"
         \/ FileIsGone(gone) /\ calls'[c].is = "erased"
  <2>1. /\ calls[c].is = "open" /\ UNCHANGED cleaner
        /\ \/ /\ UNCHANGED files
              /\ CallIs(c, "kept", calls[c].path, calls[c].by, calls[c].disturbed)
           \/ /\ FileIsGone(gone)
              /\ CallIs(c, "erased", calls[c].path, calls[c].by, calls[c].disturbed)
    BY <1>1, <1>2, CloseEffect
  <2>2. CASE CallIs(c, "kept", calls[c].path, calls[c].by, calls[c].disturbed) /\ UNCHANGED files
    BY <2>1, <2>2, CallChange
  <2>3. CASE /\ CallIs(c, "erased", calls[c].path, calls[c].by, calls[c].disturbed)
             /\ FileIsGone(gone)
    BY <2>1, <2>3, CallChange
  <2>4. QED
    BY <2>1, <2>2, <2>3
<1>4. /\ DOMAIN files' \subseteq DOMAIN files
      /\ \A z \in DOMAIN files' : files'[z] = files[z]
  BY <1>3 DEF FileIsGone
<1>5. Named'
  BY <1>1, <1>3, NamedStays
<1>6. Owned'
  <2>1. ASSUME NEW z \in DOMAIN files'
        PROVE  HasOwner(z)'
    <3>1. HasOwner(z) /\ files[z].call \in Calls /\ files'[z] = files[z]
      BY <1>1, <1>4 DEF Owned, SpoolTypes, Entries
    <3>2. QED
      BY <1>3, <3>1 DEF HasOwner, PathsStay
  <2>2. QED
    BY <2>1 DEF Owned
<1>7. Fresh'
  <2>1. \A z : IsOpen(z)' => IsOpen(z)
    BY <1>3 DEF IsOpen
  <2>2. QED
    BY <1>1, <1>4, <2>1 DEF Fresh
<1>8. DoomedIsDead'
  <2>1. \A x : (Ended(x) => Ended(x)') /\ (Shared(x) => Shared(x)')
    BY <1>3, SharingStays DEF Ended, PathsStay
  <2>2. QED
    BY <1>1, <1>3, <1>4, <2>1 DEF DoomedIsDead
<1>9. Recorded'
  <2>1. ASSUME NEW d \in Calls
        PROVE  SharesPath(d)' <=> SharesPath(d)
    BY <1>3, SharingStays
  <2>2. CASE UNCHANGED files
    <3>1. ASSUME NEW d \in Calls
          PROVE  IsRecorded(d)'
      BY <1>1, <1>3, <2>1, <2>2 DEF Recorded, IsRecorded, HasItsFile, PathsStay
    <3>2. QED
      BY <3>1 DEF Recorded
  <2>3. CASE FileIsGone(gone) /\ calls'[c].is = "erased"
    <3>1. ASSUME NEW d \in Calls \ {c}, calls[d].is = "open" \/ calls[d].is = "kept",
                 calls[d].path = gone
          PROVE  SharesPath(d)
      <4>1. PICK f \in 1 .. Days : calls[d].path = Expand(d, f)
        BY <1>1, <3>1 DEF Named, PathIsNamed
      <4>2. PICK e \in 1 .. Days : calls[c].path = Expand(c, e)
        BY <1>1, <1>3 DEF Named, PathIsNamed
      <4>3. calls[c].path = calls[d].path
        <5>1. PICK a, b : a = calls[c].path /\ b = calls[d].path
          OBVIOUS
        <5>2. a = Expand(c, e) /\ b = Expand(d, f) /\ FnPcap(c, a) = b
          BY <1>2, <3>1, <4>1, <4>2, <5>1
        <5>3. d \in Calls
          BY <3>1
        <5>4. a = b
          BY ONLY c \in Calls, e \in 1 .. Days, f \in 1 .. Days, <5>2, <5>3, TruncatedName
        <5>5. QED
          BY <5>1, <5>4
      <4>4. QED
        BY <3>1, <4>3 DEF SharesPath
    <3>2. ASSUME NEW d \in Calls \ {c}, calls[d].is = "open" \/ calls[d].is = "kept",
                 calls[d].path # gone, HasItsFile(d)
          PROVE  HasItsFile(d)'
      BY <1>3, <1>4, <2>3, <3>2 DEF HasItsFile, FileIsGone
    <3>3. ASSUME NEW d \in Calls
          PROVE  IsRecorded(d)'
      <4>1. CASE d = c
        BY <2>3, <4>1 DEF IsRecorded
      <4>2. CASE d # c
        BY <1>1, <1>3, <2>1, <3>1, <3>2, <4>2 DEF Recorded, IsRecorded
      <4>3. QED
        BY <4>1, <4>2
    <3>4. QED
      BY <3>3 DEF Recorded
  <2>4. QED
    BY <1>3, <2>2, <2>3
<1>10. QED
  BY <1>5, <1>6, <1>7, <1>8, <1>9 DEF FilesInv

LEMMA NextDayFiles ==
  ASSUME BaseInv, FilesInv, ~LinkMayFallSilent, NextDay
  PROVE  FilesInv'
<1>1. SpoolTypes /\ Named /\ Owned /\ Fresh /\ DoomedIsDead /\ Recorded
  BY DEF BaseInv, FilesInv
<1>2. /\ cleaner'.pc = "idle" /\ UNCHANGED calls /\ PathsStay
      /\ DOMAIN files' = DOMAIN files
      /\ \A z \in DOMAIN files :
           files'[z].call = files[z].call /\ (IsOpen(z) => files'[z].age = 0)
  BY <1>1, NextDayEffect DEF CleanerIs, PathsStay
<1>3. Named'
  BY <1>1, <1>2, NamedStays
<1>4. Owned'
  BY <1>1, <1>2 DEF Owned, HasOwner
<1>5. Fresh'
  <2>1. \A z : IsOpen(z)' <=> IsOpen(z)
    BY <1>2 DEF IsOpen
  <2>2. QED
    BY <1>2, <2>1 DEF Fresh
<1>6. DoomedIsDead'
  BY <1>2 DEF DoomedIsDead
<1>7. Recorded'
  BY <1>1, <1>2 DEF Recorded, IsRecorded, SharesPath, HasItsFile
<1>8. QED
  BY <1>3, <1>4, <1>5, <1>6, <1>7 DEF FilesInv

LEMMA LookFiles ==
  ASSUME BaseInv, FilesInv, NEW x \in cleaner.todo, LookAtFile(x)
  PROVE  FilesInv'
<1>1. SpoolTypes /\ Named /\ Owned /\ Fresh /\ DoomedIsDead /\ Recorded
  BY DEF BaseInv, FilesInv
<1>2. /\ UNCHANGED <<files, calls>>
      /\ \/ /\ x \in DOMAIN files /\ files[x].age > Retention /\ cleaner'.doomed = x
         \/ cleaner'.pc = "files"
  BY <1>1, LookAtFileEffect DEF CleanerIs
<1>3. Named' /\ Owned' /\ Fresh' /\ Recorded'
  <2>1. Named'
    BY <1>1, <1>2 DEF Named, PathIsNamed, Expand, Field
  <2>2. Owned'
    BY <1>1, <1>2 DEF Owned, HasOwner
  <2>3. Fresh'
    BY <1>1, <1>2 DEF Fresh, IsOpen
  <2>4. Recorded'
    BY <1>1, <1>2 DEF Recorded, IsRecorded, SharesPath, HasItsFile
  <2>5. QED
    BY <2>1, <2>2, <2>3, <2>4
<1>4. DoomedIsDead'
  <2>1. ASSUME x \in DOMAIN files, files[x].age > Retention
        PROVE  Ended(x)
    <3>1. HasOwner(x) /\ files[x].call \in Calls
      BY <1>1, <2>1 DEF Owned, SpoolTypes, Entries
    <3>2. calls[files[x].call].is # "open"
      <4>1. files[x].age # 0
        BY <2>1, SpoolAssumption
      <4>2. ~IsOpen(x)
        BY <1>1, <2>1, <4>1 DEF Fresh
      <4>3. QED
        BY <3>1, <4>2 DEF IsOpen, HasOwner
    <3>3. QED
      BY <3>1, <3>2 DEF HasOwner, Ended
  <2>2. QED
    BY <1>2, <2>1 DEF DoomedIsDead, Ended
<1>5. QED
  BY <1>3, <1>4 DEF FilesInv

LEMMA DeleteFiles ==
  ASSUME BaseInv, FilesInv, DeleteFile
  PROVE  FilesInv'
<1>1. SpoolTypes /\ Named /\ Owned /\ Fresh /\ DoomedIsDead /\ Recorded
  BY DEF BaseInv, FilesInv
<1>2. PICK x : x = cleaner.doomed
  OBVIOUS
<1>3. /\ cleaner.pc = "unlink" /\ cleaner'.pc = "files" /\ PathsStay
      /\ DOMAIN files' = DOMAIN files \ {x}
      /\ \A z \in DOMAIN files' : files'[z] = files[z]
      /\ \A c \in Calls : calls'[c].is = IF Expires(c) THEN "expired" ELSE calls[c].is
  BY <1>1, <1>2, DeleteFileEffect DEF CleanerIs, FileIsGone, PathsStay
<1>4. Named'
  <2>1. \A c \in Calls : calls'[c].is = "new" <=> calls[c].is = "new"
    BY <1>3 DEF Expires
  <2>2. QED
    BY <1>1, <1>3, <2>1, NamedStays
<1>5. Owned'
  <2>1. ASSUME NEW z \in DOMAIN files'
        PROVE  HasOwner(z)'
    <3>1. HasOwner(z) /\ files[z].call \in Calls /\ files'[z] = files[z]
      BY <1>1, <1>3 DEF Owned, SpoolTypes, Entries
    <3>2. QED
      BY <1>3, <3>1 DEF HasOwner, PathsStay
  <2>2. QED
    BY <2>1 DEF Owned
<1>6. Fresh'
  <2>1. \A z : IsOpen(z)' => IsOpen(z)
    BY <1>3 DEF IsOpen, PathsStay
  <2>2. QED
    BY <1>1, <1>3, <2>1 DEF Fresh
<1>7. DoomedIsDead'
  BY <1>3 DEF DoomedIsDead
<1>8. Recorded'
  <2>1. ASSUME NEW c \in Calls, calls'[c].is = "open" \/ calls'[c].is = "kept",
               ~SharesPath(c)
        PROVE  HasItsFile(c)'
    <3>1. HasItsFile(c) /\ calls[c].is = calls'[c].is /\ ~Expires(c)
      BY <1>1, <1>3, <2>1 DEF Recorded, IsRecorded
    <3>2. calls[c].path # x
      <4>1. SUFFICES ASSUME calls[c].path = x PROVE FALSE
        OBVIOUS
      <4>2. x \in DOMAIN files /\ files[x].call = c
        BY <3>1, <4>1 DEF HasItsFile
      <4>3. ~Shared(x)
        BY <2>1, <4>1 DEF Shared, SharesPath
      <4>4. files[x].age > Retention
        BY <1>1, <1>2, <1>3, <4>2, <4>3 DEF DoomedIsDead
      <4>5. CASE calls[c].is = "kept"
        BY <1>2, <3>1, <4>2, <4>4, <4>5 DEF Expires
      <4>6. CASE calls[c].is = "open"
        <5>1. IsOpen(x)
          BY <4>1, <4>6 DEF IsOpen
        <5>2. files[x].age = 0
          BY <1>1, <4>2, <5>1 DEF Fresh
        <5>3. QED
          BY <4>4, <5>2, SpoolAssumption
      <4>7. QED
        BY <2>1, <3>1, <4>5, <4>6
    <3>3. QED
      BY <1>3, <3>1, <3>2 DEF HasItsFile, PathsStay
  <2>2. ASSUME NEW c \in Calls
        PROVE  IsRecorded(c)'
    BY <1>3, <2>1, SharingStays DEF IsRecorded
  <2>3. QED
    BY <2>2 DEF Recorded
<1>9. QED
  BY <1>4, <1>5, <1>6, <1>7, <1>8 DEF FilesInv

LEMMA NextFiles == BaseInv /\ FilesInv /\ ~LinkMayFallSilent /\ [Next]_vars => FilesInv'
<1> SUFFICES ASSUME BaseInv, FilesInv, ~LinkMayFallSilent, [Next]_vars PROVE FilesInv'
  OBVIOUS
<1>1. ASSUME UNCHANGED <<files, calls>>, DoomedIsDead'
      PROVE  FilesInv'
  <2>1. Named'
    BY <1>1, NamedStays DEF FilesInv, PathsStay
  <2>2. Owned' /\ Fresh' /\ Recorded'
    BY <1>1
       DEF FilesInv, Owned, HasOwner, Fresh, IsOpen, Recorded, IsRecorded, SharesPath, HasItsFile
  <2>3. QED
    BY <1>1, <2>1, <2>2 DEF FilesInv
<1>2. ASSUME UNCHANGED <<files, calls>>, UNCHANGED cleaner \/ cleaner'.pc # "unlink"
      PROVE  FilesInv'
  BY <1>1, <1>2 DEF FilesInv, DoomedIsDead, Ended, Shared
<1>3. SpoolTypes
  BY DEF BaseInv
<1>4. ASSUME NEW p \in Recorders, NEW c \in Calls, NewCall(p, c) \/ Close(p, c)
      PROVE  FilesInv'
  BY <1>4, NewCallFiles, CloseFiles
<1>5. ASSUME NEW p \in Recorders, Open(p)
      PROVE  FilesInv'
  BY <1>5, OpenFiles
<1>6. CASE NextDay
  BY <1>6, NextDayFiles
<1>7. CASE FindFiles
  BY <1>2, <1>3, <1>7, FindFilesEffect DEF CleanerIs
<1>8. ASSUME NEW x \in cleaner.todo, LookAtFile(x)
      PROVE  FilesInv'
  BY <1>8, LookFiles
<1>9. CASE DeleteFile
  BY <1>9, DeleteFiles
<1>10. CASE FindDirs
  BY <1>2, <1>3, <1>10, FindDirsEffect DEF CleanerIs
<1>11. ASSUME NEW d \in cleaner.todo, DeleteDir(d)
       PROVE  FilesInv'
  BY <1>2, <1>3, <1>11, DeleteDirEffect DEF CleanerIs
<1>12. CASE CleanedUp
  BY <1>2, <1>3, <1>12, CleanedUpEffect DEF CleanerIs
<1>13. QED
  BY <1>2, <1>4, <1>5, <1>6, <1>7, <1>8, <1>9, <1>10, <1>11, <1>12
     DEF Next, Opening, Clean, vars, Stat, Mkdir, MkdirFails

LEMMA FilesAreInvariant ==
  ASSUME ~LinkMayFallSilent
  PROVE  Spec => [](BaseInv /\ FilesInv)
<1>1. Init => FilesInv
  BY DEF Init, FilesInv, Named, PathIsNamed, Owned, Fresh, DoomedIsDead, Recorded, IsRecorded
<1>2. BaseInv /\ FilesInv /\ [Next]_vars => FilesInv'
  BY NextFiles
<1>3. QED
  BY BaseIsInvariant, <1>1, <1>2, PTL DEF Spec

(* On a link that never falls silent for a day, neither the daily clean-up  *)
(* nor the end of another call takes the file of a call that is still being *)
(* recorded away, however rmdir, unlink and fopen interleave and wherever   *)
(* the slot's copy of a name was cut; only two calls of one path lose one.  *)
THEOREM NoOpenFileIsTaken ==
  ASSUME ~LinkMayFallSilent
  PROVE  Spec => []OpenFilesAreKept
<1>1. FilesInv => OpenFilesAreKept
  BY DEF FilesInv, Recorded, IsRecorded, OpenFilesAreKept
<1>2. QED
  BY FilesAreInvariant, <1>1, PTL

(* And a finished recording stays where the close trigger was told it is    *)
(* until the clean-up has found it more than RETENTION days old.            *)
THEOREM FinishedFilesAreNotLost ==
  ASSUME ~LinkMayFallSilent
  PROVE  Spec => []FinishedFilesStay
<1>1. FilesInv => FinishedFilesStay
  BY DEF FilesInv, Recorded, IsRecorded, FinishedFilesStay
<1>2. QED
  BY FilesAreInvariant, <1>1, PTL

-----------------------------------------------------------------------------
(* What keeps calls from sharing a path.                                    *)

LEMMA NextNamed == BaseInv /\ Named /\ [Next]_vars => Named'
<1> SUFFICES ASSUME BaseInv, Named, [Next]_vars PROVE Named'
  OBVIOUS
<1>1. SpoolTypes /\ TreeIsWhole /\ Openers
  BY DEF BaseInv
<1>2. CASE UNCHANGED calls
  BY <1>2, NamedStays DEF PathsStay
<1>3. ASSUME NEW c \in Calls, NEW is, NEW by, NEW yes, is # "new", calls[c].is # "new",
             CallIs(c, is, calls[c].path, by, yes)
      PROVE  Named'
  <2>1. PathsStay /\ calls'[c].is = is /\ \A d \in Calls \ {c} : calls'[d] = calls[d]
    BY <1>3, CallChange
  <2>2. \A d \in Calls : calls'[d].is = "new" <=> calls[d].is = "new"
    BY <1>3, <2>1
  <2>3. QED
    BY <2>1, <2>2, NamedStays
<1>4. ASSUME NEW p \in Recorders, NEW c \in Calls, NewCall(p, c)
      PROVE  Named'
  BY <1>4, NewCallNamed
<1>5. ASSUME NEW p \in Recorders, Open(p)
      PROVE  Named'
  <2> DEFINE c == rec[p].call
  <2>1. c \in Calls /\ calls[c].is = "opening"
    BY <1>1, <1>5, WayFacts DEF Open
  <2>2. \/ CallIs(c, "open", calls[c].path, calls[c].by, calls[c].disturbed)
        \/ CallIs(c, "failed", calls[c].path, calls[c].by, rec[p].disturbed)
    BY <1>1, <1>5, <2>1, OpenEffect
  <2> HIDE DEF c
  <2>3. QED
    BY <1>3, <2>1, <2>2
<1>6. ASSUME NEW p \in Recorders, NEW c \in Calls, Close(p, c)
      PROVE  Named'
  <2>1. /\ calls[c].is = "open"
        /\ \/ CallIs(c, "kept", calls[c].path, calls[c].by, calls[c].disturbed)
           \/ CallIs(c, "erased", calls[c].path, calls[c].by, calls[c].disturbed)
    BY <1>1, <1>6, CloseEffect
  <2>2. QED
    BY <1>3, <2>1
<1>7. ASSUME DeleteFile
      PROVE  Named'
  <2>1. \A c \in Calls : /\ calls'[c].path = calls[c].path
                         /\ calls'[c].is = "new" <=> calls[c].is = "new"
    BY <1>1, <1>7, DeleteFileEffect DEF Expires
  <2>2. QED
    BY <2>1, NamedStays DEF PathsStay
<1>8. QED
  BY <1>2, <1>4, <1>5, <1>6, <1>7
     DEF Next, Opening, Clean, vars, Stat, Mkdir, MkdirFails, NextDay, FindFiles, LookAtFile,
         FindDirs, DeleteDir, CleanedUp

(* The template names the Call-ID (%i) and sanitising keeps Call-IDs apart. *)
TellsCallsApart ==
  /\ \E k \in DOMAIN Template : \E n \in DOMAIN Template[k] : Template[k][n] = "id"
  /\ \A c, d \in Calls : c # d => Sanitised[c.id] # Sanitised[d.id]

LEMMA ApartAreDistinct ==
  ASSUME TellsCallsApart, Named, NEW c \in Calls, NEW d \in Calls, c # d, calls[c].is # "new"
  PROVE  calls[c].path # calls[d].path
<1>1. PICK x \in 1 .. Days : calls[c].path = Expand(c, x)
  BY DEF Named, PathIsNamed
<1>2. CASE calls[d].is = "new"
  <2>1. calls[d].path = Root
    BY <1>2 DEF Named, PathIsNamed
  <2>2. QED
    BY <1>1, <2>1, ExpandFacts
<1>3. CASE calls[d].is # "new"
  <2>1. PICK y \in 1 .. Days : calls[d].path = Expand(d, y)
    BY <1>3 DEF Named, PathIsNamed
  <2>2. PICK k \in DOMAIN Template : \E n \in DOMAIN Template[k] : Template[k][n] = "id"
    BY DEF TellsCallsApart
  <2>3. PICK n \in DOMAIN Template[k] : Template[k][n] = "id"
    BY <2>2
  <2>4. \A e \in Calls : \A z : Expand(e, z)[k][n] = Sanitised[e.id]
    BY <2>2, <2>3 DEF Expand, Field
  <2>5. Sanitised[c.id] # Sanitised[d.id]
    BY DEF TellsCallsApart
  <2>6. QED
    BY <1>1, <2>1, <2>4, <2>5
<1>4. QED
  BY <1>2, <1>3

(* Two calls never write to one file if the template names the Call-ID and  *)
(* asciisan, through which expand_dir_template puts it into the path, keeps *)
(* the Call-IDs apart.                                                      *)
THEOREM CallIdsKeepPathsApart ==
  ASSUME TellsCallsApart
  PROVE  Spec => []PathsAreDistinct
<1>1. Init => Named
  BY DEF Init, Named, PathIsNamed
<1>2. BaseInv /\ Named /\ [Next]_vars => Named'
  BY NextNamed
<1>3. Named => PathsAreDistinct
  BY ApartAreDistinct DEF PathsAreDistinct
<1>4. QED
  BY BaseIsInvariant, <1>1, <1>2, <1>3, PTL DEF Spec

(* Then every call being recorded has its file and every finished one keeps *)
(* it until it expires or is erased, without exception.                     *)
NothingIsLost == \A c \in Calls : calls[c].is \in {"open", "kept"} => HasItsFile(c)

THEOREM CallIdsKeepEveryRecording ==
  ASSUME ~LinkMayFallSilent, TellsCallsApart
  PROVE  Spec => []NothingIsLost
<1>1. FilesInv => NothingIsLost
  <2> SUFFICES ASSUME FilesInv, NEW c \in Calls, calls[c].is \in {"open", "kept"}
               PROVE  HasItsFile(c)
    BY DEF NothingIsLost
  <2>1. Named /\ IsRecorded(c)
    BY DEF FilesInv, Recorded
  <2>2. ~SharesPath(c)
    BY <2>1, ApartAreDistinct DEF SharesPath
  <2>3. QED
    BY <2>1, <2>2 DEF IsRecorded
<1>2. QED
  BY FilesAreInvariant, <1>1, PTL
=============================================================================
