-------------------------------- MODULE Spool --------------------------------
(****************************************************************************)
(* The spool directory: recorders that make directories and files in it     *)
(* (expand_dir_template and mkdir_p in src/pcapsipdump_lib.cpp, their use   *)
(* in main), the file name that do_cleanup erases, and the daily clean-up   *)
(* of src/systemd/pcapsipdump-cleanup.service beside them.  Every system    *)
(* call is a step of its own.                                               *)
(*                                                                          *)
(* A path is a sequence of components below the spool directory, which is   *)
(* << >> and always there; a component is a sequence of fields.             *)
(****************************************************************************)
EXTENDS Integers, Sequences, FiniteSets

CONSTANTS
  NULL,
  Recorders,        \* the pcapsipdump processes that share the spool
  Calls,            \* [from, id, long]; long: its path exceeds fn_pcap
  Sanitised,        \* asciisan: what becomes of each name and Call-ID
  Template,         \* the components of -d, each a sequence of fields
  Days,             \* the days that have a name of their own
  Retention,        \* RETENTION
  T38Only,          \* -R t38
  LinkMayFallSilent

ASSUME SpoolAssumption ==
  /\ Days \in Nat \ {0}
  /\ Retention \in Nat
  /\ T38Only \in BOOLEAN
  /\ LinkMayFallSilent \in BOOLEAN
  /\ NULL \notin Calls \cup Recorders
  /\ Template \in Seq(Seq({"day", "from", "id"})) /\ Template # << >>

VARIABLES
  day,
  dirs,     \* the directories
  files,    \* the files: which call opened them last, and their age in days
  calls,    \* what has become of each call's file
  rec,      \* where each recorder is in opening a file
  cleaner   \* where the daily clean-up is

vars == <<day, dirs, files, calls, rec, cleaner>>

Root == << >>
Parent(path) == SubSeq(path, 1, Len(path) - 1)

(* expand_dir_template: names and Call-IDs go in sanitised.                 *)
Field(c, d, f) ==
  CASE f = "day"  -> d
    [] f = "from" -> Sanitised[c.from]
    [] f = "id"   -> Sanitised[c.id]

Expand(c, d) ==
  [k \in DOMAIN Template |-> [n \in DOMAIN Template[k] |-> Field(c, d, Template[k][n])]]

(* fn_pcap: a long path loses the end of its last component.                *)
FnPcap(c, path) == IF c.long THEN [path EXCEPT ![Len(path)] = << >>] ELSE path

AtRest == [pc |-> "loop", call |-> NULL, path |-> Root, level |-> 0, disturbed |-> FALSE]

Init ==
  /\ day = 1
  /\ dirs = {Root}
  /\ files = << >>
  /\ calls = [c \in Calls |-> [is |-> "new", path |-> Root, by |-> NULL, disturbed |-> FALSE]]
  /\ rec = [p \in Recorders |-> AtRest]
  /\ cleaner = [pc |-> "idle", due |-> FALSE, todo |-> {}, doomed |-> NULL]

Create(path, c) ==
  [x \in DOMAIN files \cup {path} |-> IF x = path THEN [call |-> c, age |-> 0] ELSE files[x]]
Unlink(path) == [x \in DOMAIN files \ {path} |-> files[x]]

IsEmpty(d) == \A x \in dirs \cup DOMAIN files : x # Root => Parent(x) # d

-----------------------------------------------------------------------------
(* A recorder opens a file.                                                 *)

(* Every other recorder that is on its way to open a file may miss or meet  *)
(* a directory it has looked at.                                            *)
Disturb(p) ==
  [q \in Recorders |-> IF q # p /\ rec[q].pc # "loop"
                       THEN [rec[q] EXCEPT !.disturbed = TRUE] ELSE rec[q]]

NewCall(p, c) ==
  LET path == Expand(c, day)
  IN  /\ rec[p].pc = "loop"
      /\ calls[c].is = "new"
      /\ calls' = [calls EXCEPT ![c].is = "opening", ![c].path = path, ![c].by = p]
      /\ rec' = [rec EXCEPT ![p] =
                   [AtRest EXCEPT !.pc = IF Len(path) > 1 THEN "stat" ELSE "open",
                                  !.call = c, !.path = path, !.level = Len(path) - 1]]
      /\ UNCHANGED <<day, dirs, files, cleaner>>

Prefix(p) == SubSeq(rec[p].path, 1, rec[p].level)
AtLastLevel(p) == rec[p].level = Len(rec[p].path) - 1

(* mkdir_p on the way in: stat this level, and its parent if it is missing. *)
Stat(p) ==
  LET r == rec[p]
  IN  /\ r.pc = "stat"
      /\ rec' = [rec EXCEPT ![p] =
           CASE Prefix(p) \notin dirs -> [r EXCEPT !.level = @ - 1]
             [] Prefix(p) \in dirs /\ AtLastLevel(p) -> [r EXCEPT !.pc = "open"]
             [] OTHER -> [r EXCEPT !.pc = "mkdir", !.level = @ + 1]]
      /\ UNCHANGED <<day, dirs, files, calls, cleaner>>

(* And on the way out: make it, and stop at the first failure, be it EEXIST *)
(* or ENOENT.  main does not look at the result.                            *)
OutwardOnce(p) ==  \* mutant: the recursion makes one level
  "open"

Outward(p) == IF AtLastLevel(p) THEN "open" ELSE "mkdir"

Mkdir(p) ==
  /\ rec[p].pc = "mkdir"
  /\ Parent(Prefix(p)) \in dirs
  /\ Prefix(p) \notin dirs
  /\ dirs' = dirs \cup {Prefix(p)}
  /\ rec' = [Disturb(p) EXCEPT ![p].pc = Outward(p), ![p].level = @ + 1]
  /\ UNCHANGED <<day, files, calls, cleaner>>

MkdirFails(p) ==
  /\ rec[p].pc = "mkdir"
  /\ Parent(Prefix(p)) \notin dirs \/ Prefix(p) \in dirs
  /\ rec' = [rec EXCEPT ![p].pc = "open"]
  /\ UNCHANGED <<day, dirs, files, calls, cleaner>>

(* pcap_dump_open truncates what is there.                                  *)
Open(p) ==
  LET r == rec[p]
  IN  /\ r.pc = "open"
      /\ IF Parent(r.path) \in dirs
         THEN /\ files' = Create(r.path, r.call)
              /\ calls' = [calls EXCEPT ![r.call].is = "open"]
         ELSE /\ calls' = [calls EXCEPT ![r.call].is = "failed",
                                        ![r.call].disturbed = r.disturbed]
              /\ UNCHANGED files
      /\ rec' = [rec EXCEPT ![p] = AtRest]
      /\ UNCHANGED <<day, dirs, cleaner>>

(* do_cleanup: the dumper is closed, and the file stays or is erased by the *)
(* name the slot has kept of it.                                            *)
Close(p, c) ==
  /\ rec[p].pc = "loop"
  /\ calls[c].is = "open"
  /\ calls[c].by = p
  /\ \/ /\ calls' = [calls EXCEPT ![c].is = "kept"]
        /\ UNCHANGED files
     \/ /\ T38Only
        /\ calls' = [calls EXCEPT ![c].is = "erased"]
        /\ files' = Unlink(FnPcap(c, calls[c].path))
  /\ UNCHANGED <<day, dirs, rec, cleaner>>

-----------------------------------------------------------------------------
(* The daily clean-up.  What is being recorded is written to at least once  *)
(* a day, or its call ends, unless the link falls silent.                   *)
IsOpen(path) == \E c \in Calls : calls[c].is = "open" /\ calls[c].path = path

Older(n) == IF n > Retention THEN n ELSE n + 1

NextDay ==
  /\ cleaner.pc = "idle"
  /\ ~cleaner.due
  /\ day' = IF day < Days THEN day + 1 ELSE day
  /\ \E silent \in {FALSE, LinkMayFallSilent} :
       files' = [x \in DOMAIN files |->
                   [files[x] EXCEPT !.age = IF IsOpen(x) /\ ~silent THEN 0 ELSE Older(@)]]
  /\ cleaner' = [cleaner EXCEPT !.due = TRUE]
  /\ UNCHANGED <<dirs, calls, rec>>

(* find -name "*.pcap" -mtime +RETENTION -delete: each file is looked at    *)
(* and then unlinked.                                                       *)
FindFiles ==
  /\ cleaner.due
  /\ cleaner' = [pc |-> "files", due |-> FALSE, todo |-> DOMAIN files, doomed |-> NULL]
  /\ UNCHANGED <<day, dirs, files, calls, rec>>

IsOldReversed(path) ==  \* mutant: -mtime -RETENTION
  files[path].age <= Retention

IsOld(path) == files[path].age > Retention

LookAtFile(path) ==
  /\ cleaner.pc = "files"
  /\ path \in cleaner.todo
  /\ cleaner' =
       IF path \in DOMAIN files /\ IsOld(path)
       THEN [cleaner EXCEPT !.pc = "unlink", !.todo = @ \ {path}, !.doomed = path]
       ELSE [cleaner EXCEPT !.todo = @ \ {path}]
  /\ UNCHANGED <<day, dirs, files, calls, rec>>

Expires(c) ==
  /\ calls[c].is = "kept"
  /\ cleaner.doomed \in DOMAIN files
  /\ files[cleaner.doomed].call = c
  /\ files[cleaner.doomed].age > Retention

DeleteFile ==
  /\ cleaner.pc = "unlink"
  /\ files' = Unlink(cleaner.doomed)
  /\ calls' = [c \in Calls |-> IF Expires(c) THEN [calls[c] EXCEPT !.is = "expired"]
                                            ELSE calls[c]]
  /\ cleaner' = [cleaner EXCEPT !.pc = "files", !.doomed = NULL]
  /\ UNCHANGED <<day, dirs, rec>>

(* find -mindepth 1 -type d -empty -delete: children before parents, and    *)
(* rmdir does nothing to a directory that has filled up again.              *)
SearchedTopOnly ==  \* mutant: -maxdepth 1
  {d \in dirs : Len(d) = 1}

Searched == dirs \ {Root}

FindDirs ==
  /\ cleaner.pc = "files"
  /\ cleaner.todo = {}
  /\ cleaner' = [cleaner EXCEPT !.pc = "dirs", !.todo = Searched]
  /\ UNCHANGED <<day, dirs, files, calls, rec>>

IsBelow(x, d) == Len(x) > Len(d) /\ SubSeq(x, 1, Len(d)) = d

RemovableUnchecked(d) ==  \* mutant: rm -r for rmdir
  TRUE

Removable(d) == IsEmpty(d)

DeleteDir(d) ==
  /\ cleaner.pc = "dirs"
  /\ d \in cleaner.todo
  /\ \A x \in cleaner.todo : ~IsBelow(x, d)
  /\ cleaner' = [cleaner EXCEPT !.todo = @ \ {d}]
  /\ IF d \in dirs /\ Removable(d)
     THEN dirs' = dirs \ {d} /\ rec' = Disturb(NULL)
     ELSE UNCHANGED <<dirs, rec>>
  /\ UNCHANGED <<day, files, calls>>

CleanedUp ==
  /\ cleaner.pc = "dirs"
  /\ cleaner.todo = {}
  /\ cleaner' = [cleaner EXCEPT !.pc = "idle"]
  /\ UNCHANGED <<day, dirs, files, calls, rec>>

Clean ==
  \/ FindFiles
  \/ \E path \in cleaner.todo : LookAtFile(path)
  \/ DeleteFile
  \/ FindDirs
  \/ \E d \in cleaner.todo : DeleteDir(d)
  \/ CleanedUp

Opening(p) == Stat(p) \/ Mkdir(p) \/ MkdirFails(p) \/ Open(p)

Next ==
  \/ \E p \in Recorders : \/ Opening(p)
                          \/ \E c \in Calls : NewCall(p, c) \/ Close(p, c)
  \/ NextDay
  \/ Clean

Spec == Init /\ [][Next]_vars

(* Recorder and clean-up run on, days pass, and every call ends; that there *)
(* will be another call is not assumed.                                     *)
FairSpec ==
  /\ Spec
  /\ WF_vars(NextDay)
  /\ WF_vars(Clean)
  /\ \A p \in Recorders : WF_vars(Opening(p))
  /\ \A p \in Recorders, c \in Calls : WF_vars(Close(p, c))

-----------------------------------------------------------------------------
(* Properties.                                                              *)

(* The directory tree is a tree: what is in it lies in a directory that is  *)
(* still there, whatever mkdir, rmdir and fopen do between each other.      *)
TreeIsWhole ==
  /\ Root \in dirs
  /\ \A x \in (dirs \cup DOMAIN files) \ {Root} : Parent(x) \in dirs

SharesPath(c) == \E d \in Calls \ {c} : calls[d].path = calls[c].path
HasItsFile(c) == calls[c].path \in DOMAIN files /\ files[calls[c].path].call = c

(* The clean-up never takes the file of a call that is still being recorded *)
(* away, nor does the end of another call, unless both have one path.       *)
OpenFilesAreKept ==
  \A c \in Calls : calls[c].is = "open" /\ ~SharesPath(c) => HasItsFile(c)

(* A finished recording stays where the close trigger was told it is until  *)
(* RETENTION days have passed since it was last written, or another call is *)
(* given its path.                                                          *)
FinishedFilesStay ==
  \A c \in Calls : calls[c].is = "kept" /\ ~SharesPath(c) => HasItsFile(c)

(* mkdir_p makes every missing level: a file fails to open only if another  *)
(* process has made or removed a directory between the first stat and the   *)
(* open.                                                                    *)
OpenFailsOnlyIfDisturbed ==
  \A c \in Calls : calls[c].is = "failed" => calls[c].disturbed

(* "Daily cleanup of old pcapsipdump captures" (pcapsipdump-cleanup.timer): *)
(* once calls stop coming, the spool directory becomes and stays empty,     *)
(* directories of every level included.                                     *)
SpoolEmpties == <>[](files = << >> /\ dirs = {Root})

(* "equivalent of mkdir -p" (pcapsipdump_lib.cpp 16): the directories a     *)
(* file needs are there when it is opened.                                  *)
EveryFileOpens == \A c \in Calls : calls[c].is # "failed"

(* "with -R t38 a call that never carried T.38 has its file unlinked"       *)
(* (ARCHITECTURE.md 104-105).                                               *)
ErasedMeansGone == \A c \in Calls : calls[c].is = "erased" => ~HasItsFile(c)

(* Two calls never write to one file.                                       *)
PathsAreDistinct ==
  \A c, d \in Calls :
    calls[c].is = "open" /\ calls[d].is = "open" /\ c # d => calls[c].path # calls[d].path
=============================================================================
