------------------------------ MODULE Processes ------------------------------
(****************************************************************************)
(* The processes of one pcapsipdump: the launcher, which forks the daemon   *)
(* and writes its pid file (src/pcapsipdump.cpp, main); the process that    *)
(* runs the packet loop; and the children that Trigger::trigger forks to    *)
(* run the -t programs when a call is added or its file is closed           *)
(* (src/trigger.cpp).  fork copies the whole process, so every process has  *)
(* its own copy of the call table, of which only the files matter here.     *)
(* The packets themselves are left to PacketLoop.                           *)
(****************************************************************************)
EXTENDS Integers, Sequences, FiniteSets

CONSTANTS
  NULL,
  Pids,             \* the process ids there are: a table slot or RLIMIT_NPROC
  Launcher,         \* the process a user starts
  Files,            \* the calls of the capture, each of which is added once
  Options,          \* the -t options: [when, action, runs]
  Daemonise,        \* opt_fork (no -f)
  PidFileWritable,  \* whether the -P file can be opened
  EraseNonT38,      \* ct->erase_non_t38 (-R t38)
  ForkCanFail       \* whether fork can fail with process ids to spare

ASSUME PidsAssumption == Launcher \in Pids /\ NULL \notin Pids

(* runs tells whether execv finds a program it can run.  A trigger with any *)
(* other condition ends the program while it reads its options.             *)
Actions == {"mv", "sh", "exec", "unrecognized"}

ASSUME OptionsAssumption ==
  /\ Options \in Seq([when : {"open", "close"}, action : Actions, runs : BOOLEAN])
  /\ Daemonise \in BOOLEAN
  /\ PidFileWritable \in BOOLEAN
  /\ EraseNonT38 \in BOOLEAN
  /\ ForkCanFail \in BOOLEAN

(* One trigger, by its place among the options, for one file.              *)
Firing == [on : {"open", "close"}, file : Files, nth : DOMAIN Options]

(* What Trigger::trigger has to do for a file: Trigger::add has put every   *)
(* option whose action it recognizes on the list of its condition.          *)
Firings(when, f) ==
  {e \in Firing : /\ e.on = when
                  /\ e.file = f
                  /\ Options[e.nth].when = when
                  /\ Options[e.nth].action # "unrecognized"}

(* The lists are walked in the order of the options.                        *)
IsFirst(e, todo) == e \in todo /\ \A d \in todo : e.nth <= d.nth

Runs(e) == Options[e.nth].runs

ASSUME NullAssumption == NULL \notin Firing

(* What a process knows of a call: not seen yet, its file open, added but   *)
(* without a file, its file closed, or closed and erased.                   *)
FileStates == {"unseen", "open", "no file", "closed", "erased"}

(* pc: "daemonise" and "pid file" are the launcher's, "loop", "closing" (in *)
(* do_cleanup), "firing" (in Trigger::trigger) and "waiting" the packet     *)
(* loop's; "child" is a child between fork and execv, "program" the program *)
(* it has become.                                                           *)
Recording == {"loop", "closing", "firing", "waiting"}
Own       == Recording \cup {"daemonise", "pid file", "child"}
PCs       == Own \cup {"program", "zombie", "free"}

Process ==
  [pc     : PCs,
   role   : {"none", "launcher", "daemon", "trigger"},
   parent : Pids \cup {NULL},      \* NULL: init, which reaps at once
   todo   : SUBSET Firing,         \* triggers still to be forked for
   job    : Firing \cup {NULL},    \* the trigger a child was forked for
   ending : SUBSET Files,          \* files do_cleanup still has to close
   eof    : BOOLEAN,
   files  : [Files -> FileStates]]

Free ==
  [pc |-> "free", role |-> "none", parent |-> NULL, todo |-> {},
   job |-> NULL, ending |-> {}, eof |-> FALSE, files |-> [f \in Files |-> "unseen"]]

VARIABLES
  proc,      \* the process table
  pid_file,  \* what the pid file holds: NULL for none, -1 after a failed fork
  status,    \* how the launcher has exited
  ran,       \* how often each trigger's program has been started
  lost       \* triggers whose fork failed or whose child was killed before execv

vars == <<proc, pid_file, status, ran, lost>>

Init ==
  /\ proc = [p \in Pids |->
               IF p # Launcher THEN Free
               ELSE [Free EXCEPT !.pc   = IF Daemonise THEN "daemonise" ELSE "loop",
                                 !.role = "launcher"]]
  /\ pid_file = NULL
  /\ status = "running"
  /\ ran = [e \in Firing |-> 0]
  /\ lost = {}

-----------------------------------------------------------------------------
(* The operating system: a process that exits stays a zombie until its      *)
(* parent waits for it; its own children become init's.                     *)
Exited(p, table) ==
  [q \in Pids |->
     CASE q = p /\ table[p].parent # NULL ->
            [Free EXCEPT !.pc = "zombie", !.role = table[p].role,
                         !.parent = table[p].parent]
       [] q = p /\ table[p].parent = NULL -> Free
       [] q # p /\ table[q].parent = p ->
            IF table[q].pc = "zombie" THEN Free
                                      ELSE [table[q] EXCEPT !.parent = NULL]
       [] OTHER -> table[q]]

Exit(p, how, table) ==
  /\ proc' = Exited(p, table)
  /\ status' = IF proc[p].role = "launcher" THEN how ELSE status

ForkFails == ForkCanFail \/ \A q \in Pids : proc[q].pc # "free"

Children(p) == {q \in Pids : proc[q].parent = p}

-----------------------------------------------------------------------------
(* Daemonising: the parent writes the pid that fork has returned and exits; *)
(* the child goes on to the packet loop.                                    *)
ForkDaemon(p, q) ==
  /\ proc[p].pc = "daemonise"
  /\ proc[q].pc = "free"
  /\ proc' = [proc EXCEPT
                ![p].pc = "pid file",
                ![q]    = [proc[p] EXCEPT !.pc = "loop", !.role = "daemon",
                                          !.parent = p]]
  /\ UNCHANGED <<pid_file, status, ran, lost>>

(* A failed fork returns -1, which is not 0: the parent's branch again.     *)
ForkDaemonFails(p) ==
  /\ proc[p].pc = "daemonise"
  /\ ForkFails
  /\ proc' = [proc EXCEPT ![p].pc = "pid file"]
  /\ UNCHANGED <<pid_file, status, ran, lost>>

WritePidFileNoExit(p) ==  \* mutant: no exit(0)
  /\ proc[p].pc = "pid file"
  /\ PidFileWritable
  /\ pid_file' = CHOOSE q \in Children(p) : TRUE
  /\ proc' = [proc EXCEPT ![p].pc = "loop"]
  /\ UNCHANGED <<status, ran, lost>>

WritePidFileOfParent(p) ==  \* mutant: getpid() for fork's result
  /\ proc[p].pc = "pid file"
  /\ PidFileWritable
  /\ pid_file' = p
  /\ Exit(p, "success", proc)
  /\ UNCHANGED <<ran, lost>>

WritePidFile(p) ==
  /\ proc[p].pc = "pid file"
  /\ PidFileWritable
  /\ pid_file' = IF Children(p) = {} THEN -1 ELSE CHOOSE q \in Children(p) : TRUE
  /\ Exit(p, "success", proc)
  /\ UNCHANGED <<ran, lost>>

CannotWritePidFile(p) ==
  /\ proc[p].pc = "pid file"
  /\ ~PidFileWritable
  /\ Exit(p, "failure", proc)
  /\ UNCHANGED <<pid_file, ran, lost>>

-----------------------------------------------------------------------------
(* The packet loop, as far as it concerns files.  Where a process goes on   *)
(* once a step is done: it forks for the triggers it still has, closes the  *)
(* files do_cleanup still has, and returns to where do_cleanup was called.  *)
OnwardNoNext(r) ==  \* mutant: return from do_cleanup after the first file
  [r EXCEPT !.pc = IF r.todo # {} THEN "firing" ELSE IF r.eof THEN "waiting" ELSE "loop"]

Onward(r) ==
  [r EXCEPT !.pc = IF r.todo # {}        THEN "firing"
                   ELSE IF r.ending # {} THEN "closing"
                   ELSE IF r.eof         THEN "waiting"
                   ELSE "loop"]

Step(p, r) ==
  /\ proc' = [proc EXCEPT ![p] = Onward(r)]
  /\ UNCHANGED <<pid_file, status, ran, lost>>

(* A call is added, with a file or without, and the open triggers fire.     *)
AddCall(p, f) ==
  /\ proc[p].pc = "loop"
  /\ proc[p].files[f] = "unseen"
  /\ \E s \in {"open", "no file"} :
       Step(p, [proc[p] EXCEPT !.files[f] = s, !.todo = Firings("open", f)])

OpenFiles(p) == {f \in Files : proc[p].files[f] = "open"}

DoCleanup(p) ==
  /\ proc[p].pc = "loop"
  /\ \E K \in SUBSET OpenFiles(p) \ {{}} :
       Step(p, [proc[p] EXCEPT !.ending = K])

CloseFile(p, f) ==
  /\ proc[p].pc = "closing"
  /\ f \in proc[p].ending
  /\ LET r == [proc[p] EXCEPT !.ending = @ \ {f}]
     IN  \/ Step(p, [r EXCEPT !.files[f] = "closed", !.todo = Firings("close", f)])
         \/ EraseNonT38 /\ Step(p, [r EXCEPT !.files[f] = "erased"])

EndOfCapture(p) ==
  /\ proc[p].pc = "loop"
  /\ Step(p, [proc[p] EXCEPT !.eof = TRUE, !.ending = OpenFiles(p)])

-----------------------------------------------------------------------------
(* Trigger::trigger: the parent goes on to the next trigger; the child, a   *)
(* copy of it, builds its arguments and execs the one it was forked for.    *)
Child(p, e) ==
  [proc[p] EXCEPT !.pc = "child", !.role = "trigger", !.parent = p,
                  !.todo = @ \ {e}, !.job = e]

ForkTriggerTwice(p, q) ==  \* mutant: the iterator is not advanced
  /\ proc[p].pc = "firing"
  /\ proc[q].pc = "free"
  /\ \E e \in Firing : /\ IsFirst(e, proc[p].todo)
                       /\ proc' = [proc EXCEPT ![q] = Child(p, e)]
  /\ UNCHANGED <<pid_file, status, ran, lost>>

ForkTrigger(p, q) ==
  /\ proc[p].pc = "firing"
  /\ proc[q].pc = "free"
  /\ \E e \in Firing :
       /\ IsFirst(e, proc[p].todo)
       /\ proc' = [proc EXCEPT ![p] = Onward([proc[p] EXCEPT !.todo = @ \ {e}]),
                               ![q] = Child(p, e)]
  /\ UNCHANGED <<pid_file, status, ran, lost>>

ForkTriggerFailsBreaks(p) ==  \* mutant: break after the warning
  /\ proc[p].pc = "firing"
  /\ ForkFails
  /\ \E e \in Firing :
       /\ IsFirst(e, proc[p].todo)
       /\ proc' = [proc EXCEPT ![p] = Onward([proc[p] EXCEPT !.todo = {}])]
       /\ lost' = lost \cup {e}
  /\ UNCHANGED <<pid_file, status, ran>>

ForkTriggerFailsRetries(p) ==  \* mutant: fork again until it succeeds
  proc[p].pc = "firing" /\ ForkFails /\ UNCHANGED vars

ForkTriggerFails(p) ==
  /\ proc[p].pc = "firing"
  /\ ForkFails
  /\ \E e \in Firing :
       /\ IsFirst(e, proc[p].todo)
       /\ proc' = [proc EXCEPT ![p] = Onward([proc[p] EXCEPT !.todo = @ \ {e}])]
       /\ lost' = lost \cup {e}
  /\ UNCHANGED <<pid_file, status, ran>>

Exec(p) ==
  /\ proc[p].pc = "child"
  /\ Runs(proc[p].job)
  /\ proc' = [proc EXCEPT ![p] = [Free EXCEPT !.pc = "program", !.role = "trigger",
                                              !.parent = proc[p].parent]]
  /\ ran' = [ran EXCEPT ![proc[p].job] = @ + 1]
  /\ UNCHANGED <<pid_file, status, lost>>

(* execv returns: after its warning the child is in the parent's loop, with *)
(* the parent's table, triggers and capture.                                *)
ExecFails(p) ==
  /\ proc[p].pc = "child"
  /\ ~Runs(proc[p].job)
  /\ Step(p, [proc[p] EXCEPT !.job = NULL])

(* A trigger's program runs to its end.                                     *)
ProgramEnds(p) ==
  /\ proc[p].pc = "program"
  /\ Exit(p, "program", proc)
  /\ UNCHANGED <<pid_file, ran, lost>>

(* One waitpid(-1): it returns with the first zombie there is, or at once   *)
(* when there are no children; then main returns 0.                         *)
WaitWithoutEchild(p) ==  \* mutant: waitpid repeated until it returns a pid
  /\ proc[p].pc = "waiting"
  /\ \E q \in Children(p) : proc[q].pc = "zombie"
                           /\ Exit(p, "success", [proc EXCEPT ![q] = Free])
  /\ UNCHANGED <<pid_file, ran, lost>>

Wait(p) ==
  /\ proc[p].pc = "waiting"
  /\ \/ Children(p) = {} /\ Exit(p, "success", proc)
     \/ \E q \in Children(p) : /\ proc[q].pc = "zombie"
                               /\ Exit(p, "success", [proc EXCEPT ![q] = Free])
  /\ UNCHANGED <<pid_file, ran, lost>>

(* SIGINT or SIGTERM: do_cleanup(0) closes nothing, and the process exits.  *)
(* A child before execv has its parent's handlers; a program has not.       *)
Signal(p) ==
  /\ proc[p].pc \in Own
  /\ Exit(p, "signalled", proc)
  /\ lost' = IF proc[p].pc = "child" THEN lost \cup {proc[p].job} ELSE lost
  /\ UNCHANGED <<pid_file, ran>>

-----------------------------------------------------------------------------
(* Every process has ended.                                                 *)
AllEnded == \A p \in Pids : proc[p].pc = "free"
Ended == AllEnded /\ UNCHANGED vars

(* What a process does by itself, whatever the traffic.                     *)
Progress(p) ==
  \/ \E q \in Pids : ForkDaemon(p, q)
  \/ ForkDaemonFails(p)
  \/ WritePidFile(p)
  \/ CannotWritePidFile(p)
  \/ \E f \in Files : CloseFile(p, f)
  \/ \E q \in Pids : ForkTrigger(p, q)
  \/ ForkTriggerFails(p)
  \/ Exec(p)
  \/ ExecFails(p)
  \/ ProgramEnds(p)
  \/ Wait(p)

Traffic(p) ==
  \/ \E f \in Files : AddCall(p, f)
  \/ DoCleanup(p)

Next ==
  \/ \E p \in Pids : Progress(p) \/ Traffic(p) \/ EndOfCapture(p) \/ Signal(p)
  \/ Ended

Spec == Init /\ [][Next]_vars

(* The scheduler runs every process; the programs of the triggers end.      *)
FairSpec == Spec /\ \A p \in Pids : WF_vars(Progress(p))

(* A capture file comes to its end as well.                                 *)
ReplaySpec == FairSpec /\ \A p \in Pids : WF_vars(EndOfCapture(p))
-----------------------------------------------------------------------------
(* Properties.                                                              *)

(* Every variable has the values its type allows; a process is back in the  *)
(* packet loop, or waiting at its end, only with no file left to close and  *)
(* no trigger to fork for.                                                  *)
TypeOK ==
  /\ proc \in [Pids -> Process]
  /\ pid_file \in Pids \cup {NULL, -1}
  /\ status \in {"running", "success", "failure", "signalled"}
  /\ ran \in [Firing -> Nat]
  /\ lost \subseteq Firing
  /\ \A p \in Pids :
       /\ proc[p].pc \in {"daemonise", "loop", "waiting"} =>
            proc[p].ending = {} /\ proc[p].todo = {}
       /\ proc[p].pc = "child" <=> proc[p].job # NULL
       /\ proc[p].pc = "program" => proc[p].role = "trigger"

(* Only one process ever runs the packet loop, writes the files and forks   *)
(* for triggers, as long as every trigger's program can be run: the parent  *)
(* of the daemon is gone before it gets there, and a child becomes its      *)
(* program (pcapsipdump.cpp 436-453, trigger.cpp 83-108).                   *)
OneRecorder ==
  \A p, q \in Pids :
    proc[p].pc \in Recording /\ proc[q].pc \in Recording => p = q

(* Once the launcher has reported success, the pid file names the daemon    *)
(* for as long as it lives, and never the process of a trigger: the init    *)
(* script stops whatever it names (contrib/sysvinit/pcapsipdump.debian.init *)
(* 37-38).                                                                  *)
PidFileNamesTheDaemon ==
  status = "success" /\ Daemonise =>
    \A p \in Pids : /\ proc[p].role = "daemon" => pid_file = p
                    /\ proc[p].role = "trigger" => pid_file # p

(* No trigger's program is started twice for one file, whatever is forked,  *)
(* refused or killed meanwhile.                                             *)
TriggersRunAtMostOnce == \A e \in Firing : ran[e] <= 1

(* When the recorder has closed all files and waits, every trigger of every *)
(* call it has added and every file it has closed has run, has a child on   *)
(* its way to it, or was lost to a failed fork or a signal; and no other    *)
(* has run.                                                                 *)
Due(p, e) ==
  /\ e \in Firings(e.on, e.file)
  /\ IF e.on = "open" THEN proc[p].files[e.file] # "unseen"
                      ELSE proc[p].files[e.file] = "closed"

Pending(e) == \E q \in Pids : proc[q].job = e

EveryTriggerIsAccountedFor ==
  \A p \in Pids : proc[p].pc = "waiting" =>
    \A e \in Firing : Due(p, e) <=> ran[e] > 0 \/ e \in lost \/ Pending(e)

(* The final waitpid does not hold up the exit for ever: no child, a child  *)
(* long dead, killed or still running, and main returns.                    *)
WaitingEnds == \A p \in Pids : (proc[p].pc = "waiting") ~> (proc[p].pc # "waiting")

(* When a capture file is replayed, every process ends in time, triggers    *)
(* and all: nobody waits for anybody for ever.                              *)
ReplayEnds == <>[]AllEnded

-----------------------------------------------------------------------------
(* What the documentation says.                                             *)

(* "fork and exec a program" (README.md 259): the child of a trigger never  *)
(* does anything else, in particular not its parent's work.                 *)
ChildrenOnlyExec ==
  \A p \in Pids : proc[p].role = "trigger" => proc[p].pc \notin Recording

(* "Returns 0 on success ..., and non-zero when the arguments are invalid   *)
(* or the capture cannot be started" (man/pcapsipdump.8 EXIT STATUS).       *)
Daemons == {p \in Pids : proc[p].role = "daemon"}

ExitStatusTellsIfStarted ==
  [][/\ status = "running" /\ status' = "success" /\ Daemonise => Daemons # {}
     /\ status = "running" /\ status' = "failure" => Daemons = {}]_vars

(* "wait for forked processes" (pcapsipdump.cpp 737): main does not return  *)
(* while a process it has forked is still running.                          *)
ForkedProcessesAreWaitedFor ==
  [][\A p \in Pids : proc[p].pc = "waiting" /\ proc'[p].pc # "waiting" =>
       \A q \in Children(p) : proc[q].pc = "zombie"]_vars

(* -t runs "something when a capture file is opened or closed"              *)
(* (man/pcapsipdump.8 126): what it runs is not refused for the sake of     *)
(* programs that have ended long since.                                     *)
DeadChildrenDoNotBlockTriggers ==
  [][lost' # lost /\ (\E p \in Pids : proc[p].pc = "firing" /\ proc'[p] # proc[p]) =>
       \A q \in Pids : proc[q].pc # "zombie"]_vars
=============================================================================
