--------------------------- MODULE ProcessesProofs ---------------------------
(****************************************************************************)
(* Proofs, for any number of process ids, calls and triggers: only one      *)
(* process records, every trigger runs at most once and is accounted for,   *)
(* and the pid file names the daemon.  All rest on every trigger's program  *)
(* being there: a child whose execv fails goes on as a second recorder.     *)
(****************************************************************************)
EXTENDS Processes, TLAPS

(* Every program that a trigger names can be run.                           *)
AllRun == \A k \in DOMAIN Options : Options[k].runs

(* A process that records, or is about to fork the one that will.           *)
Solo == Recording \cup {"daemonise"}

OneSolo == \A p, q \in Pids : proc[p].pc \in Solo /\ proc[q].pc \in Solo => p = q

IInv == TypeOK /\ (AllRun => OneSolo)

(* What TypeOK says of one process.                                         *)
WellFormed(r) ==
  /\ r \in Process
  /\ r.pc \in {"daemonise", "loop", "waiting"} => r.ending = {} /\ r.todo = {}
  /\ r.pc = "child" <=> r.job # NULL
  /\ r.pc = "program" => r.role = "trigger"

-----------------------------------------------------------------------------
LEMMA FreeWellFormed == WellFormed(Free)
BY DEF WellFormed, Free, Process, PCs, Own, Recording, FileStates

LEMMA OnwardWellFormed ==
  ASSUME NEW r \in Process, r.job = NULL
  PROVE  WellFormed(Onward(r)) /\ Onward(r).pc \in Recording
<1>1. PICK c \in Recording :
        /\ Onward(r) = [r EXCEPT !.pc = c]
        /\ c \in {"loop", "waiting"} => r.ending = {} /\ r.todo = {}
  BY DEF Onward, Recording
<1>2. [r EXCEPT !.pc = c] \in Process
  BY DEF Process, PCs, Own, Recording
<1>3. /\ [r EXCEPT !.pc = c].pc = c /\ [r EXCEPT !.pc = c].job = NULL
      /\ [r EXCEPT !.pc = c].ending = r.ending /\ [r EXCEPT !.pc = c].todo = r.todo
  BY DEF Process
<1>4. c \notin {"daemonise", "child", "program"}
  BY DEF Recording
<1>5. QED
  BY <1>1, <1>2, <1>3, <1>4 DEF WellFormed

(* The parts of TypeOK that are about processes, slot by slot.              *)
LEMMA TypeBySlot ==
  TypeOK <=> /\ proc \in [Pids -> Process]
             /\ \A p \in Pids : WellFormed(proc[p])
             /\ pid_file \in Pids \cup {NULL, -1}
             /\ status \in {"running", "success", "failure", "signalled"}
             /\ ran \in [Firing -> Nat]
             /\ lost \subseteq Firing
BY DEF TypeOK, WellFormed

(* A step of the packet loop, or of a process about to become it, that      *)
(* leaves rp in its own slot and rq in the slot of a process it forks.      *)
LEMMA MoveInvariance ==
  ASSUME IInv, NEW p \in Pids, NEW q \in Pids, NEW rp, NEW rq,
         WellFormed(rp), WellFormed(rq),
         AllRun => proc[p].pc \in Solo,
         p = q \/ ~(rp.pc \in Solo /\ rq.pc \in Solo),
         proc' = [s \in Pids |-> IF s = p THEN rp ELSE IF s = q THEN rq ELSE proc[s]],
         UNCHANGED <<pid_file, status, ran>>, lost' \subseteq Firing
  PROVE  IInv'
<1>1. \A s \in Pids : WellFormed(proc[s])
  BY TypeBySlot DEF IInv
<1>2. \A s \in Pids : WellFormed(proc'[s])
  BY <1>1
<1>3. proc' \in [Pids -> Process]
  BY <1>2 DEF WellFormed
<1>4. ASSUME AllRun, NEW s \in Pids, proc'[s].pc \in Solo
      PROVE  (s = p /\ rp.pc \in Solo) \/ (s = q /\ rq.pc \in Solo)
  BY <1>4 DEF IInv, OneSolo
<1>5. AllRun => \A s, t \in Pids : proc'[s].pc \in Solo /\ proc'[t].pc \in Solo => s = t
  BY <1>4
<1>6. QED
  BY <1>2, <1>3, <1>5 DEF IInv, TypeOK, OneSolo, WellFormed

LEMMA StepInvariance ==
  ASSUME IInv, NEW p \in Pids, AllRun => proc[p].pc \in Solo, NEW r \in Process,
         r.job = NULL, proc' = [proc EXCEPT ![p] = Onward(r)],
         UNCHANGED <<pid_file, status, ran>>, lost' \subseteq Firing
  PROVE  IInv'
<1>1. WellFormed(Onward(r))
  BY OnwardWellFormed
<1> HIDE DEF Onward
<1>2. proc' = [s \in Pids |-> IF s = p THEN Onward(r) ELSE IF s = p THEN Onward(r)
                                                           ELSE proc[s]]
  BY DEF IInv, TypeOK
<1>3. QED
  BY <1>1, <1>2, MoveInvariance

(* An exit frees slots, makes one a zombie, and changes nobody's pc.        *)
LEMMA ExitInvariance ==
  ASSUME IInv, NEW p \in Pids, NEW how \in {"success", "failure", "signalled"},
         NEW table \in [Pids -> Process], \A q \in Pids : WellFormed(table[q]),
         \A q \in Pids : table[q].pc \in Solo => proc[q].pc \in Solo,
         proc' = Exited(p, table), status' \in {status, how},
         pid_file' \in Pids \cup {NULL, -1}, UNCHANGED ran, lost' \subseteq Firing
  PROVE  IInv'
<1> DEFINE zombie == [Free EXCEPT !.pc = "zombie", !.role = table[p].role,
                                  !.parent = table[p].parent]
<1>1. WellFormed(zombie) /\ zombie.pc = "zombie"
  BY DEF WellFormed, Free, Process, PCs, Own, Recording, FileStates
<1>2. ASSUME NEW q \in Pids
      PROVE  WellFormed([table[q] EXCEPT !.parent = NULL])
             /\ [table[q] EXCEPT !.parent = NULL].pc = table[q].pc
  BY DEF WellFormed, Process
<1>3. ASSUME NEW q \in Pids
      PROVE  \/ proc'[q] \in {zombie, Free}
             \/ proc'[q] \in {table[q], [table[q] EXCEPT !.parent = NULL]}
  BY DEF Exited
<1>4. \A q \in Pids : WellFormed(proc'[q])
  BY <1>1, <1>2, <1>3, FreeWellFormed
<1>5. \A q \in Pids : proc'[q].pc \in Solo => proc[q].pc \in Solo
  <2>1. "zombie" \notin Solo /\ Free.pc \notin Solo
    BY DEF Free, Solo, Recording
  <2> HIDE DEF zombie
  <2>2. QED
    BY <1>1, <1>2, <1>3, <2>1
<1>6. proc' \in [Pids -> Process]
  BY <1>4 DEF Exited, WellFormed
<1>7. AllRun => \A q, s \in Pids : proc'[q].pc \in Solo /\ proc'[s].pc \in Solo => q = s
  BY <1>5 DEF IInv, OneSolo
<1>8. QED
  BY <1>4, <1>6, <1>7 DEF IInv, TypeOK, OneSolo, WellFormed

-----------------------------------------------------------------------------
LEMMA InitIInv == Init => IInv
<1> SUFFICES ASSUME Init PROVE IInv
  OBVIOUS
<1> DEFINE launcher == [Free EXCEPT !.pc   = IF Daemonise THEN "daemonise" ELSE "loop",
                                    !.role = "launcher"]
<1>1. WellFormed(launcher)
  BY DEF WellFormed, Free, Process, PCs, Own, Recording, FileStates
<1>2. \A p \in Pids : proc[p] = IF p # Launcher THEN Free ELSE launcher
  BY DEF Init
<1>3. Free.pc \notin Solo
  BY DEF Free, Solo, Recording
<1> HIDE DEF launcher
<1>4. \A p \in Pids : WellFormed(proc[p])
  BY <1>1, <1>2, FreeWellFormed
<1>5. proc \in [Pids -> Process]
  BY <1>4 DEF Init, WellFormed
<1>6. OneSolo
  BY <1>2, <1>3 DEF OneSolo
<1>7. QED
  BY <1>4, <1>5, <1>6 DEF Init, IInv, TypeOK, WellFormed

LEMMA ForkDaemonInvariance ==
  ASSUME IInv, NEW p \in Pids, NEW q \in Pids, ForkDaemon(p, q)
  PROVE  IInv'
<1> DEFINE daemon == [proc[p] EXCEPT !.pc = "loop", !.role = "daemon", !.parent = p]
           parent == [proc[p] EXCEPT !.pc = "pid file"]
<1>1. WellFormed(proc[p]) /\ proc \in [Pids -> Process] /\ lost \subseteq Firing
  BY TypeBySlot DEF IInv
<1>2. p # q /\ proc[p].pc = "daemonise" /\ "daemonise" \in Solo /\ "pid file" \notin Solo
  BY DEF ForkDaemon, Solo, Recording
<1>3. WellFormed(daemon)
  BY <1>1, <1>2 DEF WellFormed, Process, PCs, Own, Recording
<1>4. WellFormed(parent) /\ parent.pc = "pid file"
  BY <1>1, <1>2 DEF WellFormed, Process, PCs, Own, Recording
<1>5. proc' = [s \in Pids |-> IF s = p THEN parent ELSE IF s = q THEN daemon ELSE proc[s]]
  BY <1>1, <1>2 DEF ForkDaemon
<1>6. UNCHANGED <<pid_file, status, ran>> /\ lost' \subseteq Firing
  BY <1>1 DEF ForkDaemon
<1> HIDE DEF daemon, parent
<1>7. p = q \/ ~(parent.pc \in Solo /\ daemon.pc \in Solo)
  BY <1>2, <1>4
<1>8. QED
  BY <1>2, <1>3, <1>4, <1>5, <1>6, <1>7, MoveInvariance

LEMMA ForkDaemonFailsInvariance ==
  ASSUME IInv, NEW p \in Pids, ForkDaemonFails(p)
  PROVE  IInv'
<1> DEFINE parent == [proc[p] EXCEPT !.pc = "pid file"]
<1>1. WellFormed(proc[p]) /\ proc \in [Pids -> Process] /\ lost \subseteq Firing
  BY TypeBySlot DEF IInv
<1>2. proc[p].pc = "daemonise" /\ "daemonise" \in Solo
  BY DEF ForkDaemonFails, Solo
<1>3. WellFormed(parent)
  BY <1>1, <1>2 DEF WellFormed, Process, PCs, Own, Recording
<1>4. proc' = [s \in Pids |-> IF s = p THEN parent ELSE IF s = p THEN parent ELSE proc[s]]
  BY <1>1 DEF ForkDaemonFails
<1> HIDE DEF parent
<1>5. QED
  BY <1>1, <1>2, <1>3, <1>4, MoveInvariance DEF ForkDaemonFails

(* The packet loop's own steps: adding a call, closing files, the end.      *)
LEMMA LoopInvariance ==
  ASSUME IInv, NEW p \in Pids,
         \/ \E f \in Files : AddCall(p, f) \/ CloseFile(p, f)
         \/ DoCleanup(p)
         \/ EndOfCapture(p)
  PROVE  IInv'
<1>1. proc[p] \in Process /\ lost \subseteq Firing
  BY DEF IInv, TypeOK
<1>2. proc[p].pc \in {"loop", "closing"}
  BY DEF AddCall, CloseFile, DoCleanup, EndOfCapture
<1>3. proc[p].pc \in Solo /\ proc[p].job = NULL
  BY <1>2 DEF IInv, TypeOK, Solo, Recording
<1>4. ASSUME NEW r \in Process, r.job = NULL, Step(p, r)
      PROVE  IInv'
  BY <1>1, <1>3, <1>4, StepInvariance DEF Step
<1>5. ASSUME NEW f \in Files, AddCall(p, f)
      PROVE  IInv'
  <2>1. PICK s \in {"open", "no file"} :
          Step(p, [proc[p] EXCEPT !.files[f] = s, !.todo = Firings("open", f)])
    BY <1>5 DEF AddCall
  <2>2. Firings("open", f) \subseteq Firing
    BY DEF Firings
  <2>3. [proc[p] EXCEPT !.files[f] = s, !.todo = Firings("open", f)] \in Process
    BY <1>1, <2>2 DEF Process, FileStates
  <2>4. QED
    BY <1>3, <1>4, <2>1, <2>3, <1>1 DEF Process
<1>6. ASSUME NEW f \in Files, CloseFile(p, f)
      PROVE  IInv'
  <2> DEFINE r == [proc[p] EXCEPT !.ending = @ \ {f}]
  <2>1. r \in Process /\ r.job = NULL
    BY <1>1, <1>3 DEF Process
  <2>2. Firings("close", f) \subseteq Firing
    BY DEF Firings
  <2>3. \/ Step(p, [r EXCEPT !.files[f] = "closed", !.todo = Firings("close", f)])
        \/ Step(p, [r EXCEPT !.files[f] = "erased"])
    BY <1>6 DEF CloseFile
  <2> HIDE DEF r
  <2>4. [r EXCEPT !.files[f] = "closed", !.todo = Firings("close", f)] \in Process
        /\ [r EXCEPT !.files[f] = "closed", !.todo = Firings("close", f)].job = NULL
    BY <2>1, <2>2 DEF Process, FileStates
  <2>5. [r EXCEPT !.files[f] = "erased"] \in Process
        /\ [r EXCEPT !.files[f] = "erased"].job = NULL
    BY <2>1 DEF Process, FileStates
  <2>6. QED
    BY <1>4, <2>3, <2>4, <2>5
<1>7. ASSUME DoCleanup(p)
      PROVE  IInv'
  <2>1. PICK K \in SUBSET OpenFiles(p) : Step(p, [proc[p] EXCEPT !.ending = K])
    BY <1>7 DEF DoCleanup
  <2>2. [proc[p] EXCEPT !.ending = K] \in Process
        /\ [proc[p] EXCEPT !.ending = K].job = NULL
    BY <1>1, <1>3 DEF Process, OpenFiles
  <2>3. QED
    BY <1>4, <2>1, <2>2
<1>8. ASSUME EndOfCapture(p)
      PROVE  IInv'
  <2> DEFINE r == [proc[p] EXCEPT !.eof = TRUE, !.ending = OpenFiles(p)]
  <2>1. r \in Process /\ r.job = NULL
    BY <1>1, <1>3 DEF Process, OpenFiles
  <2>2. Step(p, r)
    BY <1>8 DEF EndOfCapture
  <2> HIDE DEF r
  <2>3. QED
    BY <1>4, <2>1, <2>2
<1>9. QED
  BY <1>5, <1>6, <1>7, <1>8

LEMMA ForkTriggerInvariance ==
  ASSUME IInv, NEW p \in Pids, NEW q \in Pids, ForkTrigger(p, q)
  PROVE  IInv'
<1>1. PICK e \in Firing :
        proc' = [proc EXCEPT ![p] = Onward([proc[p] EXCEPT !.todo = @ \ {e}]),
                             ![q] = Child(p, e)]
  BY DEF ForkTrigger
<1> DEFINE r == [proc[p] EXCEPT !.todo = @ \ {e}]
<1>2. proc[p] \in Process /\ proc \in [Pids -> Process] /\ lost \subseteq Firing
  BY DEF IInv, TypeOK
<1>3. p # q /\ proc[p].pc \in Solo /\ proc[p].job = NULL
  BY DEF ForkTrigger, IInv, TypeOK, Solo, Recording
<1>4. r \in Process /\ r.job = NULL
  BY <1>2, <1>3 DEF Process
<1>5. WellFormed(Child(p, e)) /\ Child(p, e).pc \notin Solo
  <2>1. e # NULL
    BY NullAssumption
  <2>2. QED
    BY <1>2, <2>1 DEF WellFormed, Child, Process, PCs, Own, Solo, Recording
<1>6. proc' = [s \in Pids |-> IF s = p THEN Onward(r) ELSE IF s = q THEN Child(p, e)
                                                           ELSE proc[s]]
  BY <1>1, <1>2, <1>3
<1> HIDE DEF r
<1>7. WellFormed(Onward(r))
  BY <1>4, OnwardWellFormed
<1>8. QED
  BY <1>2, <1>3, <1>5, <1>6, <1>7, MoveInvariance DEF ForkTrigger

LEMMA ForkTriggerFailsInvariance ==
  ASSUME IInv, NEW p \in Pids, ForkTriggerFails(p)
  PROVE  IInv'
<1>1. PICK e \in Firing :
        /\ proc' = [proc EXCEPT ![p] = Onward([proc[p] EXCEPT !.todo = @ \ {e}])]
        /\ lost' = lost \cup {e}
  BY DEF ForkTriggerFails
<1> DEFINE r == [proc[p] EXCEPT !.todo = @ \ {e}]
<1>2. proc[p] \in Process /\ proc \in [Pids -> Process] /\ lost' \subseteq Firing
  BY <1>1 DEF IInv, TypeOK
<1>3. proc[p].pc \in Solo /\ proc[p].job = NULL
  BY DEF ForkTriggerFails, IInv, TypeOK, Solo, Recording
<1>4. r \in Process /\ r.job = NULL
  BY <1>2, <1>3 DEF Process
<1>5. proc' = [proc EXCEPT ![p] = Onward(r)]
  BY <1>1, <1>2
<1> HIDE DEF r
<1>6. QED
  BY <1>2, <1>3, <1>4, <1>5, StepInvariance DEF ForkTriggerFails

LEMMA ExecInvariance ==
  ASSUME IInv, NEW p \in Pids, Exec(p)
  PROVE  IInv'
<1> DEFINE program == [Free EXCEPT !.pc = "program", !.role = "trigger",
                                   !.parent = proc[p].parent]
<1>1. proc[p] \in Process /\ proc \in [Pids -> Process]
      /\ \A q \in Pids : WellFormed(proc[q])
  BY TypeBySlot DEF IInv
<1>2. WellFormed(program) /\ program.pc \notin Solo
  BY <1>1 DEF WellFormed, Free, Process, PCs, Own, Solo, Recording, FileStates
<1>3. proc[p].job \in Firing
  BY <1>1 DEF Exec, WellFormed, Process
<1>4. ran' \in [Firing -> Nat]
  BY <1>3 DEF Exec, IInv, TypeOK
<1>5. \A q \in Pids : proc'[q] = IF q = p THEN program ELSE proc[q]
  BY <1>1 DEF Exec
<1> HIDE DEF program
<1>6. \A q \in Pids : WellFormed(proc'[q])
  BY <1>1, <1>2, <1>5
<1>7. proc' \in [Pids -> Process]
  BY <1>1, <1>6 DEF Exec, WellFormed
<1>8. AllRun => OneSolo'
  BY <1>2, <1>5 DEF IInv, OneSolo
<1>9. QED
  BY <1>4, <1>6, <1>7, <1>8 DEF Exec, IInv, TypeOK, WellFormed

(* The steps that end in an exit.                                           *)
LEMMA ExitsInvariance ==
  ASSUME IInv, NEW p \in Pids,
         WritePidFile(p) \/ CannotWritePidFile(p) \/ ProgramEnds(p) \/ Wait(p) \/ Signal(p)
  PROVE  IInv'
<1>1. proc \in [Pids -> Process] /\ \A q \in Pids : WellFormed(proc[q])
  BY TypeBySlot DEF IInv
<1>2. pid_file \in Pids \cup {NULL, -1} /\ lost \subseteq Firing
  BY DEF IInv, TypeOK
<1>3. ASSUME WritePidFile(p)
      PROVE  IInv'
  <2>1. pid_file' \in Pids \cup {NULL, -1}
    BY <1>3 DEF WritePidFile, Children
  <2>2. QED
    BY <1>1, <1>2, <1>3, <2>1, ExitInvariance DEF WritePidFile, Exit
<1>4. ASSUME CannotWritePidFile(p)
      PROVE  IInv'
  BY <1>1, <1>2, <1>4, ExitInvariance DEF CannotWritePidFile, Exit
<1>5. ASSUME ProgramEnds(p)
      PROVE  IInv'
  <2>1. proc' = Exited(p, proc) /\ UNCHANGED <<pid_file, ran, lost>>
    BY <1>5 DEF ProgramEnds, Exit
  <2>2. status' = status
    BY <1>1, <1>5 DEF ProgramEnds, Exit, WellFormed
  <2>3. QED
    BY <1>1, <1>2, <2>1, <2>2, ExitInvariance
<1>6. ASSUME Wait(p)
      PROVE  IInv'
  <2>1. CASE Exit(p, "success", proc)
    BY <1>1, <1>2, <1>6, <2>1, ExitInvariance DEF Wait, Exit
  <2>2. ASSUME NEW q \in Pids, Exit(p, "success", [proc EXCEPT ![q] = Free])
        PROVE  IInv'
    <3> DEFINE table == [proc EXCEPT ![q] = Free]
    <3>1. \A s \in Pids : WellFormed(table[s])
                         /\ (table[s].pc \in Solo => proc[s].pc \in Solo)
      BY <1>1, FreeWellFormed DEF Free, Solo, Recording
    <3>2. table \in [Pids -> Process]
      BY <1>1, FreeWellFormed DEF WellFormed
    <3>3. Exit(p, "success", table)
      BY <2>2
    <3> HIDE DEF table
    <3>4. QED
      BY <1>1, <1>2, <1>6, <3>1, <3>2, <3>3, ExitInvariance DEF Wait, Exit
  <2>3. QED
    BY <1>6, <2>1, <2>2 DEF Wait, Children
<1>7. ASSUME Signal(p)
      PROVE  IInv'
  <2>1. lost' \subseteq Firing
    BY <1>1, <1>2, <1>7 DEF Signal, WellFormed, Process
  <2>2. QED
    BY <1>1, <1>2, <1>7, <2>1, ExitInvariance DEF Signal, Exit
<1>8. QED
  BY <1>3, <1>4, <1>5, <1>6, <1>7

(* When there is a program to run, execv does not return.                   *)
LEMMA ExecFailsInvariance ==
  ASSUME IInv, NEW p \in Pids, ExecFails(p)
  PROVE  IInv'
<1> DEFINE r == [proc[p] EXCEPT !.job = NULL]
<1>1. proc[p] \in Process /\ proc[p].job \in Firing /\ lost \subseteq Firing
  BY DEF ExecFails, IInv, TypeOK, Process
<1>2. ~AllRun
  <2>1. proc[p].job.nth \in DOMAIN Options
    BY <1>1 DEF Firing
  <2>2. QED
    BY <2>1 DEF ExecFails, AllRun, Runs
<1>3. r \in Process /\ r.job = NULL
  BY <1>1 DEF Process
<1>4. Step(p, r)
  BY DEF ExecFails
<1> HIDE DEF r
<1>5. QED
  BY <1>1, <1>2, <1>3, <1>4, StepInvariance DEF Step

LEMMA NextIInv ==
  ASSUME IInv, [Next]_vars
  PROVE  IInv'
<1>1. CASE UNCHANGED vars
  BY <1>1 DEF vars, IInv, TypeOK, OneSolo
<1>2. ASSUME NEW p \in Pids, Progress(p)
      PROVE  IInv'
  BY <1>2, ForkDaemonInvariance, ForkDaemonFailsInvariance, LoopInvariance,
     ForkTriggerInvariance, ForkTriggerFailsInvariance, ExecInvariance,
     ExecFailsInvariance, ExitsInvariance DEF Progress
<1>3. ASSUME NEW p \in Pids, Traffic(p) \/ EndOfCapture(p)
      PROVE  IInv'
  BY <1>3, LoopInvariance DEF Traffic
<1>4. ASSUME NEW p \in Pids, Signal(p)
      PROVE  IInv'
  BY <1>4, ExitsInvariance
<1>5. QED
  BY <1>1, <1>2, <1>3, <1>4 DEF Next, Ended

LEMMA Invariance == Spec => []IInv
<1>1. IInv /\ [Next]_vars => IInv'
  BY NextIInv
<1>2. QED
  BY <1>1, InitIInv, PTL DEF Spec

-----------------------------------------------------------------------------
(* Every variable keeps the values of its type, whether or not there are    *)
(* programs to run, forks fail and signals arrive.                          *)
THEOREM ProcessTypes == Spec => []TypeOK
<1>1. IInv => TypeOK
  BY DEF IInv
<1>2. QED
  BY <1>1, Invariance, PTL

(* When every trigger's program can be run, no two processes are ever in    *)
(* the packet loop: the launcher leaves before the daemon enters it, and a  *)
(* child never gets there.                                                  *)
THEOREM OneRecorderAlways ==
  ASSUME AllRun
  PROVE  Spec => []OneRecorder
<1>1. IInv => OneRecorder
  BY DEF IInv, OneSolo, OneRecorder, Solo
<1>2. QED
  BY <1>1, Invariance, PTL

-----------------------------------------------------------------------------
(* The books of a recorder.  A trigger that has left a todo list is settled *)
(* in exactly one way.                                                      *)
Settled(e) == ran[e] > 0 \/ e \in lost \/ Pending(e)

Once(e) ==
  /\ ran[e] <= 1
  /\ ran[e] > 0 => e \notin lost /\ ~Pending(e)
  /\ e \in lost => ~Pending(e)
  /\ \A p, q \in Pids : proc[p].job = e /\ proc[q].job = e => p = q

(* Due, for a process that is in the state r.                               *)
Owed(r, e) ==
  /\ e \in Firings(e.on, e.file)
  /\ IF e.on = "open" THEN r.files[e.file] # "unseen" ELSE r.files[e.file] = "closed"

(* What is owed is on the list or settled, never both, and no file is to be *)
(* closed that is not open.                                                 *)
Books(r) ==
  /\ r.pc = "closing" => r.todo = {}
  /\ r.ending \subseteq {f \in Files : r.files[f] = "open"}
  /\ \A e \in r.todo : ~Settled(e)
  /\ \A e \in Firing : Owed(r, e) <=> e \in r.todo \/ Settled(e)

BooksInv ==
  /\ \A e \in Firing : Once(e)
  /\ \A p \in Pids : proc[p].pc \in Solo => Books(proc[p])

-----------------------------------------------------------------------------
(* What the steps below need of the processes.                              *)
LEMMA Processes1 ==
  ASSUME IInv
  PROVE  /\ proc \in [Pids -> Process]
         /\ \A p \in Pids : WellFormed(proc[p])
         /\ ran \in [Firing -> Nat] /\ lost \subseteq Firing
BY TypeBySlot DEF IInv

LEMMA RecorderHasNoJob ==
  ASSUME IInv, NEW p \in Pids, proc[p].pc # "child"
  PROVE  proc[p].job = NULL
BY Processes1 DEF WellFormed

(* As long as no child comes or goes, nothing is settled.                   *)
LEMMA NothingSettled ==
  ASSUME \A s \in Pids : proc'[s].job = proc[s].job, UNCHANGED <<ran, lost>>,
         NEW e \in Firing
  PROVE  (Settled(e)' <=> Settled(e)) /\ (Once(e)' <=> Once(e))
BY DEF Settled, Once, Pending

(* A process that keeps its files and its lists keeps its books.            *)
LEMMA SameBooks ==
  ASSUME NEW r, NEW s, r.pc = s.pc, r.todo = s.todo, r.ending = s.ending,
         r.files = s.files, r.todo \subseteq Firing,
         \A e \in Firing : Settled(e)' <=> Settled(e)
  PROVE  Books(s)' <=> Books(r)
<1>1. \A e \in Firing : Owed(s, e)' <=> Owed(r, e)
  BY DEF Owed, Firings
<1>2. \A e \in s.todo : Settled(e)' <=> Settled(e)
  OBVIOUS
<1>3. QED
  BY <1>1, <1>2 DEF Books

(* A step of the recorder that leaves r behind, as Onward sends it on.      *)
LEMMA RecorderBooks ==
  ASSUME IInv, BooksInv, AllRun, NEW p \in Pids, NEW r \in Process,
         proc[p].pc \in Solo, r.job = NULL, proc' = [proc EXCEPT ![p] = Onward(r)],
         UNCHANGED <<ran, lost>>,
         r.ending \subseteq {f \in Files : r.files[f] = "open"},
         \A e \in r.todo : ~Settled(e),
         \A e \in Firing : Owed(r, e) <=> e \in r.todo \/ Settled(e)
  PROVE  BooksInv'
<1> DEFINE n == Onward(r)
<1>1. /\ n.todo = r.todo /\ n.ending = r.ending /\ n.files = r.files /\ n.job = NULL
      /\ n.pc = "closing" => n.todo = {}
  BY DEF Onward, Process
<1>2. proc'[p] = n /\ \A s \in Pids \ {p} : proc'[s] = proc[s]
  BY Processes1
<1>3. proc[p].job = NULL
  BY RecorderHasNoJob DEF Solo, Recording
<1> HIDE DEF n
<1>4. \A s \in Pids : proc'[s].job = proc[s].job
  BY <1>1, <1>2, <1>3
<1>5. \A e \in Firing : (Settled(e)' <=> Settled(e)) /\ (Once(e)' <=> Once(e))
  BY <1>4, NothingSettled
<1>6. r.todo \subseteq Firing
  BY DEF Process
<1>7. \A e \in Firing : Owed(n, e)' <=> Owed(r, e)
  BY <1>1 DEF Owed, Firings
<1>8. Books(n)'
  BY <1>1, <1>5, <1>6, <1>7 DEF Books
<1>9. ASSUME NEW s \in Pids, s # p PROVE proc'[s].pc \notin Solo
  BY <1>2, <1>9 DEF IInv, OneSolo
<1>10. QED
  BY <1>2, <1>5, <1>8, <1>9 DEF BooksInv

-----------------------------------------------------------------------------
LEMMA InitBooks ==
  ASSUME Init
  PROVE  BooksInv
<1>1. \A p \in Pids : /\ proc[p].job = NULL /\ proc[p].todo = {}
                      /\ proc[p].ending = {} /\ proc[p].files = [f \in Files |-> "unseen"]
  BY DEF Init, Free
<1>2. \A e \in Firing : ran[e] = 0 /\ e \notin lost /\ ~Pending(e)
  BY <1>1, NullAssumption DEF Init, Pending
<1>3. \A e \in Firing : Once(e) /\ ~Settled(e)
  BY <1>1, <1>2, NullAssumption DEF Once, Settled
<1>4. ASSUME NEW p \in Pids, NEW e \in Firing
      PROVE  ~Owed(proc[p], e)
  BY <1>1 DEF Owed, Firing
<1>5. QED
  BY <1>1, <1>3, <1>4 DEF BooksInv, Books

(* The daemon inherits the launcher's books, in which nothing is entered.   *)
LEMMA ForkDaemonBooks ==
  ASSUME IInv, BooksInv, AllRun, NEW p \in Pids,
         (\E q \in Pids : ForkDaemon(p, q)) \/ ForkDaemonFails(p)
  PROVE  BooksInv'
<1>1. proc[p].pc = "daemonise" /\ proc[p].pc \in Solo
  BY DEF ForkDaemon, ForkDaemonFails, Solo
<1>2. proc[p].job = NULL /\ proc[p] \in Process
  BY <1>1, RecorderHasNoJob, Processes1
<1>3. UNCHANGED <<ran, lost>>
  BY DEF ForkDaemon, ForkDaemonFails
<1>4. \A s \in Pids : /\ proc'[s].job = proc[s].job
                      /\ proc'[s].pc \in Solo =>
                           \E r \in {proc[p]} : /\ proc'[s].pc = "loop"
                                                /\ r.todo = proc'[s].todo
                                                /\ r.ending = proc'[s].ending
                                                /\ r.files = proc'[s].files
  <2>1. ASSUME NEW q \in Pids, ForkDaemon(p, q) PROVE <1>4
    <3> DEFINE parent == [proc[p] EXCEPT !.pc = "pid file"]
               daemon == [proc[p] EXCEPT !.pc = "loop", !.role = "daemon", !.parent = p]
    <3>1. q # p /\ proc[q].job = NULL
      BY <1>1, <2>1, RecorderHasNoJob DEF ForkDaemon
    <3>2. /\ proc'[p] = parent /\ proc'[q] = daemon
          /\ \A s \in Pids \ {p, q} : proc'[s] = proc[s]
      BY <2>1, <3>1, Processes1 DEF ForkDaemon
    <3>3. /\ parent.pc \notin Solo /\ parent.job = NULL
          /\ daemon.job = NULL /\ daemon.pc = "loop" /\ daemon.todo = proc[p].todo
          /\ daemon.ending = proc[p].ending /\ daemon.files = proc[p].files
      BY <1>2 DEF Process, Solo, Recording
    <3> HIDE DEF parent, daemon
    <3>4. \A s \in Pids \ {p, q} : proc'[s].pc \notin Solo
      BY <1>1, <3>2 DEF IInv, OneSolo
    <3>5. QED
      BY <1>2, <3>1, <3>2, <3>3, <3>4
  <2>2. ASSUME ForkDaemonFails(p) PROVE <1>4
    <3> DEFINE parent == [proc[p] EXCEPT !.pc = "pid file"]
    <3>1. proc'[p] = parent /\ \A s \in Pids \ {p} : proc'[s] = proc[s]
      BY <2>2, Processes1 DEF ForkDaemonFails
    <3>2. parent.pc \notin Solo /\ parent.job = NULL
      BY <1>2 DEF Process, Solo, Recording
    <3> HIDE DEF parent
    <3>3. \A s \in Pids \ {p} : proc'[s].pc \notin Solo
      BY <1>1, <3>1 DEF IInv, OneSolo
    <3>4. QED
      BY <1>2, <3>1, <3>2, <3>3
  <2>3. QED
    BY <2>1, <2>2
<1>5. \A e \in Firing : (Settled(e)' <=> Settled(e)) /\ (Once(e)' <=> Once(e))
  BY <1>3, <1>4, NothingSettled
<1>6. ASSUME NEW s \in Pids, proc'[s].pc \in Solo
      PROVE  Books(proc[s])'
  <2>1. Books(proc[p]) /\ proc[p].todo \subseteq Firing
    BY <1>1, <1>2 DEF BooksInv, Process
  <2>2. \A e \in Firing : Owed(proc[s], e)' <=> Owed(proc[p], e)
    BY <1>4, <1>6 DEF Owed, Firings
  <2>3. QED
    BY <1>4, <1>5, <1>6, <2>1, <2>2 DEF Books
<1>7. QED
  BY <1>5, <1>6 DEF BooksInv

(* The recorder's entries: a call added, a file closed.                     *)
LEMMA AddCallBooks ==
  ASSUME IInv, BooksInv, AllRun, NEW p \in Pids, NEW f \in Files, AddCall(p, f)
  PROVE  BooksInv'
<1> DEFINE o == proc[p]
<1>1. PICK s \in {"open", "no file"} :
        Step(p, [o EXCEPT !.files[f] = s, !.todo = Firings("open", f)])
  BY DEF AddCall
<1> DEFINE r == [o EXCEPT !.files[f] = s, !.todo = Firings("open", f)]
<1>2. o \in Process /\ o.pc = "loop" /\ o.pc \in Solo /\ o.files[f] = "unseen"
      /\ o.job = NULL /\ o.todo = {} /\ o.ending = {}
  BY Processes1, RecorderHasNoJob DEF AddCall, Solo, Recording, WellFormed
<1>3. \A e \in Firing : Owed(o, e) <=> Settled(e)
  BY <1>2 DEF BooksInv, Books
<1>4. /\ r.todo = Firings("open", f) /\ r.ending = {} /\ r.job = NULL
      /\ r.files = [o.files EXCEPT ![f] = s] /\ o.files \in [Files -> FileStates]
  BY <1>2 DEF Process
<1>5. r \in Process
  BY <1>2 DEF Process, FileStates, Firings
<1>6. proc' = [proc EXCEPT ![p] = Onward(r)] /\ UNCHANGED <<ran, lost>>
  BY <1>1 DEF Step
<1> HIDE DEF r
<1>7. ASSUME NEW e \in Firing
      PROVE  /\ e \in Firings("open", f) => ~Settled(e)
             /\ Owed(r, e) <=> e \in r.todo \/ Settled(e)
  <2>1. e.file \in Files /\ e.on \in {"open", "close"}
    BY DEF Firing
  <2>2. CASE e.file = f
    <3>1. ~Owed(o, e)
      BY <1>2, <2>2 DEF Owed
    <3>2. Owed(r, e) <=> e \in Firings("open", f)
      BY <1>4, <2>1, <2>2 DEF Owed, Firings
    <3>3. QED
      BY <1>3, <1>4, <3>1, <3>2
  <2>3. CASE e.file # f
    <3>1. Owed(r, e) <=> Owed(o, e)
      BY <1>4, <2>1, <2>3 DEF Owed
    <3>2. e \notin Firings("open", f)
      BY <2>3 DEF Firings
    <3>3. QED
      BY <1>3, <1>4, <3>1, <3>2
  <2>4. QED
    BY <2>2, <2>3
<1>8. \A e \in r.todo : ~Settled(e)
  BY <1>4, <1>7 DEF Firings
<1>9. QED
  BY <1>2, <1>4, <1>5, <1>6, <1>7, <1>8, RecorderBooks

(* end is what closing f has come to: closed, with its triggers to fork     *)
(* for, or erased, with none.                                               *)
LEMMA CloseFileBooks ==
  ASSUME IInv, BooksInv, AllRun, NEW p \in Pids, NEW f \in Files, CloseFile(p, f)
  PROVE  BooksInv'
<1> DEFINE o == proc[p]
           end(s, d) == [o EXCEPT !.ending = @ \ {f}, !.files[f] = s, !.todo = d]
<1>1. /\ o \in Process /\ o.pc = "closing" /\ o.pc \in Solo
      /\ f \in o.ending /\ o.job = NULL
  BY Processes1, RecorderHasNoJob DEF CloseFile, Solo, Recording
<1>2. /\ o.todo = {} /\ o.files[f] = "open"
      /\ o.ending \subseteq {g \in Files : o.files[g] = "open"}
      /\ \A e \in Firing : Owed(o, e) <=> Settled(e)
  BY <1>1 DEF BooksInv, Books
<1>3. PICK s \in {"closed", "erased"} :
        \E d \in {IF s = "closed" THEN Firings("close", f) ELSE {}} : Step(p, end(s, d))
  <2> DEFINE r == [o EXCEPT !.ending = @ \ {f}]
  <2>1. \/ Step(p, [r EXCEPT !.files[f] = "closed", !.todo = Firings("close", f)])
        \/ Step(p, [r EXCEPT !.files[f] = "erased"])
    BY DEF CloseFile
  <2>2. /\ [r EXCEPT !.files[f] = "closed", !.todo = Firings("close", f)]
             = end("closed", Firings("close", f))
        /\ [r EXCEPT !.files[f] = "erased"] = end("erased", {})
    BY <1>1, <1>2 DEF Process
  <2> HIDE DEF end, r
  <2>3. QED
    BY <2>1, <2>2
<1> DEFINE d == IF s = "closed" THEN Firings("close", f) ELSE {}
           r == end(s, d)
<1>4. /\ r.todo = d /\ r.ending = o.ending \ {f} /\ r.job = NULL
      /\ r.files = [o.files EXCEPT ![f] = s] /\ o.files \in [Files -> FileStates]
  BY <1>1 DEF Process
<1>5. r \in Process
  BY <1>1 DEF Process, FileStates, Firings
<1>6. proc' = [proc EXCEPT ![p] = Onward(r)] /\ UNCHANGED <<ran, lost>>
  BY <1>3 DEF Step
<1> HIDE DEF r
<1>7. ASSUME NEW e \in Firing
      PROVE  /\ e \in d => ~Settled(e)
             /\ Owed(r, e) <=> e \in d \/ Settled(e)
  <2>1. e.file \in Files /\ e.on \in {"open", "close"}
    BY DEF Firing
  <2>2. CASE e.file = f /\ e.on = "close"
    <3>1. ~Owed(o, e)
      BY <1>2, <2>2 DEF Owed
    <3>2. Owed(r, e) <=> e \in d
      BY <1>4, <2>1, <2>2 DEF Owed, Firings
    <3>3. QED
      BY <1>2, <3>1, <3>2
  <2>3. CASE e.file # f \/ e.on = "open"
    <3>1. Owed(r, e) <=> Owed(o, e)
      BY <1>2, <1>4, <2>1, <2>3 DEF Owed
    <3>2. e \notin d
      BY <2>3 DEF Firings
    <3>3. QED
      BY <1>2, <3>1, <3>2
  <2>4. QED
    BY <2>1, <2>2, <2>3
<1>8. /\ \A e \in r.todo : ~Settled(e)
      /\ \A e \in Firing : Owed(r, e) <=> e \in r.todo \/ Settled(e)
      /\ r.ending \subseteq {g \in Files : r.files[g] = "open"}
  <2>1. d \subseteq Firing
    BY DEF Firings
  <2> HIDE DEF d
  <2>2. QED
    BY <1>2, <1>4, <1>7, <2>1
<1>9. QED
  BY <1>1, <1>4, <1>5, <1>6, <1>8, RecorderBooks

(* do_cleanup on its way, or the last of it: files to close, nothing else.  *)
LEMMA CleanupBooks ==
  ASSUME IInv, BooksInv, AllRun, NEW p \in Pids, DoCleanup(p) \/ EndOfCapture(p)
  PROVE  BooksInv'
<1> DEFINE o == proc[p]
           ends(K, x) == [o EXCEPT !.ending = K, !.eof = x]
<1>1. o \in Process /\ o.pc = "loop" /\ o.pc \in Solo /\ o.job = NULL /\ o.todo = {}
  BY Processes1, RecorderHasNoJob
     DEF DoCleanup, EndOfCapture, Solo, Recording, WellFormed
<1>2. \A e \in Firing : Owed(o, e) <=> Settled(e)
  BY <1>1 DEF BooksInv, Books
<1>3. PICK K \in SUBSET OpenFiles(p), x \in BOOLEAN : Step(p, ends(K, x))
  <2>1. CASE DoCleanup(p)
    <3>1. PICK K \in SUBSET OpenFiles(p) : Step(p, [o EXCEPT !.ending = K])
      BY <2>1 DEF DoCleanup
    <3>2. [o EXCEPT !.ending = K] = ends(K, o.eof) /\ o.eof \in BOOLEAN
      BY <1>1 DEF Process
    <3>3. QED
      BY <3>1, <3>2
  <2>2. CASE EndOfCapture(p)
    <3>1. [o EXCEPT !.eof = TRUE, !.ending = OpenFiles(p)] = ends(OpenFiles(p), TRUE)
      BY <1>1 DEF Process
    <3>2. QED
      BY <2>2, <3>1 DEF EndOfCapture
  <2>3. QED
    BY <2>1, <2>2
<1> DEFINE r == ends(K, x)
<1>4. /\ r.todo = {} /\ r.ending = K /\ r.job = NULL /\ r.files = o.files
  BY <1>1 DEF Process
<1>5. r \in Process /\ K \subseteq {g \in Files : o.files[g] = "open"}
  BY <1>1 DEF Process, OpenFiles
<1>6. proc' = [proc EXCEPT ![p] = Onward(r)] /\ UNCHANGED <<ran, lost>>
  BY <1>3 DEF Step
<1> HIDE DEF r
<1>7. \A e \in Firing : Owed(r, e) <=> Owed(o, e)
  BY <1>4 DEF Owed
<1>8. QED
  BY <1>1, <1>2, <1>4, <1>5, <1>6, <1>7, RecorderBooks

(* The next trigger on the recorder's list is settled, one way or another.  *)
LEMMA SettlingBooks ==
  ASSUME IInv, BooksInv, NEW p \in Pids, NEW e \in Firing, NEW o, o = proc[p],
         o.pc = "firing", e \in o.todo,
         proc'[p] = Onward([o EXCEPT !.todo = @ \ {e}]),
         \A s \in Pids \ {p} : proc'[s].pc \notin Solo,
         \A g \in Firing : Settled(g)' <=> g = e \/ Settled(g),
         \A g \in Firing : Once(g)'
  PROVE  BooksInv'
<1> DEFINE r == [o EXCEPT !.todo = @ \ {e}]
           n == Onward(r)
<1>1. o \in Process /\ o.pc \in Solo /\ Books(o)
  BY Processes1 DEF Solo, Recording, BooksInv
<1>2. r.todo = o.todo \ {e} /\ r.ending = o.ending /\ r.files = o.files
  BY <1>1 DEF Process
<1>3. /\ n.todo = r.todo /\ n.ending = r.ending /\ n.files = r.files
      /\ n.pc = "closing" => n.todo = {}
  BY DEF Onward
<1> HIDE DEF n, r
<1>4. \A g \in Firing : Owed(n, g)' <=> Owed(o, g)
  BY <1>2, <1>3 DEF Owed, Firings
<1>5. o.todo \subseteq Firing
  BY <1>1 DEF Process
<1>6. Books(n)'
  BY <1>1, <1>2, <1>3, <1>4, <1>5 DEF Books
<1>7. proc'[p] = n
  BY DEF n, r
<1>8. QED
  BY <1>6, <1>7 DEF BooksInv

LEMMA ForkTriggerBooks ==
  ASSUME IInv, BooksInv, AllRun, NEW p \in Pids, NEW q \in Pids, ForkTrigger(p, q)
  PROVE  BooksInv'
<1>1. PICK e \in Firing :
        /\ e \in proc[p].todo
        /\ proc' = [proc EXCEPT ![p] = Onward([proc[p] EXCEPT !.todo = @ \ {e}]),
                                ![q] = Child(p, e)]
  BY DEF ForkTrigger, IsFirst
<1>2. /\ proc[p].pc = "firing" /\ proc[p].pc \in Solo /\ p # q
      /\ proc[p].job = NULL /\ proc[q].job = NULL /\ proc[p] \in Process
      /\ UNCHANGED <<ran, lost>>
  BY RecorderHasNoJob, Processes1 DEF ForkTrigger, Solo, Recording
<1> DEFINE n == Onward([proc[p] EXCEPT !.todo = @ \ {e}])
<1>3. /\ proc'[p] = n /\ proc'[q] = Child(p, e)
      /\ \A s \in Pids \ {p, q} : proc'[s] = proc[s]
  BY <1>1, <1>2, Processes1
<1>4. /\ Child(p, e).job = e /\ Child(p, e).pc \notin Solo /\ n.job = NULL
  BY <1>2 DEF Child, Process, Onward, Solo, Recording
<1> HIDE DEF n
<1>5. \A s \in Pids \ {p} : proc'[s].pc \notin Solo
  BY <1>2, <1>3, <1>4 DEF IInv, OneSolo
<1>6. ~Settled(e)
  BY <1>1, <1>2 DEF BooksInv, Books
<1>7. \A s \in Pids : proc'[s].job = IF s = q THEN e ELSE proc[s].job
  BY <1>2, <1>3, <1>4
<1>8. \A g \in Firing : Pending(g)' <=> g = e \/ Pending(g)
  BY <1>2, <1>7, NullAssumption DEF Pending
<1>9. \A g \in Firing : Settled(g)' <=> g = e \/ Settled(g)
  BY <1>2, <1>8 DEF Settled
<1>10. \A g \in Firing : Once(g)'
  <2>1. \A s \in Pids : proc[s].job # e
    BY <1>6 DEF Settled, Pending
  <2>2. \A g \in Firing : Once(g)
    BY DEF BooksInv
  <2>3. ran \in [Firing -> Nat]
    BY Processes1
  <2>4. Once(e)'
    BY <1>2, <1>6, <1>7, <2>1, <2>3 DEF Once, Settled
  <2>5. ASSUME NEW g \in Firing, g # e PROVE Once(g)'
    BY <1>2, <1>7, <1>8, <2>2, <2>5 DEF Once
  <2>6. QED
    BY <2>4, <2>5
<1>11. QED
  BY <1>1, <1>2, <1>3, <1>5, <1>9, <1>10, SettlingBooks DEF n

LEMMA ForkTriggerFailsBooks ==
  ASSUME IInv, BooksInv, AllRun, NEW p \in Pids, ForkTriggerFails(p)
  PROVE  BooksInv'
<1>1. PICK e \in Firing :
        /\ e \in proc[p].todo
        /\ proc' = [proc EXCEPT ![p] = Onward([proc[p] EXCEPT !.todo = @ \ {e}])]
        /\ lost' = lost \cup {e}
  BY DEF ForkTriggerFails, IsFirst
<1>2. /\ proc[p].pc = "firing" /\ proc[p].pc \in Solo
      /\ proc[p].job = NULL /\ proc[p] \in Process /\ UNCHANGED ran
  BY RecorderHasNoJob, Processes1 DEF ForkTriggerFails, Solo, Recording
<1> DEFINE n == Onward([proc[p] EXCEPT !.todo = @ \ {e}])
<1>3. proc'[p] = n /\ \A s \in Pids \ {p} : proc'[s] = proc[s]
  BY <1>1, <1>2, Processes1
<1>4. n.job = NULL
  BY <1>2 DEF Process, Onward
<1> HIDE DEF n
<1>5. \A s \in Pids \ {p} : proc'[s].pc \notin Solo
  BY <1>2, <1>3 DEF IInv, OneSolo
<1>6. ~Settled(e)
  BY <1>1, <1>2 DEF BooksInv, Books
<1>7. \A s \in Pids : proc'[s].job = proc[s].job
  BY <1>2, <1>3, <1>4
<1>8. \A g \in Firing : Pending(g)' <=> Pending(g)
  BY <1>7 DEF Pending
<1>9. \A g \in Firing : Settled(g)' <=> g = e \/ Settled(g)
  BY <1>1, <1>2, <1>8 DEF Settled
<1>10. \A g \in Firing : Once(g)'
  <2> TAKE g \in Firing
  <2>1. Once(g)
    BY DEF BooksInv
  <2>2. ran'[g] = ran[g] /\ (Pending(g)' <=> Pending(g)) /\ (g \in lost' <=> g = e \/ g \in lost)
    BY <1>1, <1>2, <1>8
  <2>3. g = e => ~(ran[g] > 0) /\ ~Pending(g)
    BY <1>6 DEF Settled
  <2>4. \A s, t \in Pids : proc'[s].job = g /\ proc'[t].job = g => s = t
    BY <1>7, <2>1 DEF Once
  <2>5. QED
    BY <2>1, <2>2, <2>3, <2>4 DEF Once
<1>11. QED
  BY <1>1, <1>2, <1>3, <1>5, <1>9, <1>10, SettlingBooks DEF n

(* A step outside the recorder settles nothing that was not settled before. *)
LEMMA OutsideBooks ==
  ASSUME IInv, BooksInv,
         \A s \in Pids : proc'[s].pc \in Solo =>
            /\ proc'[s].pc = proc[s].pc /\ proc'[s].todo = proc[s].todo
            /\ proc'[s].ending = proc[s].ending /\ proc'[s].files = proc[s].files,
         \A g \in Firing : Settled(g)' <=> Settled(g),
         \A g \in Firing : Once(g)'
  PROVE  BooksInv'
<1>1. ASSUME NEW s \in Pids, proc'[s].pc \in Solo
      PROVE  Books(proc[s])'
  <2>1. Books(proc[s]) /\ proc[s].todo \subseteq Firing
    BY <1>1, Processes1 DEF BooksInv, Process
  <2>2. \A g \in Firing : Owed(proc[s], g)' <=> Owed(proc[s], g)
    BY <1>1 DEF Owed, Firings
  <2>3. QED
    BY <1>1, <2>1, <2>2 DEF Books
<1>2. QED
  BY <1>1 DEF BooksInv

(* The child that held a trigger becomes its program, or dies and loses it. *)
LEMMA ExecBooks ==
  ASSUME IInv, BooksInv, NEW p \in Pids, Exec(p)
  PROVE  BooksInv'
<1>0. PICK e \in Firing : e = proc[p].job
  BY Processes1 DEF Exec, WellFormed, Process
<1> DEFINE program == [Free EXCEPT !.pc = "program", !.role = "trigger",
                                   !.parent = proc[p].parent]
<1>1. /\ e \in Firing /\ ran \in [Firing -> Nat] /\ UNCHANGED lost
      /\ ran' = [ran EXCEPT ![e] = @ + 1]
  BY <1>0, Processes1 DEF Exec
<1>2. proc'[p] = program /\ \A s \in Pids \ {p} : proc'[s] = proc[s]
  BY Processes1 DEF Exec
<1>3. program.pc \notin Solo /\ program.job = NULL
  BY DEF Free, Solo, Recording
<1> HIDE DEF program
<1>4. \A s \in Pids : proc'[s].job = IF s = p THEN NULL ELSE proc[s].job
  BY <1>2, <1>3
<1>5. \A g \in Firing : Once(g)
  BY DEF BooksInv
<1>6. ran[e] = 0 /\ e \notin lost
  BY <1>0, <1>1, <1>5 DEF Once, Pending
<1>7. /\ \A g \in Firing \ {e} : (Pending(g)' <=> Pending(g)) /\ ran'[g] = ran[g]
      /\ ~Pending(e)' /\ Pending(e) /\ ran'[e] = 1
  BY <1>0, <1>1, <1>4, <1>5, <1>6, NullAssumption DEF Pending, Once
<1>8. \A g \in Firing : Settled(g)' <=> Settled(g)
  BY <1>1, <1>7 DEF Settled
<1>9. \A g \in Firing : Once(g)'
  <2>1. Once(e)'
    BY <1>0, <1>1, <1>4, <1>5, <1>6, <1>7, NullAssumption DEF Once, Pending
  <2>2. ASSUME NEW g \in Firing \ {e} PROVE Once(g)'
    BY <1>1, <1>4, <1>5, <1>7, NullAssumption DEF Once
  <2>3. QED
    BY <2>1, <2>2
<1>10. QED
  BY <1>2, <1>3, <1>8, <1>9, OutsideBooks

(* An exit: what becomes of the other processes and their jobs.             *)
LEMMA ExitedSlots ==
  ASSUME NEW p \in Pids, NEW table \in [Pids -> Process],
         proc' = Exited(p, table)
  PROVE  /\ proc'[p].job = NULL /\ proc'[p].pc \notin Solo
         /\ \A s \in Pids \ {p} :
              \/ table[s].parent = p /\ table[s].pc = "zombie" /\ proc'[s] = Free
              \/ /\ proc'[s].job = table[s].job /\ proc'[s].pc = table[s].pc
                 /\ proc'[s].todo = table[s].todo /\ proc'[s].ending = table[s].ending
                 /\ proc'[s].files = table[s].files
<1>1. ASSUME NEW s \in Pids
      PROVE  LET r == [table[s] EXCEPT !.parent = NULL]
             IN  /\ r.job = table[s].job /\ r.pc = table[s].pc
                 /\ r.todo = table[s].todo /\ r.ending = table[s].ending
                 /\ r.files = table[s].files
  BY DEF Process
<1>2. Free.job = NULL /\ Free.pc \notin Solo
  BY DEF Free, Solo, Recording
<1>3. /\ [Free EXCEPT !.pc = "zombie", !.role = table[p].role,
                      !.parent = table[p].parent].pc = "zombie"
      /\ [Free EXCEPT !.pc = "zombie", !.role = table[p].role,
                      !.parent = table[p].parent].job = NULL
      /\ "zombie" \notin Solo
  BY DEF Free, Solo, Recording
<1>4. QED
  BY <1>1, <1>2, <1>3 DEF Exited

(* Not a child's exit: nobody's job is lost.                                *)
LEMMA ExitBooks ==
  ASSUME IInv, BooksInv, NEW p \in Pids, NEW table \in [Pids -> Process],
         proc[p].job = NULL,
         \A s \in Pids : \/ table[s] = proc[s]
                         \/ proc[s].pc = "zombie" /\ table[s] = Free,
         proc' = Exited(p, table), UNCHANGED <<ran, lost>>
  PROVE  BooksInv'
<1>1. \A s \in Pids : proc[s].pc = "zombie" => proc[s].job = NULL
  BY RecorderHasNoJob
<1>2. Free.job = NULL /\ Free.pc \notin Solo
  BY DEF Free, Solo, Recording
<1>3. \A s \in Pids : proc'[s].job = proc[s].job
  BY <1>1, <1>2, ExitedSlots
<1>4. \A s \in Pids : proc'[s].pc \in Solo =>
        /\ proc'[s].pc = proc[s].pc /\ proc'[s].todo = proc[s].todo
        /\ proc'[s].ending = proc[s].ending /\ proc'[s].files = proc[s].files
  BY <1>2, ExitedSlots
<1>5. \A g \in Firing : (Settled(g)' <=> Settled(g)) /\ (Once(g)' <=> Once(g))
  BY <1>3, NothingSettled
<1>6. QED
  BY <1>4, <1>5, OutsideBooks DEF BooksInv

LEMMA KilledChildBooks ==
  ASSUME IInv, BooksInv, NEW p \in Pids, Signal(p), proc[p].pc = "child"
  PROVE  BooksInv'
<1>1. PICK e \in Firing : e = proc[p].job
  BY Processes1 DEF WellFormed, Process
<1>2. proc' = Exited(p, proc) /\ UNCHANGED ran /\ lost' = lost \cup {e}
  BY <1>1 DEF Signal, Exit
<1>3. \A s \in Pids : proc[s].pc = "zombie" => proc[s].job = NULL
  BY RecorderHasNoJob
<1>4. Free.job = NULL /\ Free.pc \notin Solo
  BY DEF Free, Solo, Recording
<1>5. \A s \in Pids : proc'[s].job = IF s = p THEN NULL ELSE proc[s].job
  BY <1>2, <1>3, <1>4, Processes1, ExitedSlots
<1>6. \A s \in Pids : proc'[s].pc \in Solo =>
        /\ proc'[s].pc = proc[s].pc /\ proc'[s].todo = proc[s].todo
        /\ proc'[s].ending = proc[s].ending /\ proc'[s].files = proc[s].files
  BY <1>2, <1>4, Processes1, ExitedSlots
<1>7. \A g \in Firing : Once(g)
  BY DEF BooksInv
<1>8. ran \in [Firing -> Nat] /\ ran[e] = 0 /\ Pending(e)
  BY <1>1, <1>7, Processes1 DEF Once, Pending
<1>9. /\ \A g \in Firing \ {e} : Pending(g)' <=> Pending(g)
      /\ ~Pending(e)'
  BY <1>1, <1>5, <1>7, NullAssumption DEF Pending, Once
<1>10. \A g \in Firing : Settled(g)' <=> Settled(g)
  BY <1>2, <1>8, <1>9 DEF Settled
<1>11. Once(e)'
  BY <1>1, <1>2, <1>5, <1>7, <1>8, <1>9, NullAssumption DEF Once
<1>12. ASSUME NEW g \in Firing \ {e} PROVE Once(g)'
  BY <1>2, <1>5, <1>7, <1>9, NullAssumption DEF Once
<1>13. QED
  BY <1>6, <1>10, <1>11, <1>12, OutsideBooks

LEMMA ExitsBooks ==
  ASSUME IInv, BooksInv, NEW p \in Pids,
         WritePidFile(p) \/ CannotWritePidFile(p) \/ ProgramEnds(p) \/ Wait(p) \/ Signal(p)
  PROVE  BooksInv'
<1>1. CASE proc[p].pc = "child"
  BY <1>1, KilledChildBooks DEF WritePidFile, CannotWritePidFile, ProgramEnds, Wait
<1>2. CASE proc[p].pc # "child"
  <2>1. proc[p].job = NULL /\ proc \in [Pids -> Process]
    BY <1>2, RecorderHasNoJob, Processes1
  <2>2. UNCHANGED <<ran, lost>>
    BY <1>2 DEF WritePidFile, CannotWritePidFile, ProgramEnds, Wait, Signal
  <2>3. \/ proc' = Exited(p, proc)
        \/ \E q \in Pids : proc[q].pc = "zombie" /\ proc' = Exited(p, [proc EXCEPT ![q] = Free])
    BY DEF WritePidFile, CannotWritePidFile, ProgramEnds, Wait, Signal, Exit, Children
  <2>4. CASE proc' = Exited(p, proc)
    BY <2>1, <2>2, <2>4, ExitBooks
  <2>5. ASSUME NEW q \in Pids, proc[q].pc = "zombie",
               proc' = Exited(p, [proc EXCEPT ![q] = Free])
        PROVE  BooksInv'
    <3> DEFINE table == [proc EXCEPT ![q] = Free]
    <3>1. table \in [Pids -> Process]
      BY <2>1, FreeWellFormed DEF WellFormed
    <3>2. \A s \in Pids : \/ table[s] = proc[s]
                          \/ proc[s].pc = "zombie" /\ table[s] = Free
      BY <2>1, <2>5
    <3>3. proc' = Exited(p, table)
      BY <2>5
    <3> HIDE DEF table
    <3>4. QED
      BY <2>1, <2>2, <3>1, <3>2, <3>3, ExitBooks
  <2>6. QED
    BY <2>3, <2>4, <2>5
<1>3. QED
  BY <1>1, <1>2

LEMMA NoExecFails ==
  ASSUME IInv, AllRun, NEW p \in Pids
  PROVE  ~ExecFails(p)
<1> SUFFICES ASSUME ExecFails(p) PROVE FALSE
  OBVIOUS
<1>1. proc[p].job \in Firing
  BY Processes1 DEF ExecFails, WellFormed, Process
<1>2. proc[p].job.nth \in DOMAIN Options
  BY <1>1 DEF Firing
<1>3. QED
  BY <1>2 DEF ExecFails, AllRun, Runs

LEMMA NextBooks ==
  ASSUME IInv, BooksInv, AllRun, [Next]_vars
  PROVE  BooksInv'
<1>1. CASE UNCHANGED vars
  BY <1>1 DEF vars, BooksInv, Books, Once, Settled, Pending, Owed, Firings
<1>2. ASSUME NEW p \in Pids, Progress(p)
      PROVE  BooksInv'
  BY <1>2, ForkDaemonBooks, CloseFileBooks, ForkTriggerBooks, ForkTriggerFailsBooks,
     ExecBooks, NoExecFails, ExitsBooks DEF Progress
<1>3. ASSUME NEW p \in Pids, Traffic(p) \/ EndOfCapture(p)
      PROVE  BooksInv'
  BY <1>3, AddCallBooks, CleanupBooks DEF Traffic
<1>4. ASSUME NEW p \in Pids, Signal(p)
      PROVE  BooksInv'
  BY <1>4, ExitsBooks
<1>5. QED
  BY <1>1, <1>2, <1>3, <1>4 DEF Next, Ended

LEMMA BooksAreKept ==
  ASSUME AllRun
  PROVE  Spec => []BooksInv
<1>1. Init => BooksInv
  BY InitBooks
<1>2. IInv /\ BooksInv /\ [Next]_vars => BooksInv'
  BY NextBooks
<1>3. QED
  BY <1>1, <1>2, Invariance, PTL DEF Spec

-----------------------------------------------------------------------------
(* When every trigger's program is there, no trigger runs twice for one     *)
(* file, whatever is forked, refused or killed meanwhile: Trigger::trigger  *)
(* takes each off its list, and a file is added and closed once.            *)
THEOREM NoTriggerRunsTwice ==
  ASSUME AllRun
  PROVE  Spec => []TriggersRunAtMostOnce
<1>1. BooksInv => TriggersRunAtMostOnce
  BY DEF BooksInv, Once, TriggersRunAtMostOnce
<1>2. QED
  BY <1>1, BooksAreKept, PTL

(* When the recorder waits at its end, each trigger that was due has run,   *)
(* is on its way, or was lost to a failed fork or a signal; and no other    *)
(* has run: the list was emptied before the next file was closed.           *)
THEOREM NoTriggerIsForgotten ==
  ASSUME AllRun
  PROVE  Spec => []EveryTriggerIsAccountedFor
<1>1. ASSUME IInv, BooksInv, NEW p \in Pids, proc[p].pc = "waiting", NEW e \in Firing
      PROVE  Due(p, e) <=> ran[e] > 0 \/ e \in lost \/ Pending(e)
  <2>1. proc[p].todo = {} /\ proc[p].pc \in Solo
    BY <1>1, Processes1 DEF WellFormed, Solo, Recording
  <2>2. Owed(proc[p], e) <=> Settled(e)
    BY <1>1, <2>1 DEF BooksInv, Books
  <2>3. Due(p, e) <=> Owed(proc[p], e)
    BY DEF Due, Owed
  <2>4. QED
    BY <2>2, <2>3 DEF Settled
<1>2. IInv /\ BooksInv => EveryTriggerIsAccountedFor
  BY <1>1 DEF EveryTriggerIsAccountedFor
<1>3. QED
  BY <1>2, BooksAreKept, Invariance, PTL

-----------------------------------------------------------------------------
(* Who is who, when pcapsipdump daemonises.  While the launcher lives, the  *)
(* daemon is its only child, dead or alive, and no trigger is; once it has  *)
(* gone, there will be no other daemon, and only the daemon forks: its pid  *)
(* is no trigger's before it dies, nor after.                               *)
LauncherKnows(l) ==
  /\ proc[l].parent = NULL /\ status = "running"
  /\ proc[l].pc = "daemonise" => \A q \in Pids : proc[q].role # "daemon"
  /\ \A q \in Pids : proc[q].parent = l <=> proc[q].role = "daemon"
  /\ (\E q \in Pids : proc[q].role = "trigger") => \E q \in Pids : proc[q].role = "daemon"

OneOf(role) ==
  \A p, q \in Pids : proc[p].role = role /\ proc[q].role = role => p = q

Roles ==
  /\ \A p \in Pids : /\ proc[p].pc \in Recording => proc[p].role = "daemon"
                     /\ proc[p].pc = "child" => proc[p].role = "trigger"
                     /\ proc[p].pc \in {"daemonise", "pid file"} <=> proc[p].role = "launcher"
  /\ OneOf("launcher")
  /\ OneOf("daemon")

PidInv ==
  /\ Roles
  /\ \A l \in Pids : proc[l].role = "launcher" => LauncherKnows(l)
  /\ PidFileNamesTheDaemon

LEMMA InitPid ==
  ASSUME Init, Daemonise
  PROVE  PidInv
<1>1. \A p \in Pids : /\ proc[p].role = IF p = Launcher THEN "launcher" ELSE "none"
                      /\ proc[p].pc = IF p = Launcher THEN "daemonise" ELSE "free"
                      /\ proc[p].parent = NULL
  BY DEF Init, Free
<1>2. Roles
  BY <1>1 DEF Roles, OneOf, Recording
<1>3. QED
  BY <1>1, <1>2, PidsAssumption DEF Init, PidInv, LauncherKnows, PidFileNamesTheDaemon

(* Most steps change nobody's role and nobody's parent.                     *)
LEMMA SameRoles ==
  ASSUME PidInv, UNCHANGED <<pid_file, status>>,
         \A s \in Pids : /\ proc'[s].role = proc[s].role
                         /\ proc'[s].parent = proc[s].parent
                         /\ \/ proc'[s].pc = proc[s].pc
                            \/ proc'[s].pc \in Recording /\ proc[s].pc \in Recording
                            \/ proc'[s].pc = "pid file" /\ proc[s].pc = "daemonise"
                            \/ proc'[s].pc = "program" /\ proc[s].pc = "child"
  PROVE  PidInv'
<1>1. Roles'
  <2>1. Roles
    BY DEF PidInv
  <2>2. OneOf("launcher")' /\ OneOf("daemon")'
    <3>1. ASSUME NEW x, OneOf(x) PROVE OneOf(x)'
      BY <3>1 DEF OneOf
    <3>2. QED
      BY <2>1, <3>1 DEF Roles
  <2>3. ASSUME NEW s \in Pids
        PROVE  /\ proc'[s].pc \in Recording => proc[s].pc \in Recording
               /\ proc'[s].pc = "child" => proc[s].pc = "child"
               /\ proc'[s].pc \in {"daemonise", "pid file"}
                    <=> proc[s].pc \in {"daemonise", "pid file"}
    BY DEF Recording
  <2>4. QED
    BY <2>1, <2>2, <2>3 DEF Roles
<1>2. ASSUME NEW l \in Pids, proc'[l].role = "launcher"
      PROVE  LauncherKnows(l)'
  <2>1. LauncherKnows(l) /\ proc[l].pc \in {"daemonise", "pid file"}
    BY <1>2 DEF PidInv, Roles
  <2>2. proc'[l].pc = "daemonise" => proc[l].pc = "daemonise"
    BY <2>1 DEF Recording
  <2>3. status' = status /\ proc'[l].parent = proc[l].parent
    OBVIOUS
  <2>4. \A s \in Pids : proc'[s].role = proc[s].role /\ proc'[s].parent = proc[s].parent
    OBVIOUS
  <2>5. /\ proc'[l].parent = NULL /\ status' = "running"
        /\ proc'[l].pc = "daemonise" => \A q \in Pids : proc'[q].role # "daemon"
    BY <2>1, <2>2, <2>3, <2>4 DEF LauncherKnows
  <2>6. \A q \in Pids : proc'[q].parent = l <=> proc'[q].role = "daemon"
    BY <2>1, <2>4 DEF LauncherKnows
  <2>7. (\E q \in Pids : proc'[q].role = "trigger") => \E q \in Pids : proc'[q].role = "daemon"
    BY <2>1, <2>4 DEF LauncherKnows
  <2>8. QED
    BY <2>5, <2>6, <2>7 DEF LauncherKnows
<1>3. PidFileNamesTheDaemon'
  BY DEF PidInv, PidFileNamesTheDaemon
<1>4. QED
  BY <1>1, <1>2, <1>3 DEF PidInv

(* A step of the recorder.                                                  *)
LEMMA RecorderRoles ==
  ASSUME IInv, PidInv, NEW p \in Pids, NEW r \in Process,
         proc[p].pc \in Recording, r.role = proc[p].role, r.parent = proc[p].parent,
         proc' = [proc EXCEPT ![p] = Onward(r)], UNCHANGED <<pid_file, status>>
  PROVE  PidInv'
<1>1. Onward(r).role = r.role /\ Onward(r).parent = r.parent /\ Onward(r).pc \in Recording
  BY DEF Onward, Process, Recording
<1> HIDE DEF Onward
<1>2. proc'[p] = Onward(r) /\ \A s \in Pids \ {p} : proc'[s] = proc[s]
  BY Processes1
<1>3. QED
  BY <1>1, <1>2, SameRoles

LEMMA LoopRoles ==
  ASSUME IInv, PidInv, NEW p \in Pids,
         \/ \E f \in Files : AddCall(p, f) \/ CloseFile(p, f)
         \/ DoCleanup(p)
         \/ EndOfCapture(p)
         \/ ForkTriggerFails(p)
  PROVE  PidInv'
<1>1. proc[p] \in Process /\ proc[p].pc \in Recording
  BY Processes1 DEF AddCall, CloseFile, DoCleanup, EndOfCapture, ForkTriggerFails, Recording
<1>2. ASSUME NEW r \in Process, r.role = proc[p].role, r.parent = proc[p].parent,
             proc' = [proc EXCEPT ![p] = Onward(r)], UNCHANGED <<pid_file, status>>
      PROVE  PidInv'
  BY <1>1, <1>2, RecorderRoles
<1> HIDE DEF Onward
<1>3. ASSUME NEW f \in Files, AddCall(p, f) PROVE PidInv'
  <2>1. PICK s \in {"open", "no file"} :
          Step(p, [proc[p] EXCEPT !.files[f] = s, !.todo = Firings("open", f)])
    BY <1>3 DEF AddCall
  <2> DEFINE r == [proc[p] EXCEPT !.files[f] = s, !.todo = Firings("open", f)]
  <2>2. r \in Process /\ r.role = proc[p].role /\ r.parent = proc[p].parent
    BY <1>1 DEF Process, FileStates, Firings
  <2>3. proc' = [proc EXCEPT ![p] = Onward(r)] /\ UNCHANGED <<pid_file, status>>
    BY <2>1 DEF Step
  <2> HIDE DEF r
  <2>4. QED
    BY <1>2, <2>2, <2>3
<1>4. ASSUME NEW f \in Files, CloseFile(p, f) PROVE PidInv'
  <2> DEFINE o == [proc[p] EXCEPT !.ending = @ \ {f}]
             r == [o EXCEPT !.files[f] = "closed", !.todo = Firings("close", f)]
             g == [o EXCEPT !.files[f] = "erased"]
  <2>1. o \in Process /\ o.role = proc[p].role /\ o.parent = proc[p].parent
    BY <1>1 DEF Process
  <2>2. Step(p, r) \/ Step(p, g)
    BY <1>4 DEF CloseFile
  <2> HIDE DEF o
  <2>3. /\ r \in Process /\ r.role = proc[p].role /\ r.parent = proc[p].parent
        /\ g \in Process /\ g.role = proc[p].role /\ g.parent = proc[p].parent
    BY <2>1 DEF Process, FileStates, Firings
  <2> HIDE DEF r, g
  <2>4. QED
    BY <1>2, <2>2, <2>3 DEF Step
<1>5. CASE DoCleanup(p) \/ EndOfCapture(p)
  <2>1. PICK K \in SUBSET OpenFiles(p) :
          \/ Step(p, [proc[p] EXCEPT !.ending = K])
          \/ Step(p, [proc[p] EXCEPT !.eof = TRUE, !.ending = K])
    BY <1>5 DEF DoCleanup, EndOfCapture
  <2> DEFINE r == [proc[p] EXCEPT !.ending = K]
             g == [proc[p] EXCEPT !.eof = TRUE, !.ending = K]
  <2>2. /\ r \in Process /\ r.role = proc[p].role /\ r.parent = proc[p].parent
        /\ g \in Process /\ g.role = proc[p].role /\ g.parent = proc[p].parent
    BY <1>1 DEF Process, OpenFiles
  <2>3. Step(p, r) \/ Step(p, g)
    BY <2>1
  <2> HIDE DEF r, g
  <2>4. QED
    BY <1>2, <2>2, <2>3 DEF Step
<1>6. CASE ForkTriggerFails(p)
  <2>1. PICK e \in Firing :
          proc' = [proc EXCEPT ![p] = Onward([proc[p] EXCEPT !.todo = @ \ {e}])]
    BY <1>6 DEF ForkTriggerFails
  <2> DEFINE r == [proc[p] EXCEPT !.todo = @ \ {e}]
  <2>2. r \in Process /\ r.role = proc[p].role /\ r.parent = proc[p].parent
    BY <1>1 DEF Process
  <2>3. proc' = [proc EXCEPT ![p] = Onward(r)] /\ UNCHANGED <<pid_file, status>>
    BY <1>6, <2>1 DEF ForkTriggerFails
  <2> HIDE DEF r
  <2>4. QED
    BY <1>2, <2>2, <2>3
<1>7. QED
  BY <1>3, <1>4, <1>5, <1>6

LEMMA FailedForkRoles ==
  ASSUME IInv, PidInv, NEW p \in Pids, ForkDaemonFails(p)
  PROVE  PidInv'
<1> DEFINE parent == [proc[p] EXCEPT !.pc = "pid file"]
<1>1. /\ parent.role = proc[p].role /\ parent.parent = proc[p].parent
      /\ parent.pc = "pid file" /\ proc[p].pc = "daemonise"
  BY Processes1 DEF ForkDaemonFails, Process
<1>2. proc'[p] = parent /\ \A s \in Pids \ {p} : proc'[s] = proc[s]
  BY Processes1 DEF ForkDaemonFails
<1> HIDE DEF parent
<1>3. QED
  BY <1>1, <1>2, SameRoles DEF ForkDaemonFails

LEMMA ExecRoles ==
  ASSUME IInv, PidInv, NEW p \in Pids, Exec(p)
  PROVE  PidInv'
<1> DEFINE program == [Free EXCEPT !.pc = "program", !.role = "trigger",
                                   !.parent = proc[p].parent]
<1>1. proc[p].pc = "child" /\ proc[p].role = "trigger"
  BY DEF Exec, PidInv, Roles
<1>2. program.pc = "program" /\ program.role = "trigger" /\ program.parent = proc[p].parent
  BY DEF Free
<1>3. proc'[p] = program /\ \A s \in Pids \ {p} : proc'[s] = proc[s]
  BY Processes1 DEF Exec
<1> HIDE DEF program
<1>4. QED
  BY <1>1, <1>2, <1>3, SameRoles DEF Exec

LEMMA ForkDaemonRoles ==
  ASSUME IInv, PidInv, NEW p \in Pids, NEW q \in Pids, ForkDaemon(p, q)
  PROVE  PidInv'
<1> DEFINE parent == [proc[p] EXCEPT !.pc = "pid file"]
           daemon == [proc[p] EXCEPT !.pc = "loop", !.role = "daemon", !.parent = p]
<1>1. p # q /\ proc[p].pc = "daemonise" /\ proc[p].role = "launcher" /\ LauncherKnows(p)
  BY DEF ForkDaemon, PidInv, Roles
<1>2. proc'[p] = parent /\ proc'[q] = daemon /\ \A s \in Pids \ {p, q} : proc'[s] = proc[s]
  BY <1>1, Processes1 DEF ForkDaemon
<1>3. /\ parent.pc = "pid file" /\ parent.role = "launcher" /\ parent.parent = NULL
      /\ daemon.pc = "loop" /\ daemon.role = "daemon" /\ daemon.parent = p
  BY <1>1, Processes1 DEF Process, LauncherKnows
<1>4. UNCHANGED <<pid_file, status>> /\ status = "running"
  BY <1>1 DEF ForkDaemon, LauncherKnows
<1> HIDE DEF parent, daemon
<1>5. /\ \A s \in Pids : proc[s].role # "daemon" /\ proc[s].role # "trigger"
      /\ \A s \in Pids \ {p} : proc[s].role # "launcher"
      /\ \A s \in Pids : proc[s].parent # p
  <2>1. /\ \A s \in Pids : proc[s].role # "daemon"
        /\ \A s \in Pids : proc[s].parent = p <=> proc[s].role = "daemon"
        /\ (\E s \in Pids : proc[s].role = "trigger") => \E s \in Pids : proc[s].role = "daemon"
    BY <1>1 DEF LauncherKnows
  <2>2. \A s \in Pids : proc[s].role = "launcher" => s = p
    BY <1>1 DEF PidInv, Roles, OneOf
  <2>3. QED
    BY <2>1, <2>2
<1>6. ASSUME NEW s \in Pids
      PROVE  /\ proc'[s].role = "launcher" <=> s = p
             /\ proc'[s].role = "daemon" <=> s = q
             /\ proc'[s].parent = p <=> s = q
  <2>1. CASE s = p
    BY <1>1, <1>2, <1>3, <2>1, PidsAssumption
  <2>2. CASE s = q
    BY <1>1, <1>2, <1>3, <2>2
  <2>3. CASE s \notin {p, q}
    BY <1>2, <1>5, <2>3
  <2>4. QED
    BY <2>1, <2>2, <2>3
<1>7. Roles'
  <2>1. ASSUME NEW s \in Pids
        PROVE  /\ proc'[s].pc \in Recording => proc'[s].role = "daemon"
               /\ proc'[s].pc = "child" => proc'[s].role = "trigger"
               /\ proc'[s].pc \in {"daemonise", "pid file"} <=> proc'[s].role = "launcher"
    <3>1. CASE s = p
      BY <1>2, <1>3, <3>1 DEF Recording
    <3>2. CASE s = q
      BY <1>2, <1>3, <3>2 DEF Recording
    <3>3. CASE s \notin {p, q}
      BY <1>2, <3>3 DEF PidInv, Roles
    <3>4. QED
      BY <3>1, <3>2, <3>3
  <2>2. OneOf("launcher")' /\ OneOf("daemon")'
    BY <1>6 DEF OneOf
  <2>3. QED
    BY <2>1, <2>2 DEF Roles
<1>8. LauncherKnows(p)'
  BY <1>1, <1>2, <1>3, <1>4, <1>6 DEF LauncherKnows
<1>9. QED
  BY <1>4, <1>6, <1>7, <1>8 DEF PidInv, PidFileNamesTheDaemon

LEMMA ForkTriggerRoles ==
  ASSUME IInv, PidInv, NEW p \in Pids, NEW q \in Pids, ForkTrigger(p, q)
  PROVE  PidInv'
<1>1. PICK e \in Firing :
        proc' = [proc EXCEPT ![p] = Onward([proc[p] EXCEPT !.todo = @ \ {e}]),
                             ![q] = Child(p, e)]
  BY DEF ForkTrigger
<1> DEFINE n == Onward([proc[p] EXCEPT !.todo = @ \ {e}])
           child == Child(p, e)
<1>2. /\ p # q /\ proc[p].pc \in Recording /\ proc[p].role = "daemon"
      /\ proc[q].pc = "free" /\ UNCHANGED <<pid_file, status>>
  BY DEF ForkTrigger, PidInv, Roles, Recording
<1>3. proc'[p] = n /\ proc'[q] = child /\ \A s \in Pids \ {p, q} : proc'[s] = proc[s]
  BY <1>1, <1>2, Processes1
<1>4. /\ n.pc \in Recording /\ n.role = "daemon" /\ n.parent = proc[p].parent
      /\ child.pc = "child" /\ child.role = "trigger" /\ child.parent = p
  BY <1>2, Processes1 DEF Onward, Child, Process, Recording
<1> HIDE DEF n, child
<1>5. proc[q].role # "launcher" /\ proc[q].role # "daemon"
  BY <1>2 DEF PidInv, Roles, OneOf
<1>6. \A s \in Pids : /\ proc'[s].role = "launcher" <=> proc[s].role = "launcher"
                      /\ proc'[s].role = "daemon" <=> proc[s].role = "daemon"
                      /\ proc'[s].role = "trigger" <=> s = q \/ proc[s].role = "trigger"
  BY <1>2, <1>3, <1>4, <1>5
<1>7. Roles'
  <2>1. ASSUME NEW s \in Pids
        PROVE  /\ proc'[s].pc \in Recording => proc'[s].role = "daemon"
               /\ proc'[s].pc = "child" => proc'[s].role = "trigger"
               /\ proc'[s].pc \in {"daemonise", "pid file"} <=> proc'[s].role = "launcher"
    <3>1. CASE s = p
      BY <1>3, <1>4, <3>1 DEF Recording
    <3>2. CASE s = q
      BY <1>3, <1>4, <3>2 DEF Recording
    <3>3. CASE s # p /\ s # q
      BY <1>3, <3>3 DEF PidInv, Roles
    <3>4. QED
      BY <3>1, <3>2, <3>3
  <2>2. QED
    BY <1>6, <2>1 DEF PidInv, Roles, OneOf
<1>8. ASSUME NEW l \in Pids, proc[l].role = "launcher"
      PROVE  LauncherKnows(l)'
  <2>1. LauncherKnows(l) /\ l # p /\ l # q
    BY <1>2, <1>5, <1>8 DEF PidInv
  <2>2. proc'[l] = proc[l]
    BY <1>3, <2>1
  <2>3. \A s \in Pids : proc'[s].parent = l <=> proc'[s].role = "daemon"
    BY <1>2, <1>3, <1>4, <1>6, <2>1 DEF LauncherKnows
  <2>4. \E s \in Pids : proc'[s].role = "daemon"
    BY <1>2, <1>6
  <2>5. proc'[l].pc # "daemonise"
    BY <1>2, <2>1, <2>2 DEF LauncherKnows
  <2>6. QED
    BY <1>2, <2>1, <2>2, <2>3, <2>4, <2>5 DEF LauncherKnows
<1>9. PidFileNamesTheDaemon'
  BY <1>2, <1>5, <1>6 DEF PidInv, PidFileNamesTheDaemon
<1>10. QED
  BY <1>6, <1>7, <1>8, <1>9 DEF PidInv

(* waitpid takes a zombie that the exit that follows would free anyway.     *)
LEMMA ReapedAnyway ==
  ASSUME NEW p \in Pids, NEW q \in Pids, proc \in [Pids -> Process], p # q,
         proc[q].parent = p, proc[q].pc = "zombie"
  PROVE  Exited(p, [proc EXCEPT ![q] = Free]) = Exited(p, proc)
<1>1. Free.parent = NULL /\ NULL # p
  BY PidsAssumption DEF Free
<1>2. QED
  BY <1>1 DEF Exited

(* What an exit leaves of roles and parents.                                *)
LEMMA ExitedRoles ==
  ASSUME NEW p \in Pids, proc \in [Pids -> Process], proc' = Exited(p, proc)
  PROVE  /\ IF proc[p].parent = NULL THEN proc'[p] = Free
            ELSE /\ proc'[p].pc = "zombie" /\ proc'[p].role = proc[p].role
                 /\ proc'[p].parent = proc[p].parent
         /\ \A s \in Pids \ {p} :
              IF proc[s].parent = p
              THEN \/ proc'[s] = Free
                   \/ /\ proc'[s].pc = proc[s].pc /\ proc'[s].role = proc[s].role
                      /\ proc'[s].parent = NULL
              ELSE proc'[s] = proc[s]
<1> DEFINE zombie == [Free EXCEPT !.pc = "zombie", !.role = proc[p].role,
                                  !.parent = proc[p].parent]
<1>1. zombie.pc = "zombie" /\ zombie.role = proc[p].role /\ zombie.parent = proc[p].parent
  BY DEF Free
<1>2. proc'[p] = IF proc[p].parent = NULL THEN Free ELSE zombie
  BY DEF Exited
<1> HIDE DEF zombie
<1>3. ASSUME NEW s \in Pids \ {p}
      PROVE  IF proc[s].parent = p
             THEN \/ proc'[s] = Free
                  \/ /\ proc'[s].pc = proc[s].pc /\ proc'[s].role = proc[s].role
                     /\ proc'[s].parent = NULL
             ELSE proc'[s] = proc[s]
  <2> DEFINE orphan == [proc[s] EXCEPT !.parent = NULL]
  <2>1. orphan.pc = proc[s].pc /\ orphan.role = proc[s].role /\ orphan.parent = NULL
    BY DEF Process
  <2>2. proc'[s] = IF proc[s].parent = p
                   THEN IF proc[s].pc = "zombie" THEN Free ELSE orphan
                   ELSE proc[s]
    BY DEF Exited
  <2> HIDE DEF orphan
  <2>3. QED
    BY <2>1, <2>2
<1>4. QED
  BY <1>1, <1>2, <1>3

LEMMA RolesAfterExit ==
  ASSUME IInv, PidInv, NEW p \in Pids, proc' = Exited(p, proc)
  PROVE  /\ Roles'
         /\ \A s \in Pids : proc'[s].role \in {proc[s].role, "none"}
         /\ proc[p].role = "launcher" => \A s \in Pids : proc'[s].role # "launcher"
<1>1. Free.role = "none" /\ Free.pc = "free" /\ Free.parent = NULL
  BY DEF Free
<1>2. proc[p].role = "launcher" => proc[p].parent = NULL
  BY DEF PidInv, LauncherKnows
<1>3. \A s \in Pids : proc'[s].role \in {proc[s].role, "none"}
  BY <1>1, Processes1, ExitedRoles
<1>4. ASSUME NEW s \in Pids
      PROVE  /\ proc'[s].pc \in Recording => proc'[s].role = "daemon"
             /\ proc'[s].pc = "child" => proc'[s].role = "trigger"
             /\ proc'[s].pc \in {"daemonise", "pid file"} <=> proc'[s].role = "launcher"
  <2>1. CASE s = p
    BY <1>1, <1>2, <2>1, Processes1, ExitedRoles DEF Recording
  <2>2. CASE s # p
    <3>1. proc'[s] = Free \/ (proc'[s].pc = proc[s].pc /\ proc'[s].role = proc[s].role)
      BY <2>2, Processes1, ExitedRoles
    <3>2. /\ proc[s].pc \in Recording => proc[s].role = "daemon"
          /\ proc[s].pc = "child" => proc[s].role = "trigger"
          /\ proc[s].pc \in {"daemonise", "pid file"} <=> proc[s].role = "launcher"
      BY DEF PidInv, Roles
    <3>3. QED
      BY <1>1, <3>1, <3>2 DEF Recording
  <2>3. QED
    BY <2>1, <2>2
<1>5. ASSUME NEW x, x # "none", OneOf(x) PROVE OneOf(x)'
  BY <1>3, <1>5 DEF OneOf
<1>6. Roles'
  BY <1>4, <1>5 DEF PidInv, Roles
<1>7. proc[p].role = "launcher" => \A s \in Pids : proc'[s].role # "launcher"
  <2>1. proc[p].role = "launcher" => proc'[p].role = "none"
    BY <1>1, <1>2, Processes1, ExitedRoles
  <2>2. QED
    BY <1>3, <2>1 DEF PidInv, Roles, OneOf
<1>8. QED
  BY <1>3, <1>6, <1>7

(* Somebody else's exit is not the launcher's business, unless it is the    *)
(* daemon's, which then stays behind as its zombie.                         *)
LEMMA OtherExitRoles ==
  ASSUME IInv, PidInv, NEW p \in Pids, proc[p].role # "launcher",
         proc' = Exited(p, proc), UNCHANGED <<pid_file, status>>
  PROVE  PidInv'
<1>1. Free.role = "none" /\ Free.parent = NULL
  BY DEF Free
<1>2. ASSUME NEW l \in Pids, proc'[l].role = "launcher"
      PROVE  LauncherKnows(l)'
  <2>1. proc[l].role = "launcher" /\ l # p /\ LauncherKnows(l)
    BY <1>2, RolesAfterExit DEF PidInv
  <2>2. proc'[l] = proc[l]
    BY <2>1, Processes1, ExitedRoles, PidsAssumption DEF LauncherKnows
  <2>3. ASSUME NEW s \in Pids
        PROVE  /\ proc'[s].parent = l <=> proc'[s].role = "daemon"
               /\ proc'[s].role = "daemon" <=> proc[s].role = "daemon"
    <3>1. proc[s].parent = l <=> proc[s].role = "daemon"
      BY <2>1 DEF LauncherKnows
    <3>2. CASE s = p
      BY <1>1, <2>1, <3>1, <3>2, Processes1, ExitedRoles, PidsAssumption
    <3>3. CASE s # p /\ proc[s].parent = p
      BY <1>1, <2>1, <3>1, <3>3, Processes1, ExitedRoles, PidsAssumption
    <3>4. CASE s # p /\ proc[s].parent # p
      BY <3>1, <3>4, Processes1, ExitedRoles
    <3>5. QED
      BY <3>2, <3>3, <3>4
  <2>4. \A s \in Pids : proc'[s].role = "trigger" => proc[s].role = "trigger"
    BY RolesAfterExit
  <2>5. QED
    BY <2>1, <2>2, <2>3, <2>4 DEF LauncherKnows
<1>3. PidFileNamesTheDaemon'
  BY RolesAfterExit DEF PidInv, PidFileNamesTheDaemon
<1>4. QED
  BY <1>2, <1>3, RolesAfterExit DEF PidInv

(* The launcher's own: with success only after it has written the pid of    *)
(* its one child, or -1 when there is none, and then nobody else either.    *)
LEMMA LauncherExitRoles ==
  ASSUME IInv, PidInv, NEW p \in Pids, proc[p].role = "launcher",
         proc' = Exited(p, proc),
         \/ pid_file' = IF Children(p) = {} THEN -1 ELSE CHOOSE q \in Children(p) : TRUE
         \/ status' # "success"
  PROVE  PidInv'
<1>1. LauncherKnows(p)
  BY DEF PidInv
<1>2. ASSUME status' = "success", NEW s \in Pids
      PROVE  /\ proc'[s].role = "daemon" => pid_file' = s
             /\ proc'[s].role = "trigger" => pid_file' # s
  <2>1. pid_file' = IF Children(p) = {} THEN -1 ELSE CHOOSE q \in Children(p) : TRUE
    BY <1>2
  <2>2. Children(p) = {q \in Pids : proc[q].role = "daemon"}
    BY <1>1 DEF Children, LauncherKnows
  <2>3. CASE Children(p) = {}
    BY <1>1, <2>2, <2>3, RolesAfterExit DEF LauncherKnows
  <2>4. CASE Children(p) # {}
    <3>1. pid_file' \in Children(p)
      BY <2>1, <2>4
    <3>2. proc[pid_file'].role = "daemon" /\ pid_file' \in Pids
      BY <2>2, <3>1
    <3>3. proc'[s].role \in {proc[s].role, "none"}
      BY RolesAfterExit
    <3>4. OneOf("daemon")
      BY DEF PidInv, Roles
    <3>5. proc[s].role = "daemon" => pid_file' = s
      BY <3>2, <3>4 DEF OneOf
    <3>6. QED
      BY <3>2, <3>3, <3>5
  <2>5. QED
    BY <2>3, <2>4
<1>3. PidFileNamesTheDaemon'
  BY <1>2 DEF PidFileNamesTheDaemon
<1>4. QED
  BY <1>3, RolesAfterExit DEF PidInv

LEMMA ExitsRoles ==
  ASSUME IInv, PidInv, NEW p \in Pids,
         WritePidFile(p) \/ CannotWritePidFile(p) \/ ProgramEnds(p) \/ Wait(p) \/ Signal(p)
  PROVE  PidInv'
<1>1. CASE WritePidFile(p)
  <2>1. proc[p].role = "launcher"
    BY <1>1 DEF WritePidFile, PidInv, Roles
  <2>2. QED
    BY <1>1, <2>1, LauncherExitRoles DEF WritePidFile, Exit
<1>2. CASE CannotWritePidFile(p)
  <2>1. proc[p].role = "launcher"
    BY <1>2 DEF CannotWritePidFile, PidInv, Roles
  <2>2. proc' = Exited(p, proc) /\ status' = "failure"
    BY <1>2, <2>1 DEF CannotWritePidFile, Exit
  <2>3. QED
    BY <2>1, <2>2, LauncherExitRoles
<1>3. CASE ProgramEnds(p)
  <2>1. proc[p].role = "trigger"
    BY <1>3, Processes1 DEF ProgramEnds, WellFormed
  <2>2. QED
    BY <1>3, <2>1, OtherExitRoles DEF ProgramEnds, Exit
<1>4. CASE Wait(p)
  <2>1. proc[p].role = "daemon" /\ UNCHANGED pid_file
    BY <1>4 DEF Wait, PidInv, Roles, Recording
  <2>2. \/ Exit(p, "success", proc)
        \/ \E q \in Children(p) : /\ proc[q].pc = "zombie"
                                  /\ Exit(p, "success", [proc EXCEPT ![q] = Free])
    BY <1>4 DEF Wait
  <2>3. proc' = Exited(p, proc)
    BY <1>4, <2>2, Processes1, ReapedAnyway DEF Exit, Children, Wait
  <2>4. UNCHANGED status
    BY <2>1, <2>2 DEF Exit
  <2>5. QED
    BY <2>1, <2>3, <2>4, OtherExitRoles
<1>5. CASE Signal(p)
  <2>1. proc' = Exited(p, proc) /\ UNCHANGED pid_file
        /\ status' = IF proc[p].role = "launcher" THEN "signalled" ELSE status
    BY <1>5 DEF Signal, Exit
  <2>2. CASE proc[p].role = "launcher"
    BY <2>1, <2>2, LauncherExitRoles
  <2>3. CASE proc[p].role # "launcher"
    BY <2>1, <2>3, OtherExitRoles
  <2>4. QED
    BY <2>2, <2>3
<1>6. QED
  BY <1>1, <1>2, <1>3, <1>4, <1>5

LEMMA NextPid ==
  ASSUME IInv, PidInv, AllRun, [Next]_vars
  PROVE  PidInv'
<1>1. CASE UNCHANGED vars
  BY <1>1, SameRoles DEF vars
<1>2. ASSUME NEW p \in Pids, Progress(p)
      PROVE  PidInv'
  <2>1. CASE \E q \in Pids : ForkDaemon(p, q) \/ ForkTrigger(p, q)
    BY <2>1, ForkDaemonRoles, ForkTriggerRoles
  <2>2. CASE ForkDaemonFails(p)
    BY <2>2, FailedForkRoles
  <2>3. CASE (\E f \in Files : CloseFile(p, f)) \/ ForkTriggerFails(p)
    BY <2>3, LoopRoles
  <2>4. CASE Exec(p)
    BY <2>4, ExecRoles
  <2>5. CASE WritePidFile(p) \/ CannotWritePidFile(p) \/ ProgramEnds(p) \/ Wait(p)
    BY <2>5, ExitsRoles
  <2>6. ~ExecFails(p)
    BY NoExecFails
  <2>7. QED
    BY <1>2, <2>1, <2>2, <2>3, <2>4, <2>5, <2>6 DEF Progress
<1>3. ASSUME NEW p \in Pids, Traffic(p) \/ EndOfCapture(p)
      PROVE  PidInv'
  BY <1>3, LoopRoles DEF Traffic
<1>4. ASSUME NEW p \in Pids, Signal(p)
      PROVE  PidInv'
  BY <1>4, ExitsRoles
<1>5. QED
  BY <1>1, <1>2, <1>3, <1>4 DEF Next, Ended

(* Once the launcher has reported success, its pid file names the daemon as *)
(* long as that lives, and never a trigger's process, however pids are used *)
(* again: a daemon that dies before the file is written stays its parent's  *)
(* zombie and keeps its pid, and afterwards only the daemon forks.          *)
THEOREM PidFileIsTheDaemons ==
  ASSUME AllRun
  PROVE  Spec => []PidFileNamesTheDaemon
<1>1. CASE Daemonise
  <2>1. Init => PidInv
    BY <1>1, InitPid
  <2>2. IInv /\ PidInv /\ [Next]_vars => PidInv'
    BY NextPid
  <2>3. PidInv => PidFileNamesTheDaemon
    BY DEF PidInv
  <2>4. QED
    BY <2>1, <2>2, <2>3, Invariance, PTL DEF Spec
<1>2. CASE ~Daemonise
  <2>1. PidFileNamesTheDaemon
    BY <1>2 DEF PidFileNamesTheDaemon
  <2>2. QED
    BY <2>1, PTL
<1>3. QED
  BY <1>1, <1>2
=============================================================================
