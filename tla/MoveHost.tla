------------------------------ MODULE MoveHost ------------------------------
(***************************************************************************)
(* Moving an agent to another machine of the same Hatchabot                *)
(* (orchestrator/moveHost.ts), with everything that can meet it: the       *)
(* operation row on disk, a death of the process at any point, the restart *)
(* rule, the owner's choices on a held move, machines that stop answering, *)
(* docker calls that fail with or without having taken effect, the Start   *)
(* and Stop routes and the reconcile sweep.                                *)
(*                                                                         *)
(* One agent, so one bot.  A step is what runs between two awaits of the   *)
(* process; where a death between two writes of one such stretch leaves a  *)
(* state that the restart rule tells apart, the stretch is two steps.      *)
(***************************************************************************)
EXTENDS Naturals

CONSTANTS
  Hosts,        \* rows of the hosts table
  Daemons,      \* Docker daemons: container and volume names derive from the
                \* agent's id, so an agent has at most one of each per daemon
  DaemonOf,     \* the daemon a host row leads to; two rows may lead to one
  Asked,        \* bound: the rows a move is asked from and to
  CrashPoints   \* the windows, of three, in which the process may also die

ASSUME HostsAssumption == DaemonOf \in [Hosts -> Daemons]
ASSUME CrashPointsAssumption == 
  CrashPoints \subseteq {"destroying", "holding", "retiring"}

VARIABLES
  agent,  \* the agents row: host, state, image pinned, memory-search key's host
  op,     \* the newest move-host row of the operations table
  mach,   \* per daemon: the agent's container and volume, and does it answer
  job,    \* the process: where its move stands, and its local variables
  rc      \* the reconcile sweep's copy of the row and the status it was told

vars == <<agent, op, mach, job, rc>>

-----------------------------------------------------------------------------
(* operations.ts, STEPS['move-host'], in order; 0 is "no step recorded".   *)
Checked    == 1
Stopped    == 2
Exported   == 3
Created    == 4
Copied     == 5
Flipped    == 6
Configured == 7
Started    == 8
Settled    == 9
Removed    == 10

StepReached(s) == op.step >= s

Statuses == {"over", "running", "interrupted", "held"}
Choices  == {"none", "move", "orphan"}
Points   == {"dead", "idle", "begun", "quiesce", "export", "restart",
             "provision", "import", "flip", "flipped", "configure", "start",
             "health", "settle", "settled", "retire", "undo", "putback", "hold"}

Machine == [con : {"absent", "stopped", "running"},
            vol : {"none", "other", "memory"},
            up  : BOOLEAN]

(* store.activeOperationFor: what keeps every other actor off the agent.   *)
Active == op.status # "over"
(* busy.ts: whileBusy is held from a move's first await to its last.       *)
Busy == job.pc \notin {"idle", "dead"}

Home == DaemonOf[agent.host]
Src  == DaemonOf[job.src]
Tgt  == DaemonOf[op.to]

At(p) == [job EXCEPT !.pc = p]
Idle  == [pc |-> "idle", src |-> op.from, mayRun |-> FALSE,
          targetUp |-> FALSE, orphan |-> FALSE]
Over  == [op EXCEPT !.status = "over", !.choices = "none"]

(* The routes' busyNow: no operation on disk, and no busy flag.            *)
Free == job.pc = "idle" /\ ~Active

(* A probe of both machines' daemons, for two rows of the hosts table.     *)
DifferentRows(s, t)    == s # t                                  \* a mutant
DifferentDaemons(s, t) == DaemonOf[s] # DaemonOf[t]

(* Only an agent that ran before its move is ever started by it.           *)
StartAlways == TRUE                                              \* a mutant
ToBeStarted == op.wasRunning

(* Judged from the record, the copy on the target may have been started.   *)
StartedOnRecord == op.wasRunning /\ StepReached(Started)         \* a mutant
TargetMayRun    == op.wasRunning /\ StepReached(Configured)

(* keepPin: an undone move puts back the image pin it dropped.             *)
ForgetPin(a) == a                                                \* a mutant
KeepPin(a) == [a EXCEPT !.image = @ \/ op.dropped]

(* The record as it was before the move.                                   *)
AsBefore(a)   == [KeepPin(a) EXCEPT !.host = op.from, !.key = op.from]

(* The agents row was written, if w: its updatedAt no longer is the one    *)
(* that the reconcile sweep read.                                          *)
Touch(w) == rc' = [rc EXCEPT !.fresh = @ /\ ~w]
Repins   == op.dropped /\ ~agent.image
NoSweep(h) == [at |-> "off", fresh |-> FALSE, host |-> h,
               state |-> "STOPPED", phase |-> "unknown"]
RcOff == NoSweep(agent.host)

-----------------------------------------------------------------------------
(* Docker calls.  Each is given by every state it can leave its machine    *)
(* in; a call that answers "done" leaves the last of them, one that throws *)
(* (or whose caller dies) may leave any.  A machine that does not answer   *)
(* is left as it is.                                                       *)
Halt(c)  == IF c = "running" THEN "stopped" ELSE c
Seed(v)  == IF v = "none" THEN "other" ELSE v
Copy(v)  == IF v = "memory" THEN "memory" ELSE "other"

StopDone(m)      == [m EXCEPT !.con = Halt(@)]
StartDone(m)     == [m EXCEPT !.con = IF @ = "absent" THEN @ ELSE "running"]
ProvisionDone(m) == [m EXCEPT !.con = "stopped", !.vol = Seed(@)]
ImportDone(m, v) == [m EXCEPT !.vol = Copy(v)]
DestroyDone(m)   == [m EXCEPT !.con = "absent", !.vol = "none"]

MayStop(m)      == {m, StopDone(m)}
MayStart(m)     == {m, StartDone(m)}
MayProvision(m) == {m, [m EXCEPT !.vol = Seed(@)],
                    [m EXCEPT !.con = "absent", !.vol = Seed(@)], ProvisionDone(m)}
MayImport(m, v) == {m, [m EXCEPT !.vol = "other"], ImportDone(m, v)}
MayDestroy(m)   == {m, [m EXCEPT !.con = "absent"], DestroyDone(m)}

Done(d, m) == mach[d].up /\ mach' = [mach EXCEPT ![d] = m]
Tried(d, S) == \E m \in (IF mach[d].up THEN S ELSE {mach[d]}) :
                  mach' = [mach EXCEPT ![d] = m]

(* machineAnswers: asked for its daemon id, within 20 s.                   *)
Answers(d) == IF mach[d].up THEN BOOLEAN ELSE {FALSE}

-----------------------------------------------------------------------------
(* moveAgentToHost: the checks, none of which changes anything, then the   *)
(* operation row.  `s` is the host the caller read before its own checks;  *)
(* both daemons must answer, and must differ.                              *)
MoveBegin(s, t, drop) ==
  /\ <<s, t>> \in Asked
  /\ Free
  /\ agent.state \in {"RUNNING", "STOPPED"}
  /\ agent.host = s /\ agent.host # t
  /\ mach[DaemonOf[s]].up /\ mach[DaemonOf[t]].up
  /\ DifferentDaemons(s, t)
  /\ op' = [status |-> "running", step |-> 0, from |-> agent.host, to |-> t,
            wasRunning |-> agent.state = "RUNNING",
            dropped |-> drop /\ agent.image, choices |-> "none"]
  /\ job' = [pc |-> "begun", src |-> s, mayRun |-> FALSE, targetUp |-> TRUE,
             orphan |-> FALSE]
  /\ UNCHANGED <<agent, mach, rc>>

(* The first step is on record before the image pin is dropped.            *)
MoveChecked ==
  /\ job.pc = "begun"
  /\ op' = [op EXCEPT !.step = Checked]
  /\ agent' = [agent EXCEPT !.image = @ /\ ~op.dropped]
  /\ job' = At("quiesce")
  /\ Touch(op.dropped) /\ UNCHANGED mach

(* stopAndConfirm: only a status of stopped or absent counts.              *)
QuiesceSource ==
  /\ job.pc = "quiesce"
  /\ \/ /\ Done(Src, StopDone(mach[Src]))
        /\ agent' = [agent EXCEPT !.state = "STOPPED"]
        /\ op' = [op EXCEPT !.step = Stopped]
        /\ job' = At("export")
        /\ Touch(op.wasRunning)
     \/ /\ Tried(Src, MayStop(mach[Src]))
        /\ agent' = KeepPin(agent)
        /\ op' = Over
        /\ job' = Idle
        /\ Touch(Repins)

(* A failed export starts the source again if it ran.                      *)
ExportState ==
  /\ job.pc = "export"
  /\ \/ /\ mach[Src].up
        /\ op' = [op EXCEPT !.step = Exported]
        /\ job' = At("provision")
     \/ /\ job' = At("restart")
        /\ UNCHANGED op
  /\ UNCHANGED <<agent, mach, rc>>

(* The last part of an undo, and of a failed export: started if it ran.    *)
(* RUNNING is claimed only if the start answered; otherwise the move still *)
(* ends (markNotStarted).                                                  *)
RestartSource ==
  /\ job.pc = "restart"
  /\ \/ /\ ToBeStarted /\ mach[Src].con # "absent"
        /\ Done(Src, StartDone(mach[Src]))
        /\ agent' = [KeepPin(agent) EXCEPT !.state = "RUNNING"]
     \/ /\ ToBeStarted
        /\ Tried(Src, MayStart(mach[Src]))
        /\ agent' = [KeepPin(agent) EXCEPT !.state = "STOPPED"]
     \/ /\ ~ToBeStarted
        /\ agent' = KeepPin(agent)
        /\ UNCHANGED mach
  /\ op' = Over
  /\ job' = Idle
  /\ Touch(op.wasRunning \/ Repins)

(* buildRuntimeSpec mints the memory-search key for the target, then the   *)
(* target's container and volume are made (never started here).            *)
ProvisionTarget ==
  /\ job.pc = "provision"
  /\ \/ /\ Done(Tgt, ProvisionDone(mach[Tgt]))
        /\ agent' = [agent EXCEPT !.key = op.to]
        /\ op' = [op EXCEPT !.step = Created]
        /\ job' = At("import")
     \/ /\ Tried(Tgt, MayProvision(mach[Tgt]))
        /\ \E k \in {agent.key, op.to} : agent' = [agent EXCEPT !.key = k]
        /\ job' = At("undo")
        /\ UNCHANGED op
  /\ UNCHANGED rc

(* The exported file replaces what the target's volume held.               *)
ImportState ==
  /\ job.pc = "import"
  /\ \/ /\ Done(Tgt, ImportDone(mach[Tgt], mach[Src].vol))
        /\ op' = [op EXCEPT !.step = Copied]
        /\ job' = At("flip")
     \/ /\ Tried(Tgt, MayImport(mach[Tgt], mach[Src].vol))
        /\ job' = At("undo")
        /\ UNCHANGED op
  /\ UNCHANGED <<agent, rc>>

(* Only with the data there does the record point there.                   *)
FlipHost ==
  /\ job.pc = "flip"
  /\ agent' = [agent EXCEPT !.host = op.to]
  /\ job' = At("flipped")
  /\ Touch(TRUE) /\ UNCHANGED <<op, mach>>

RecordFlip ==
  /\ job.pc = "flipped"
  /\ op' = [op EXCEPT !.step = Flipped]
  /\ job' = At("configure")
  /\ UNCHANGED <<agent, mach, rc>>

-----------------------------------------------------------------------------
(* completeOnTarget, which a restart may run again.  The second provision  *)
(* replaces the container, and its step is on record before any start.     *)
ConfigureTarget ==
  /\ job.pc = "configure"
  /\ \/ /\ Done(Tgt, ProvisionDone(mach[Tgt]))
        /\ agent' = [agent EXCEPT !.key = op.to]
        /\ op' = [op EXCEPT !.step = Configured]
        /\ job' = At(IF ToBeStarted THEN "start" ELSE "settle")
        /\ Touch(TRUE)
     \/ /\ Tried(Tgt, MayProvision(mach[Tgt]))
        /\ \E k \in {agent.key, op.to} : agent' = [agent EXCEPT !.key = k]
        /\ job' = At("undo")
        /\ UNCHANGED <<op, rc>>

(* targetMayRun is set before the start, whose failure proves nothing.     *)
StartTarget ==
  /\ job.pc = "start"
  /\ \/ /\ mach[Tgt].con # "absent"
        /\ Done(Tgt, StartDone(mach[Tgt]))
        /\ op' = [op EXCEPT !.step = Started]
        /\ job' = [At("health") EXCEPT !.mayRun = TRUE]
     \/ /\ Tried(Tgt, MayStart(mach[Tgt]))
        /\ job' = [At("undo") EXCEPT !.mayRun = TRUE]
        /\ UNCHANGED op
  /\ UNCHANGED <<agent, rc>>

(* waitForHealthy, the rebuild hook, the skills, the re-index.             *)
AwaitHealthy ==
  /\ job.pc = "health"
  /\ \/ mach[Tgt].up /\ mach[Tgt].con = "running" /\ job' = At("settle")
     \/ job' = At("undo")
  /\ UNCHANGED <<agent, op, mach, rc>>

MarkRunning ==
  /\ job.pc = "settle"
  /\ agent' = IF op.wasRunning THEN [agent EXCEPT !.state = "RUNNING"] ELSE agent
  /\ job' = At("settled")
  /\ Touch(op.wasRunning /\ agent.state # "RUNNING") /\ UNCHANGED <<op, mach>>

RecordSettled ==
  /\ job.pc = "settled"
  /\ op' = [op EXCEPT !.step = Settled]
  /\ job' = At("retire")
  /\ UNCHANGED <<agent, mach, rc>>

(* retireSource: best effort, volume included; the move is done either way. *)
RetireSource ==
  /\ job.pc = "retire"
  /\ \/ /\ Done(Src, DestroyDone(mach[Src]))
        /\ op' = [Over EXCEPT !.step = Removed]
     \/ /\ Tried(Src, MayDestroy(mach[Src]))
        /\ op' = Over
  /\ job' = Idle
  /\ UNCHANGED <<agent, rc>>

-----------------------------------------------------------------------------
(* putBack, first await(s): remove the copy on the target.  When that      *)
(* fails and the copy may have been started, only a status of stopped or   *)
(* absent lets the source start; a machine that does not answer does not.  *)
NeverOrphaned(down) == FALSE                                     \* a mutant
Orphaned(down) == job.mayRun /\ ~down

UndoOnTarget ==
  /\ job.pc = "undo"
  /\ \/ /\ job.targetUp
        /\ Done(Tgt, DestroyDone(mach[Tgt]))
        /\ job' = [At("putback") EXCEPT !.orphan = FALSE]
     \/ /\ IF job.targetUp THEN Tried(Tgt, MayDestroy(mach[Tgt])) ELSE UNCHANGED mach
        /\ \E down \in (IF job.targetUp /\ mach[Tgt].up /\ mach'[Tgt].con # "running"
                         THEN BOOLEAN ELSE {FALSE}) :
              job' = [At("putback") EXCEPT !.orphan = Orphaned(down)]
  /\ UNCHANGED <<agent, op, rc>>

(* putBack, then: the record, the key and the pin as they were.            *)
PutBackRecord ==
  /\ job.pc = "putback"
  /\ agent' = AsBefore(agent)
  /\ job' = At(IF job.orphan THEN "hold" ELSE "restart")
  /\ Touch(agent.host # op.from \/ Repins)
  /\ UNCHANGED <<op, mach>>

(* Orphaned: held, not failed, so Start stays refused (A087).              *)
HoldOrphan ==
  /\ job.pc = "hold"
  /\ op' = [op EXCEPT !.status = "held", !.choices = "orphan"]
  /\ job' = Idle
  /\ UNCHANGED <<agent, mach, rc>>

-----------------------------------------------------------------------------
(* The docker call under way when the process dies may still take effect.  *)
CallUnderWay ==
  CASE job.pc = "quiesce" -> Tried(Src, MayStop(mach[Src]))
    [] job.pc = "restart" /\ op.wasRunning -> Tried(Src, MayStart(mach[Src]))
    [] job.pc \in {"provision", "configure"} -> Tried(Tgt, MayProvision(mach[Tgt]))
    [] job.pc = "import"  -> Tried(Tgt, MayImport(mach[Tgt], mach[Src].vol))
    [] job.pc = "start"   -> Tried(Tgt, MayStart(mach[Tgt]))
    [] job.pc = "retire"  -> Tried(Src, MayDestroy(mach[Src]))
    [] job.pc = "undo" /\ job.targetUp -> Tried(Tgt, MayDestroy(mach[Tgt]))
    [] OTHER -> UNCHANGED mach

(* Three windows the restart rule does not know of; a run includes them or *)
(* not.  "destroying": an undo after the host flip, from its destroy to    *)
(* the write that points the record back.  "holding": from that write to   *)
(* the hold of a copy that could not be removed.  "retiring": the end of a *)
(* held move that was tried again, whose row still offers to put it back.  *)
InDestroying == job.pc \in {"undo", "putback"} /\ agent.host = op.to
InHolding    == job.pc = "hold" /\ op.choices # "orphan"
InRetiring   == job.pc = "retire" /\ op.status = "held"

Crash ==
  /\ job.pc # "dead"
  /\ InDestroying => "destroying" \in CrashPoints
  /\ InHolding => "holding" \in CrashPoints
  /\ InRetiring => "retiring" \in CrashPoints
  /\ CallUnderWay
  /\ \E k \in (IF job.pc \in {"provision", "configure"} THEN {agent.key, op.to}
                ELSE {agent.key}) : agent' = [agent EXCEPT !.key = k]
  /\ job' = [Idle EXCEPT !.pc = "dead"]
  /\ rc' = RcOff
  /\ UNCHANGED op

(* markInterrupted: a running row of an earlier process was cut off.       *)
StillRunning(o) == o                                             \* a mutant
CutOff(o) == IF o.status = "running" THEN [o EXCEPT !.status = "interrupted"] ELSE o

Boot ==
  /\ job.pc = "dead"
  /\ op' = CutOff(op)
  /\ job' = Idle
  /\ UNCHANGED <<agent, mach, rc>>

-----------------------------------------------------------------------------
(* resumeMoveHost.                                                         *)
RemovedThere == StepReached(Removed) /\ (op.wasRunning => agent.state = "RUNNING")  \* a mutant
SettledThere == StepReached(Settled) /\ (op.wasRunning => agent.state = "RUNNING")

Resumed(p, mayRun, answers) ==
  [pc |-> p, src |-> op.from, mayRun |-> mayRun, targetUp |-> answers,
   orphan |-> FALSE]

ResumeMove ==
  \/ /\ op.step = 0
     /\ op' = Over /\ UNCHANGED <<agent, mach, job, rc>>
  \/ /\ op.step # 0 /\ agent.host # op.to
     /\ \E a \in Answers(Tgt) : job' = Resumed("undo", FALSE, a)
     /\ UNCHANGED <<agent, op, mach, rc>>
  \/ /\ op.step # 0 /\ agent.host = op.to /\ SettledThere
     /\ job' = Resumed("retire", FALSE, TRUE)
     /\ UNCHANGED <<agent, op, mach, rc>>
  \/ /\ op.step # 0 /\ agent.host = op.to /\ ~SettledThere
     /\ \E a \in Answers(Tgt) :
          IF a THEN /\ job' = Resumed("configure", TargetMayRun, TRUE)
                    /\ UNCHANGED op
               ELSE /\ op' = [op EXCEPT !.status = "held", !.choices = "move"]
                    /\ UNCHANGED job
     /\ UNCHANGED <<agent, mach, rc>>

(* resumeOne: the boot pass and the 10-minute pass, under the busy flag.   *)
ResumeInterrupted == job.pc = "idle" /\ op.status = "interrupted" /\ ResumeMove

Chosen(c) == job.pc = "idle" /\ op.status = "held" /\ op.choices = c

(* recoverMoveHost: the owner's choices on a held move.                    *)
ChooseRetry == Chosen("move") /\ ResumeMove

ChoosePutBack ==
  /\ Chosen("move")
  /\ \E a \in Answers(Tgt) :
       /\ a \/ ~TargetMayRun                    \* else refused
       /\ job' = Resumed("undo", TargetMayRun, a)
  /\ UNCHANGED <<agent, op, mach, rc>>

(* settleOrphan.                                                           *)
ChooseRemoveCopy ==
  /\ Chosen("orphan")
  /\ TRUE \in Answers(Tgt)                      \* else refused
  /\ job' = Resumed("undo", TRUE, TRUE)
  /\ UNCHANGED <<agent, op, mach, rc>>

(* Checked when that machine answers; the owner's word when it does not,   *)
(* which is taken to be true.                                              *)
ChooseCopyRemoved ==
  /\ Chosen("orphan")
  /\ \E a \in Answers(Tgt) :
       /\ mach[Tgt].con # "running"             \* seen, or the owner's word
       /\ job' = Resumed("undo", a, a)
  /\ UNCHANGED <<agent, op, mach, rc>>

-----------------------------------------------------------------------------
(* The Start and Stop routes: refused while an operation is not over or    *)
(* the agent is busy, else under the busy flag to their end.               *)
StartRoute ==
  /\ Free /\ agent.state = "STOPPED"
  /\ \/ /\ mach[Home].con # "absent"
        /\ Done(Home, StartDone(mach[Home]))
        /\ agent' = [agent EXCEPT !.state = "RUNNING"]
        /\ Touch(TRUE)
     \/ /\ Tried(Home, MayStart(mach[Home]))
        /\ UNCHANGED <<agent, rc>>
  /\ UNCHANGED <<op, job>>

StopRoute ==
  /\ Free /\ agent.state = "RUNNING"
  /\ \/ /\ Done(Home, StopDone(mach[Home]))
        /\ agent' = [agent EXCEPT !.state = "STOPPED"]
        /\ Touch(TRUE)
     \/ /\ Tried(Home, MayStop(mach[Home]))
        /\ UNCHANGED <<agent, rc>>
  /\ UNCHANGED <<op, job>>

(* reconcileAgents: the row is read, its machine asked, and the answer is  *)
(* judged; anything may happen in between.                                 *)
ReconcileLook ==
  /\ rc.at = "off" /\ job.pc # "dead" /\ ~Busy /\ ~Active
  /\ rc' = [NoSweep(agent.host) EXCEPT !.at = "asking", !.fresh = TRUE,
                                       !.state = agent.state]
  /\ UNCHANGED <<agent, op, mach, job>>

ReconcileAnswer ==
  /\ rc.at = "asking"
  /\ LET d == DaemonOf[rc.host] IN
     \E p \in (IF mach[d].up THEN {mach[d].con, "unknown"} ELSE {"unknown"}) :
        rc' = [rc EXCEPT !.at = "answered", !.phase = p]
  /\ UNCHANGED <<agent, op, mach, job>>

SameState == ~Busy /\ ~Active /\ agent.state = rc.state          \* a mutant
StillAsRead ==
  /\ ~Busy /\ ~Active
  /\ agent.state = rc.state /\ agent.host = rc.host /\ rc.fresh

(* applyReconcileRule, for the states a move is met in.                    *)
Judged(s, phase) ==
  CASE phase = "absent" /\ s \in {"RUNNING", "STOPPED"} -> "FAILED"
    [] phase = "running" /\ s = "STOPPED" -> "RUNNING"
    [] phase = "stopped" /\ s = "RUNNING" -> "STOPPED"
    [] OTHER -> s

ReconcileJudge ==
  /\ rc.at = "answered"
  /\ agent' = IF StillAsRead THEN [agent EXCEPT !.state = Judged(@, rc.phase)] ELSE agent
  /\ rc' = RcOff
  /\ UNCHANGED <<op, mach, job>>

-----------------------------------------------------------------------------
(* What happens on the machines themselves.                                *)
MachineFlips(d) ==
  /\ mach' = [mach EXCEPT ![d].up = ~@]
  /\ UNCHANGED <<agent, op, job, rc>>

(* By hand: a container stopped, a stopped one pruned, and the copy a held *)
(* move asks its owner to remove.                                          *)
StoppedOutside(d) ==
  /\ mach[d].con = "running" /\ mach' = [mach EXCEPT ![d].con = "stopped"]
  /\ UNCHANGED <<agent, op, job, rc>>

Pruned(d) ==
  /\ mach[d].con = "stopped" /\ mach' = [mach EXCEPT ![d].con = "absent"]
  /\ UNCHANGED <<agent, op, job, rc>>

CopyRemovedByHand ==
  /\ op.status = "held" /\ op.choices = "orphan" /\ ~Busy
  /\ mach[Tgt].con # "absent"
  /\ mach' = [mach EXCEPT ![Tgt].con = "absent"]
  /\ UNCHANGED <<agent, op, job, rc>>

-----------------------------------------------------------------------------
Init ==
  \E h \in Hosts, s \in {"RUNNING", "STOPPED"}, pinned \in BOOLEAN :
    /\ agent = [host |-> h, state |-> s, image |-> pinned, key |-> h]
    /\ op = [status |-> "over", step |-> 0, from |-> h, to |-> h,
             wasRunning |-> FALSE, dropped |-> FALSE, choices |-> "none"]
    /\ mach = [d \in Daemons |->
                 IF d = DaemonOf[h]
                   THEN [con |-> IF s = "RUNNING" THEN "running" ELSE "stopped",
                         vol |-> "memory", up |-> TRUE]
                   ELSE [con |-> "absent", vol |-> "none", up |-> TRUE]]
    /\ job = [pc |-> "idle", src |-> h, mayRun |-> FALSE, targetUp |-> FALSE,
              orphan |-> FALSE]
    /\ rc = NoSweep(h)

(* A move's own steps, in the process that runs it.                        *)
MoveStep ==
  \/ MoveChecked \/ QuiesceSource \/ ExportState \/ RestartSource
  \/ ProvisionTarget \/ ImportState \/ FlipHost \/ RecordFlip
  \/ ConfigureTarget \/ StartTarget \/ AwaitHealthy \/ MarkRunning
  \/ RecordSettled \/ RetireSource
  \/ UndoOnTarget \/ PutBackRecord \/ HoldOrphan

Owner ==
  \/ \E s, t \in Hosts, drop \in BOOLEAN : MoveBegin(s, t, drop)
  \/ ChooseRetry \/ ChoosePutBack \/ ChooseRemoveCopy \/ ChooseCopyRemoved
  \/ StartRoute \/ StopRoute

Reconcile == ReconcileLook \/ ReconcileAnswer \/ ReconcileJudge

Outside ==
  \/ \E d \in Daemons : MachineFlips(d) \/ StoppedOutside(d) \/ Pruned(d)
  \/ CopyRemovedByHand

Next == MoveStep \/ ResumeInterrupted \/ Owner \/ Reconcile \/ Crash \/ Boot \/ Outside

(* Every await of a move ends (docker calls and the health wait have       *)
(* timeouts), and the restart pass is run at boot and every ten minutes.   *)
Fairness == WF_vars(MoveStep) /\ WF_vars(ResumeInterrupted)

Spec == Init /\ [][Next]_vars /\ Fairness

-----------------------------------------------------------------------------
(* Every variable stays in its type.                                       *)
AgentRow == [host : Hosts, state : {"RUNNING", "STOPPED", "FAILED"},
             image : BOOLEAN, key : Hosts]
OpRow    == [status : Statuses, step : 0..Removed, from : Hosts, to : Hosts,
             wasRunning : BOOLEAN, dropped : BOOLEAN, choices : Choices]
Job      == [pc : Points, src : Hosts, mayRun : BOOLEAN, targetUp : BOOLEAN,
             orphan : BOOLEAN]
Sweep    == [at : {"off", "asking", "answered"}, fresh : BOOLEAN, host : Hosts,
             state : {"RUNNING", "STOPPED", "FAILED"},
             phase : {"absent", "stopped", "running", "unknown"}]
TypeOK ==
  /\ agent \in AgentRow
  /\ op \in OpRow
  /\ mach \in [Daemons -> Machine]
  /\ job \in Job
  /\ rc \in Sweep

Running(d) == mach[d].con = "running"

(* "One bot, one poller": whatever fails or dies, the agent's container    *)
(* never runs on two machines at once.                                     *)
SinglePoller == \A d, e \in Daemons : Running(d) /\ Running(e) => d = e

(* The volume that counts holds the agent's memory: where the record says  *)
(* the agent is once a move is over or settled, where it left until then.  *)
MemoryHome ==
  IF ~Active \/ StepReached(Settled) THEN Home ELSE DaemonOf[op.from]
MemoryKept == mach[MemoryHome].vol = "memory"

(* Once a move is over, however it ended, what was changed for it fits     *)
(* where the agent is: the memory-search key the door knows is the one its *)
(* container was given, and a pin dropped for the move came back exactly   *)
(* if the move was undone.                                                 *)
RecordFits ==
  ~Active => /\ agent.key = agent.host
             /\ op.dropped => (agent.image <=> agent.host = op.from)

(* "nothing after 'settled' may undo the move".                            *)
NoGoingBack ==
  [][Active /\ StepReached(Settled) => UNCHANGED agent.host]_vars

(* An agent moved while stopped is started nowhere by its move, its        *)
(* restart rule or its owner's choices.                                    *)
StoppedStaysStopped ==
  [][Active /\ ~op.wasRunning => \A d \in Daemons : Running(d)' => Running(d)]_vars

(* Reconcile says "The agent runtime is missing" only of a runtime that is *)
(* missing on the machine the agent is on now, not on one it left (#13).   *)
MissingIsMissing ==
  [][agent.state # "FAILED" /\ agent'.state = "FAILED" => mach[Home].con = "absent"]_vars

(* Every other actor keeps off while a move is not over: the row changes   *)
(* only by the move's own steps.                                           *)
OnlyTheMove ==
  [][Active /\ ~Busy => UNCHANGED agent]_vars

(* Once the process stays up, a move that is under way or was cut off ends *)
(* or is held for its owner.                                               *)
OpSettles ==
  op.status \in {"running", "interrupted"}
    ~> op.status \in {"over", "held"} \/ job.pc = "dead"

(* The move implements OnePoller.  From the moment an undo begins, the     *)
(* memory that counts is the source's again, before the record says so.    *)
Undoing == job.pc \in {"undo", "putback"}
Abstract == INSTANCE OnePoller WITH
  Places  <- Daemons,
  home    <- IF Active /\ Undoing THEN DaemonOf[op.from] ELSE Home,
  holding <- {d \in Daemons : mach[d].vol = "memory"},
  polling <- {d \in Daemons : Running(d)}
OneHome == Abstract!Spec
=============================================================================
