--------------------------- MODULE MoveHostProofs ---------------------------
(***************************************************************************)
(* Theorems about MoveHost, for any number of machines and of host rows    *)
(* and any aliasing of rows to machines.                                   *)
(***************************************************************************)
EXTENDS MoveHost, TLAPS

-----------------------------------------------------------------------------
(* What a docker call can leave behind.                                    *)

(* Every state a call can leave its machine in is a machine state.         *)
LEMMA EffectsType ==
  ASSUME NEW m \in Machine, NEW v \in {"none", "other", "memory"}
  PROVE  /\ StopDone(m) \in Machine /\ MayStop(m) \subseteq Machine
         /\ StartDone(m) \in Machine /\ MayStart(m) \subseteq Machine
         /\ ProvisionDone(m) \in Machine /\ MayProvision(m) \subseteq Machine
         /\ ImportDone(m, v) \in Machine /\ MayImport(m, v) \subseteq Machine
         /\ DestroyDone(m) \in Machine /\ MayDestroy(m) \subseteq Machine
  BY DEF Machine, StopDone, MayStop, StartDone, MayStart, ProvisionDone, MayProvision,
         ImportDone, MayImport, DestroyDone, MayDestroy, Halt, Seed, Copy

(* A call changes its own machine at most, and into one of its effects.    *)
LEMMA CallType ==
  ASSUME mach \in [Daemons -> Machine],
         NEW d \in Daemons, NEW S \in SUBSET Machine, NEW m \in Machine,
         Tried(d, S) \/ Done(d, m)
  PROVE  mach' \in [Daemons -> Machine]
  BY DEF Tried, Done

(* The machines the record, the job and the operation name are machines.   *)
LEMMA HomesAreDaemons ==
  ASSUME TypeOK
  PROVE  Home \in Daemons /\ Src \in Daemons /\ Tgt \in Daemons
  BY HostsAssumption DEF TypeOK, AgentRow, OpRow, Job, Home, Src, Tgt

USE DEF Statuses, Choices, Points, Checked, Stopped, Exported, Created, Copied, Flipped,
        Configured, Started, Settled, Removed

(* Writing one column of the agents row with a value of its type keeps the *)
(* row's type.                                                             *)
LEMMA RowUpdates ==
  ASSUME TypeOK
  PROVE  /\ \A b \in BOOLEAN : [agent EXCEPT !.image = b] \in AgentRow
         /\ \A k \in Hosts : [agent EXCEPT !.key = k] \in AgentRow
         /\ \A st \in {"RUNNING", "STOPPED", "FAILED"} : [agent EXCEPT !.state = st] \in AgentRow
  BY DEF TypeOK, AgentRow

(* keepPin returns an agents row.                                          *)
LEMMA KeepPinType == ASSUME NEW a \in AgentRow, op \in OpRow PROVE KeepPin(a) \in AgentRow
<1>1. (a.image \/ op.dropped) \in BOOLEAN
  OBVIOUS
<1> QED BY <1>1 DEF KeepPin, AgentRow

(* A write seen, or not, by the sweep leaves the sweep well typed.         *)
LEMMA TouchType == ASSUME rc \in Sweep, NEW w, Touch(w) PROVE rc' \in Sweep
<1>1. (rc.fresh /\ ~w) \in BOOLEAN
  OBVIOUS
<1> QED BY <1>1 DEF Touch, Sweep

(* Every way an operation row is written leaves an operation row.          *)
LEMMA OpUpdates ==
  ASSUME op \in OpRow
  PROVE  /\ Over \in OpRow
         /\ [Over EXCEPT !.step = Removed] \in OpRow
         /\ \A n \in 0..Removed : [op EXCEPT !.step = n] \in OpRow
         /\ \A c \in Choices : [op EXCEPT !.status = "held", !.choices = c] \in OpRow
         /\ CutOff(op) \in OpRow
<1>1. Over \in OpRow
  BY DEF OpRow, Over
<1>2. [Over EXCEPT !.step = Removed] \in OpRow
  BY <1>1 DEF OpRow
<1>3. \A n \in 0..Removed : [op EXCEPT !.step = n] \in OpRow
  BY DEF OpRow
<1>4. \A c \in Choices : [op EXCEPT !.status = "held", !.choices = c] \in OpRow
  BY DEF OpRow
<1>5. CutOff(op) \in OpRow
  BY DEF OpRow, CutOff
<1> QED BY <1>1, <1>2, <1>3, <1>4, <1>5

(* Every way the process's local state is written keeps its type.          *)
LEMMA JobUpdates ==
  ASSUME job \in Job, op \in OpRow
  PROVE  /\ Idle \in Job
         /\ \A p \in Points : At(p) \in Job
         /\ \A p \in Points, b \in BOOLEAN : [At(p) EXCEPT !.mayRun = b] \in Job
         /\ \A p \in Points, b \in BOOLEAN : [At(p) EXCEPT !.orphan = b] \in Job
         /\ \A p \in Points, b, c \in BOOLEAN : Resumed(p, b, c) \in Job
         /\ [Idle EXCEPT !.pc = "dead"] \in Job
  BY DEF OpRow, Job, Idle, At, Resumed

(* The move's own steps keep the type of the operation row.                *)
LEMMA OpType == TypeOK /\ MoveStep => op' \in OpRow
<1> SUFFICES ASSUME TypeOK, MoveStep PROVE op' \in OpRow
  OBVIOUS
<1>t. op \in OpRow
  BY DEF TypeOK
<1>s. \A n \in {1, 2, 3, 4, 5, 6, 7, 8, 9, 10} : [op EXCEPT !.step = n] \in OpRow
  BY <1>t, OpUpdates
<1>1. CASE MoveChecked \/ RecordFlip \/ RecordSettled 
  BY <1>1, <1>t, <1>s
  DEF MoveChecked, RecordFlip, RecordSettled
<1>5. CASE ProvisionTarget \/ ImportState
           \/ ConfigureTarget \/ StartTarget
  BY <1>5, <1>t, <1>s
  DEF  ProvisionTarget, ImportState, ConfigureTarget, StartTarget
<1>2. CASE QuiesceSource \/ ExportState \/ RestartSource
  BY <1>2, <1>t, OpUpdates DEF QuiesceSource, ExportState, RestartSource
<1>3. CASE RetireSource \/ HoldOrphan
  BY <1>3, <1>t, OpUpdates DEF RetireSource, HoldOrphan
<1>4. CASE FlipHost \/ AwaitHealthy \/ MarkRunning \/ UndoOnTarget \/ PutBackRecord
  BY <1>4, <1>t DEF FlipHost, AwaitHealthy, MarkRunning, UndoOnTarget, PutBackRecord
<1> QED BY <1>1, <1>2, <1>3, <1>4, <1>5 DEF MoveStep

(* The move's own steps keep the type of the process's local state.        *)
LEMMA JobType == TypeOK /\ MoveStep => job' \in Job
<1> SUFFICES ASSUME TypeOK, MoveStep PROVE job' \in Job
  OBVIOUS
<1>0. \A b \in BOOLEAN : Orphaned(b) \in BOOLEAN
  BY DEF Orphaned
<1>1. CASE UndoOnTarget
  BY <1>0, <1>1, JobUpdates DEF UndoOnTarget, TypeOK
<1>2. CASE ConfigureTarget
  BY <1>2, JobUpdates DEF ConfigureTarget, TypeOK
<1>3. CASE PutBackRecord
  BY <1>3, JobUpdates DEF PutBackRecord, TypeOK
<1>4. CASE StartTarget
  BY <1>4, JobUpdates DEF StartTarget, TypeOK
<1> QED
 BY <1>1, <1>2, <1>3, <1>4, JobUpdates DEF TypeOK, MoveStep, MoveChecked, QuiesceSource, ExportState, RestartSource,
     ProvisionTarget, ImportState, FlipHost, RecordFlip,
     AwaitHealthy, MarkRunning, RecordSettled, RetireSource, HoldOrphan

(* The row an undo writes is an agents row.                                *)
LEMMA RowAsBefore == TypeOK => AsBefore(agent) \in AgentRow
  BY KeepPinType DEF TypeOK, OpRow, AgentRow, AsBefore

(* The move's own steps keep the type of the agents row.                   *)
LEMMA AgentType == TypeOK /\ MoveStep => agent' \in AgentRow
<1> SUFFICES ASSUME TypeOK, MoveStep PROVE agent' \in AgentRow
  OBVIOUS
<1>1. ASSUME TypeOK, MoveChecked PROVE agent' \in AgentRow
 <2>1. (agent.image /\ ~op.dropped) \in BOOLEAN
   OBVIOUS
 <2> QED BY <1>1, <2>1, RowUpdates DEF MoveChecked
<1>2. CASE RestartSource
  BY <1>2, KeepPinType DEF TypeOK, RestartSource, AgentRow
<1>3. CASE ProvisionTarget \/ ConfigureTarget
  <2>1. agent.key \in Hosts /\ op.to \in Hosts
    BY DEF TypeOK, AgentRow, OpRow
  <2> QED BY <1>3, <2>1, RowUpdates DEF TypeOK, ProvisionTarget, ConfigureTarget
<1>4. CASE FlipHost
  BY <1>4 DEF TypeOK, FlipHost, AgentRow, OpRow
<1>5. CASE QuiesceSource \/ MarkRunning \/ PutBackRecord
  BY <1>5, RowUpdates, KeepPinType, RowAsBefore DEF TypeOK, QuiesceSource, MarkRunning, PutBackRecord
<1> QED
  BY <1>1, <1>2, <1>3, <1>4, <1>5
  DEF TypeOK, MoveStep, ExportState, 
     ImportState, RecordFlip, StartTarget,
     AwaitHealthy, RecordSettled, RetireSource, UndoOnTarget, HoldOrphan

-----------------------------------------------------------------------------
(* The machine the move left.                                              *)
From == DaemonOf[op.from]

(* The job's points before and after the record points at the target.      *)
Before == {"begun", "quiesce", "export", "provision", "import", "flip"}
After  == {"flipped", "configure", "start", "health", "settle", "settled", "retire"}

(* How the record, the row of the move and the job's place in it fit:      *)
(* where the record points at each place, and which steps are on record    *)
(* there.                                                                  *)
Shape ==
  /\ Busy => Active /\ job.src = op.from
  /\ Active => From # Tgt /\ agent.host \in {op.from, op.to}
  /\ job.pc \in Before \union {"restart", "hold"} => agent.host = op.from
  /\ job.pc \in After => agent.host = op.to
  /\ job.pc \in Before \union After => op.choices # "orphan"
  /\ job.pc \in Before \ {"begun"} => op.step # 0
  /\ job.pc \in Before \union {"flipped"} => ~StepReached(Flipped)
  /\ job.pc \in {"start", "health"} => TargetMayRun
  /\ job.pc = "health" => job.mayRun
  /\ Active /\ op.step = 0 => agent.host = op.from
  /\ op.choices = "orphan" => op.status = "held" /\ agent.host = op.from

(* Nothing is started; a volume holds the memory; a machine's copy is left *)
(* alone.                                                                  *)
NoNewRunner == \A e \in Daemons : Running(e)' => Running(e)
Mem(d) == mach[d].vol = "memory"

Untouched(e) == (Running(e)' <=> Running(e)) /\ (Mem(e)' <=> Mem(e))

(* A docker call leaves every other machine's container and volume alone.  *)
LEMMA CallFrame ==
  ASSUME mach \in [Daemons -> Machine], NEW d \in Daemons, NEW S, NEW m,
         Tried(d, S) \/ Done(d, m)
  PROVE  \A e \in Daemons \ {d} : Untouched(e)
  BY DEF Tried, Done, Untouched, Running, Mem

(* A call leaves its machine as it was or in one of its effects.           *)
LEMMA CallEffect ==
  ASSUME mach \in [Daemons -> Machine], NEW d \in Daemons, NEW S, NEW m \in S,
         Tried(d, S) \/ Done(d, m)
  PROVE  mach'[d] \in S \/ mach'[d] = mach[d]
  BY DEF Tried, Done

(* A stop starts nothing and loses no memory.                              *)
LEMMA StopCall ==
  ASSUME mach \in [Daemons -> Machine], NEW d \in Daemons,
         Tried(d, MayStop(mach[d])) \/ Done(d, StopDone(mach[d]))
  PROVE  /\ NoNewRunner
         /\ \A e \in Daemons : Mem(e)' <=> Mem(e)
<1>1. \A x \in MayStop(mach[d]) : (x.con = "running" => mach[d].con = "running") /\ x.vol = mach[d].vol
  BY DEF MayStop, StopDone, Halt, Machine
<1>2. (mach'[d].con = "running" => mach[d].con = "running") /\ mach'[d].vol = mach[d].vol
  BY <1>1 DEF Tried, Done, MayStop
<1> QED BY <1>2, CallFrame DEF NoNewRunner, Untouched, Running, Mem

(* A stop that answered leaves its machine's container not running.        *)
LEMMA StopSure ==
  ASSUME mach \in [Daemons -> Machine], NEW d \in Daemons, Done(d, StopDone(mach[d]))
  PROVE  mach'[d].con # "running"
<1>1. mach'[d] = StopDone(mach[d]) /\ mach[d] \in Machine
  BY DEF Done
<1> QED BY <1>1 DEF StopDone, Halt, Machine

(* A start can start its own machine's container only, and loses no        *)
(* memory.                                                                 *)
LEMMA StartCall ==
  ASSUME mach \in [Daemons -> Machine], NEW d \in Daemons,
         Tried(d, MayStart(mach[d])) \/ Done(d, StartDone(mach[d]))
  PROVE  /\ \A e \in Daemons \ {d} : Running(e)' => Running(e)
         /\ \A e \in Daemons : Mem(e)' <=> Mem(e)
<1>1. \A x \in MayStart(mach[d]) : x.vol = mach[d].vol
  BY DEF MayStart, StartDone, Machine
<1>2. mach'[d].vol = mach[d].vol
  BY <1>1 DEF Tried, Done, MayStart
<1> QED BY <1>2, CallFrame DEF Untouched, Running, Mem

(* A provision starts nothing and loses no memory; it seeds an empty       *)
(* volume.                                                                 *)
LEMMA ProvisionCall ==
  ASSUME mach \in [Daemons -> Machine], NEW d \in Daemons,
         Tried(d, MayProvision(mach[d])) \/ Done(d, ProvisionDone(mach[d]))
  PROVE  /\ NoNewRunner
         /\ \A e \in Daemons : Mem(e) => Mem(e)'
         /\ Done(d, ProvisionDone(mach[d])) => mach'[d].con # "running"
<1>1. \A x \in MayProvision(mach[d]) :
        /\ x.con = "running" => mach[d].con = "running"
        /\ mach[d].vol = "memory" => x.vol = "memory"
  <2> SUFFICES ASSUME NEW x \in MayProvision(mach[d])
               PROVE  /\ x.con = "running" => mach[d].con = "running"
                      /\ mach[d].vol = "memory" => x.vol = "memory"
    OBVIOUS
  <2>1. mach[d] \in Machine
    OBVIOUS
  <2>2. CASE x = mach[d]
    BY <2>2
  <2>3. CASE x = [mach[d] EXCEPT !.vol = Seed(@)]
    BY <2>1, <2>3 DEF Seed, Machine
  <2>4. CASE x = [mach[d] EXCEPT !.con = "absent", !.vol = Seed(@)]
    BY <2>1, <2>4 DEF Seed, Machine
  <2>5. CASE x = ProvisionDone(mach[d])
    BY <2>1, <2>5 DEF ProvisionDone, Seed, Machine
  <2> QED BY <2>2, <2>3, <2>4, <2>5 DEF MayProvision
<1>2. /\ mach'[d].con = "running" => mach[d].con = "running"
      /\ mach[d].vol = "memory" => mach'[d].vol = "memory"
  <2>1. ProvisionDone(mach[d]) \in MayProvision(mach[d])
    BY DEF MayProvision
  <2>2. mach'[d] \in MayProvision(mach[d]) \/ mach'[d] = mach[d]
    BY <2>1, CallEffect
  <2> QED BY <1>1, <2>2
<1>3. Done(d, ProvisionDone(mach[d])) => mach'[d].con # "running"
  BY DEF Done, ProvisionDone, Machine, Running
<1> QED BY <1>2, <1>3, CallFrame DEF NoNewRunner, Untouched, Running, Mem

(* An import starts nothing and changes its own machine's volume only.     *)
LEMMA ImportCall ==
  ASSUME mach \in [Daemons -> Machine], NEW d \in Daemons, NEW v,
         Tried(d, MayImport(mach[d], v)) \/ Done(d, ImportDone(mach[d], v))
  PROVE  /\ NoNewRunner
         /\ \A e \in Daemons \ {d} : Mem(e)' <=> Mem(e)
         /\ v = "memory" /\ Done(d, ImportDone(mach[d], v)) => Mem(d)'
<1>1. \A x \in MayImport(mach[d], v) : x.con = mach[d].con
  BY DEF MayImport, ImportDone, Machine
<1>2. mach'[d].con = mach[d].con
  BY <1>1 DEF Tried, Done, MayImport
<1>3. v = "memory" /\ Done(d, ImportDone(mach[d], v)) => Mem(d)'
  BY DEF Done, ImportDone, Copy, Machine, Mem
<1> QED BY <1>2, <1>3, CallFrame DEF NoNewRunner, Untouched, Running, Mem

(* A destroy starts nothing and changes its own machine only.              *)
LEMMA DestroyCall ==
  ASSUME mach \in [Daemons -> Machine], NEW d \in Daemons,
         Tried(d, MayDestroy(mach[d])) \/ Done(d, DestroyDone(mach[d]))
  PROVE  /\ NoNewRunner
         /\ \A e \in Daemons \ {d} : Mem(e)' <=> Mem(e)
         /\ Done(d, DestroyDone(mach[d])) => mach'[d].con # "running"
<1>1. \A x \in MayDestroy(mach[d]) : x.con = "running" => mach[d].con = "running"
  <2>1. mach[d] \in Machine
    OBVIOUS
  <2> QED BY <2>1 DEF MayDestroy, DestroyDone, Machine
<1>2. mach'[d].con = "running" => mach[d].con = "running"
  <2>1. DestroyDone(mach[d]) \in MayDestroy(mach[d])
    BY DEF MayDestroy
  <2>2. mach'[d] \in MayDestroy(mach[d]) \/ mach'[d] = mach[d]
    BY <2>1, CallEffect
  <2> QED BY <1>1, <2>2
<1>3. Done(d, DestroyDone(mach[d])) => mach'[d].con # "running"
  BY DEF Done, DestroyDone, Machine, Running
<1> QED BY <1>2, <1>3, CallFrame DEF NoNewRunner, Untouched, Running, Mem
(* Shape is preserved by the move's own steps.                             *)
LEMMA ShapeMoveStep == TypeOK /\ Shape /\ MoveStep => Shape'
<1> SUFFICES ASSUME TypeOK, Shape, MoveStep PROVE Shape'
  OBVIOUS
<1> USE DEF TypeOK, OpRow, Job, AgentRow, Shape, Before, After, Busy, Active, StepReached, TargetMayRun, ToBeStarted, From, Tgt, At, Idle, Over
<1>1. CASE MoveChecked
  BY <1>1 DEF MoveChecked
<1>2. CASE QuiesceSource
  <2>1. agent'.host = agent.host
    BY <1>2 DEF QuiesceSource, KeepPin
  <2>2. job.pc = "quiesce"
    BY <1>2 DEF QuiesceSource
  <2>3. CASE op' = [op EXCEPT !.step = Stopped] /\ job' = At("export")
    BY <2>1, <2>2, <2>3
  <2>4. CASE op' = Over /\ job' = Idle
    BY <2>1, <2>2, <2>4
  <2> QED BY <1>2, <2>3, <2>4 DEF QuiesceSource
<1>3. CASE ExportState
  BY <1>3 DEF ExportState
<1>4. CASE RestartSource
  BY <1>4 DEF RestartSource, KeepPin
<1>5. CASE ProvisionTarget
  BY <1>5 DEF ProvisionTarget
<1>6. CASE ImportState
  BY <1>6 DEF ImportState
<1>7. CASE FlipHost
  BY <1>7 DEF FlipHost
<1>8. CASE RecordFlip
  BY <1>8 DEF RecordFlip
<1>9. CASE ConfigureTarget
  <2>1. agent'.host = agent.host
    BY <1>9 DEF ConfigureTarget
  <2>2. \/ /\ op' = [op EXCEPT !.step = Configured]
           /\ job' = At(IF op.wasRunning THEN "start" ELSE "settle")
        \/ op' = op /\ job' = At("undo")
    BY <1>9 DEF ConfigureTarget
  <2>3. job.pc = "configure"
    BY <1>9 DEF ConfigureTarget
  <2> QED BY <2>1, <2>2, <2>3
<1>10. CASE StartTarget
  <2>1. /\ op' = [op EXCEPT !.step = Started] \/ op' = op
        /\ job'.pc \in {"health", "undo"} /\ job'.mayRun /\ job'.src = job.src
    BY <1>10 DEF StartTarget
  <2>2. job.pc = "start" /\ agent' = agent
    BY <1>10 DEF StartTarget
  <2> QED BY <2>1, <2>2
<1>11. CASE AwaitHealthy
  BY <1>11 DEF AwaitHealthy
<1>12. CASE MarkRunning
  BY <1>12 DEF MarkRunning
<1>13. CASE RecordSettled
  BY <1>13 DEF RecordSettled
<1>14. CASE RetireSource
  BY <1>14 DEF RetireSource
<1>15. CASE UndoOnTarget
  <2>1. job.pc = "undo" /\ agent' = agent /\ op' = op
    BY <1>15 DEF UndoOnTarget
  <2>2. job'.pc = "putback" /\ job'.src = job.src
    BY <1>15 DEF UndoOnTarget
  <2> QED BY <2>1, <2>2
<1>16. CASE PutBackRecord
  BY <1>16 DEF PutBackRecord, AsBefore, KeepPin
<1>17. CASE HoldOrphan
  BY <1>17 DEF HoldOrphan
<1> QED BY <1>1, <1>2, <1>3, <1>4, <1>5, <1>6, <1>7, <1>8, <1>9, <1>10, <1>11, <1>12, <1>13, <1>14, <1>15, <1>16, <1>17 DEF MoveStep

(* Outside the move's own steps nothing repoints the record at another     *)
(* host.                                                                   *)
LEMMA HostStays ==
  ASSUME TypeOK, StartRoute \/ StopRoute \/ Reconcile \/ Outside \/ Crash \/ Boot
  PROVE  agent'.host = agent.host
  BY DEF TypeOK, AgentRow, StartRoute, StopRoute, Reconcile, ReconcileLook, ReconcileAnswer,
         ReconcileJudge, Outside, MachineFlips, StoppedOutside, Pruned, CopyRemovedByHand,
         Crash, Boot

(* The restart rule keeps Shape.                                           *)
LEMMA ShapeResume ==
  ASSUME TypeOK, Shape, ResumeMove, job.pc = "idle", Active, op.choices # "orphan"
  PROVE  Shape'
<1> USE DEF TypeOK, OpRow, Job, AgentRow, Shape, Before, After, Busy, Active, StepReached,
            TargetMayRun, From, Tgt, Over, Resumed
<1>1. agent' = agent
  BY DEF ResumeMove
<1>2. CASE op.step = 0 /\ op' = Over /\ job' = job
  BY <1>1, <1>2
<1>3. CASE /\ op.step # 0 /\ agent.host # op.to /\ op' = op
           /\ \E a \in Answers(Tgt) : job' = Resumed("undo", FALSE, a)
  BY <1>1, <1>3
<1>4. CASE /\ op.step # 0 /\ agent.host = op.to /\ op' = op
           /\ job' = Resumed("retire", FALSE, TRUE)
  BY <1>1, <1>4
<1>5. CASE /\ op.step # 0 /\ agent.host = op.to /\ op' = op
           /\ job' = Resumed("configure", TargetMayRun, TRUE)
  BY <1>1, <1>5
<1>6. CASE /\ op.step # 0 /\ agent.host = op.to /\ job' = job
           /\ op' = [op EXCEPT !.status = "held", !.choices = "move"]
  BY <1>1, <1>6
<1> QED
  BY <1>2, <1>3, <1>4, <1>5, <1>6 DEF ResumeMove

(* Shape is preserved by every step.                                       *)
LEMMA ShapeStep == TypeOK /\ Shape /\ [Next]_vars => Shape'
<1> SUFFICES ASSUME TypeOK, Shape, [Next]_vars PROVE Shape'
  OBVIOUS
<1>1. CASE MoveStep
  BY <1>1, ShapeMoveStep
<1>2. CASE ResumeInterrupted
  <2>1. job.pc = "idle" /\ Active /\ op.choices # "orphan" /\ ResumeMove
    BY <1>2 DEF ResumeInterrupted, Active, Shape
  <2> QED BY <2>1, ShapeResume
<1>3. CASE ChooseRetry
  <2>1. job.pc = "idle" /\ Active /\ op.choices # "orphan" /\ ResumeMove
    BY <1>3 DEF ChooseRetry, Chosen, Active
  <2> QED BY <2>1, ShapeResume
<1> USE DEF TypeOK, OpRow, Job, AgentRow, Shape, Before, After, Busy, Active, StepReached,
            TargetMayRun, From, Tgt, Idle
<1>4. CASE \E s, t \in Hosts, drop \in BOOLEAN : MoveBegin(s, t, drop)
  <2>1. PICK s \in Hosts, t \in Hosts, drop \in BOOLEAN : MoveBegin(s, t, drop)
    BY <1>4
  <2>2. /\ op'.status = "running" /\ op'.step = 0 /\ op'.from = agent.host /\ op'.to = t
        /\ op'.choices = "none" /\ job'.pc = "begun" /\ job'.src = agent.host /\ agent' = agent
        /\ DaemonOf[agent.host] # DaemonOf[t]
    BY <2>1 DEF MoveBegin, DifferentDaemons
  <2> QED BY <2>2
<1>5. CASE ChoosePutBack \/ ChooseRemoveCopy \/ ChooseCopyRemoved
  <2>1. /\ op' = op /\ agent' = agent /\ job'.pc = "undo" /\ job'.src = op.from
        /\ op.status = "held"
    <3>1. CASE ChoosePutBack
      BY <3>1 DEF ChoosePutBack, Resumed, Chosen
    <3>2. CASE ChooseRemoveCopy
      BY <3>2 DEF ChooseRemoveCopy, Resumed, Chosen
    <3>3. CASE ChooseCopyRemoved
      BY <3>3 DEF ChooseCopyRemoved, Resumed, Chosen
    <3> QED BY <1>5, <3>1, <3>2, <3>3
  <2> QED BY <2>1
<1>6. CASE StartRoute \/ StopRoute \/ Reconcile \/ Outside
  <2>1. op' = op /\ job' = job
    BY <1>6 DEF StartRoute, StopRoute, Reconcile, ReconcileLook, ReconcileAnswer, ReconcileJudge,
                Outside, MachineFlips, StoppedOutside, Pruned, CopyRemovedByHand
  <2> QED BY <1>6, <2>1, HostStays
<1>7. CASE Crash
  <2>1. op' = op /\ job'.pc = "dead" /\ agent'.host = agent.host
    BY <1>7, HostStays DEF Crash
  <2> QED BY <2>1
<1>8. CASE Boot
  <2>1. job'.pc = "idle" /\ agent' = agent /\ op' = CutOff(op) /\ job.pc = "dead"
    BY <1>8 DEF Boot
  <2> QED BY <2>1 DEF CutOff
<1>9. CASE UNCHANGED vars
  BY <1>9 DEF vars
<1> QED BY <1>1, <1>2, <1>3, <1>4, <1>5, <1>6, <1>7, <1>8, <1>9 DEF Next, Owner

(* What makes SinglePoller inductive: which of the two copies may run at   *)
(* each place of the job and on each record, and that a copy of the target *)
(* that may run is on record as one (TargetMayRun, job.mayRun, job.orphan) *)
(* before the source is ever started.                                      *)
Quiet ==
  /\ ~Active => \A d \in Daemons : Running(d) => d = Home
  /\ Active => \A d \in Daemons : Running(d) => d \in {From, Tgt}
  /\ Active => ~(Running(From) /\ Running(Tgt))
  /\ Active /\ agent.host = op.from /\ op.choices # "orphan" /\ job.pc # "hold" =>
       ~Running(Tgt)
  /\ Active /\ agent.host = op.to =>
       ~Running(From) /\ (Running(Tgt) => TargetMayRun)
  /\ job.pc \in {"export", "provision", "import", "flip"} => ~Running(From)
  /\ job.pc = "restart" => ~Running(Tgt)
  /\ job.pc \in {"configure", "undo"} => (Running(Tgt) => job.mayRun)
  /\ job.pc = "putback" => (Running(Tgt) => job.orphan)

(* Quiet is preserved by the move's own steps.                             *)
LEMMA QuietMoveStep == TypeOK /\ Shape /\ Quiet /\ MoveStep => Quiet'
<1> SUFFICES ASSUME TypeOK, Shape, Quiet, MoveStep PROVE Quiet'
  OBVIOUS
<1>d. /\ From \in Daemons /\ Src \in Daemons /\ Tgt \in Daemons /\ Home \in Daemons
      /\ mach \in [Daemons -> Machine]
  BY HostsAssumption DEF TypeOK, AgentRow, OpRow, Job, From, Src, Tgt, Home
<1>s. Busy /\ Active /\ Src = From /\ From # Tgt
  BY DEF Shape, MoveStep, Busy, Src, From, MoveChecked, QuiesceSource, ExportState, RestartSource,
         ProvisionTarget, ImportState, FlipHost, RecordFlip, ConfigureTarget, StartTarget,
         AwaitHealthy, MarkRunning, RecordSettled, RetireSource, UndoOnTarget, PutBackRecord,
         HoldOrphan
<1> USE <1>d, <1>s DEF Shape, Quiet, Before, After, Active
<1> USE DEF TypeOK, OpRow, AgentRow, Job, From, Tgt, Home, StepReached, TargetMayRun, Running
<1>1. CASE MoveChecked
  BY <1>1 DEF MoveChecked, At
<1>3. CASE ExportState
  BY <1>3 DEF ExportState, At
<1>7. CASE FlipHost
  BY <1>7 DEF FlipHost, At
<1>8. CASE RecordFlip
  BY <1>8 DEF RecordFlip, At
<1>11. CASE AwaitHealthy
  BY <1>11 DEF AwaitHealthy, At
<1>12. CASE MarkRunning
  BY <1>12 DEF MarkRunning, At
<1>13. CASE RecordSettled
  BY <1>13 DEF RecordSettled, At
<1>16. CASE PutBackRecord
  BY <1>16 DEF PutBackRecord, AsBefore, KeepPin, At
<1>17. CASE HoldOrphan
  BY <1>17 DEF HoldOrphan, Idle
<1> HIDE DEF Running
<1>2. CASE QuiesceSource
  <2>1. NoNewRunner /\ (Done(Src, StopDone(mach[Src])) => mach'[Src].con # "running")
    <3>1. Tried(Src, MayStop(mach[Src])) \/ Done(Src, StopDone(mach[Src]))
      BY <1>2 DEF QuiesceSource
    <3>2. NoNewRunner
      BY <3>1, StopCall
    <3>3. ASSUME Done(Src, StopDone(mach[Src])) PROVE mach'[Src].con # "running"
      BY <3>3, StopSure
    <3> QED BY <3>2, <3>3
  <2>2. agent'.host = agent.host /\ job.pc = "quiesce" /\ agent.host = op.from
    BY <1>2 DEF QuiesceSource, KeepPin
  <2>3. CASE /\ Done(Src, StopDone(mach[Src])) /\ job' = At("export")
             /\ op' = [op EXCEPT !.step = Stopped]
    <3>1. job'.pc = "export" /\ op' = [op EXCEPT !.step = Stopped]
      BY <2>3 DEF At
    <3>2. mach'[From].con # "running"
      BY <2>1, <2>3
    <3>3. op.choices # "orphan" /\ op.from # op.to
      BY <2>2
    <3> QED BY <2>1, <2>2, <3>1, <3>2, <3>3 DEF NoNewRunner, Running
  <2>4. CASE op' = Over /\ job' = Idle
    BY <2>1, <2>2, <2>4 DEF Over, Idle, NoNewRunner
  <2> QED BY <1>2, <2>3, <2>4 DEF QuiesceSource
<1>4. CASE RestartSource
  <2>1. \A e \in Daemons \ {Src} : Running(e)' => Running(e)
    <3>1. CASE Tried(Src, MayStart(mach[Src])) \/ Done(Src, StartDone(mach[Src]))
      BY <3>1, StartCall
    <3>2. CASE mach' = mach
      BY <3>2 DEF Running
    <3> QED BY <1>4, <3>1, <3>2 DEF RestartSource
  <2>2. /\ agent'.host = agent.host /\ job.pc = "restart" /\ agent.host = op.from
        /\ op' = Over /\ job' = Idle
    BY <1>4 DEF RestartSource, KeepPin
  <2> QED BY <2>1, <2>2 DEF Over, Idle
<1>5. CASE ProvisionTarget
  <2>1. NoNewRunner
    BY <1>5, ProvisionCall DEF ProvisionTarget
  <2>2. /\ agent'.host = agent.host /\ job.pc = "provision"
        /\ \/ op' = [op EXCEPT !.step = Created] /\ job' = At("import")
           \/ op' = op /\ job' = At("undo")
    BY <1>5 DEF ProvisionTarget
  <2> QED BY <2>1, <2>2 DEF At, NoNewRunner
<1>6. CASE ImportState
  <2>1. NoNewRunner
    BY <1>6, ImportCall DEF ImportState
  <2>2. /\ agent' = agent /\ job.pc = "import"
        /\ \/ op' = [op EXCEPT !.step = Copied] /\ job' = At("flip")
           \/ op' = op /\ job' = At("undo")
    BY <1>6 DEF ImportState
  <2> QED BY <2>1, <2>2 DEF At, NoNewRunner
<1>9. CASE ConfigureTarget
  <2>1. NoNewRunner /\ (Done(Tgt, ProvisionDone(mach[Tgt])) => mach'[Tgt].con # "running")
    BY <1>9, ProvisionCall DEF ConfigureTarget
  <2>2. /\ agent'.host = agent.host /\ job.pc = "configure"
        /\ \/ /\ Done(Tgt, ProvisionDone(mach[Tgt])) /\ op' = [op EXCEPT !.step = Configured]
              /\ job' = At(IF op.wasRunning THEN "start" ELSE "settle")
           \/ op' = op /\ job' = At("undo")
    BY <1>9 DEF ConfigureTarget, ToBeStarted
  <2> QED BY <2>1, <2>2 DEF At, NoNewRunner, Running
<1>10. CASE StartTarget
  <2>1. \A e \in Daemons \ {Tgt} : Running(e)' => Running(e)
    BY <1>10, StartCall DEF StartTarget
  <2>2. /\ agent' = agent /\ job.pc = "start"
        /\ op' = [op EXCEPT !.step = Started] \/ op' = op
        /\ job'.pc \in {"health", "undo"} /\ job'.mayRun
    BY <1>10 DEF StartTarget, At
  <2> QED BY <2>1, <2>2
<1>14. CASE RetireSource
  <2>1. NoNewRunner
    BY <1>14, DestroyCall DEF RetireSource
  <2>2. agent' = agent /\ job.pc = "retire" /\ op'.status = "over" /\ job' = Idle
    BY <1>14 DEF RetireSource, Over
  <2> QED BY <2>1, <2>2 DEF Idle, NoNewRunner
<1>15. CASE UndoOnTarget
  <2>1. NoNewRunner /\ (Done(Tgt, DestroyDone(mach[Tgt])) => mach'[Tgt].con # "running")
    BY <1>15, DestroyCall DEF UndoOnTarget, NoNewRunner, Running
  <2>2. agent' = agent /\ op' = op /\ job.pc = "undo" /\ job'.pc = "putback"
    BY <1>15 DEF UndoOnTarget, At
  <2>3. Running(Tgt)' => job'.orphan
    <3>1. CASE Done(Tgt, DestroyDone(mach[Tgt]))
      BY <2>1, <2>2, <3>1 DEF Running
    <3>2. ASSUME Running(Tgt)',
                 NEW down \in (IF job.targetUp /\ mach[Tgt].up /\ mach'[Tgt].con # "running"
                                THEN BOOLEAN ELSE {FALSE}),
                 job' = [At("putback") EXCEPT !.orphan = Orphaned(down)]
          PROVE  job'.orphan
      <4>1. ~down /\ job.mayRun
        BY <2>1, <2>2, <3>2 DEF Running, NoNewRunner
      <4>2. job'.orphan = Orphaned(down)
        BY <3>2 DEF At
      <4> QED BY <4>1, <4>2 DEF Orphaned
    <3> QED BY <1>15, <3>1, <3>2 DEF UndoOnTarget
  <2> QED BY <2>1, <2>2, <2>3 DEF NoNewRunner
<1> QED
  BY <1>1, <1>2, <1>3, <1>4, <1>5, <1>6, <1>7, <1>8, <1>9, <1>10, <1>11, <1>12, <1>13,
     <1>14, <1>15, <1>16, <1>17 DEF MoveStep

(* Quiet is preserved by the restart rule.                                 *)
LEMMA QuietResume ==
  ASSUME TypeOK, Shape, Quiet, ResumeMove, job.pc = "idle", Active, op.choices # "orphan"
  PROVE  Quiet'
<1> USE DEF TypeOK, OpRow, Job, AgentRow, Shape, Quiet, Active, StepReached, TargetMayRun,
            From, Tgt, Home, Over, Resumed, Running
<1>1. agent' = agent /\ mach' = mach
  BY DEF ResumeMove
<1>2. CASE op.step = 0 /\ op' = Over /\ job' = job
  BY <1>1, <1>2
<1>3. CASE /\ op.step # 0 /\ agent.host # op.to /\ op' = op
           /\ \E a \in Answers(Tgt) : job' = Resumed("undo", FALSE, a)
  BY <1>1, <1>3
<1>4. CASE /\ op.step # 0 /\ agent.host = op.to /\ op' = op
           /\ job' = Resumed("retire", FALSE, TRUE)
  BY <1>1, <1>4
<1>5. CASE /\ op.step # 0 /\ agent.host = op.to /\ op' = op
           /\ job' = Resumed("configure", TargetMayRun, TRUE)
  BY <1>1, <1>5
<1>6. CASE /\ op.step # 0 /\ agent.host = op.to /\ job' = job
           /\ op' = [op EXCEPT !.status = "held", !.choices = "move"]
  BY <1>1, <1>6
<1> QED
  BY <1>2, <1>3, <1>4, <1>5, <1>6 DEF ResumeMove

(* Quiet is preserved by the routes and by the owner's choices.            *)
LEMMA QuietOwner ==
  ASSUME TypeOK, Shape, Quiet, Owner
  PROVE  Quiet'
<1> USE DEF TypeOK, OpRow, Job, AgentRow, Shape, Quiet, Active, StepReached, TargetMayRun,
            From, Tgt, Home, Running
<1>1. CASE ChooseRetry
  <2>1. job.pc = "idle" /\ Active /\ op.choices # "orphan" /\ ResumeMove
    BY <1>1 DEF ChooseRetry, Chosen
  <2> HIDE DEF Quiet, Shape, TypeOK, Active
  <2> QED BY <2>1, QuietResume
<1>2. CASE \E s, t \in Hosts, drop \in BOOLEAN : MoveBegin(s, t, drop)
  <2>1. PICK s \in Hosts, t \in Hosts, drop \in BOOLEAN : MoveBegin(s, t, drop)
    BY <1>2
  <2>2. /\ op'.status = "running" /\ op'.from = agent.host /\ op'.to = t
        /\ job'.pc = "begun" /\ agent' = agent /\ mach' = mach
        /\ DaemonOf[agent.host] # DaemonOf[t] /\ ~Active
    BY <2>1 DEF MoveBegin, DifferentDaemons, Free
  <2> QED BY <2>2, HostsAssumption
<1>3. CASE ChoosePutBack
  <2>1. /\ op' = op /\ agent' = agent /\ mach' = mach /\ job'.pc = "undo"
        /\ job'.mayRun = TargetMayRun /\ Active /\ op.choices # "orphan" /\ job.pc = "idle"
    BY <1>3 DEF ChoosePutBack, Resumed, Chosen
  <2> QED BY <2>1
<1>4. CASE ChooseRemoveCopy
  <2>1. /\ op' = op /\ agent' = agent /\ mach' = mach /\ job'.pc = "undo" /\ job'.mayRun
        /\ Active /\ op.choices = "orphan"
    BY <1>4 DEF ChooseRemoveCopy, Resumed, Chosen
  <2> QED BY <2>1
<1>5. CASE ChooseCopyRemoved
  <2>1. /\ op' = op /\ agent' = agent /\ mach' = mach /\ job'.pc = "undo" /\ ~Running(Tgt)
        /\ Active /\ op.choices = "orphan"
    BY <1>5 DEF ChooseCopyRemoved, Resumed, Chosen
  <2> QED BY <2>1
<1>6. CASE StartRoute
  <2>1. Home \in Daemons /\ mach \in [Daemons -> Machine]
    BY HostsAssumption
  <2>2. /\ ~Active /\ op' = op /\ job' = job /\ agent'.host = agent.host /\ job.pc = "idle"
        /\ Tried(Home, MayStart(mach[Home])) \/ Done(Home, StartDone(mach[Home]))
    BY <1>6 DEF StartRoute, Free
  <2>3. \A e \in Daemons \ {Home} : Running(e)' => Running(e)
    BY <2>1, <2>2, StartCall
  <2> QED BY <2>2, <2>3
<1>7. CASE StopRoute
  <2>1. Home \in Daemons /\ mach \in [Daemons -> Machine]
    BY HostsAssumption
  <2>2. /\ ~Active /\ op' = op /\ job' = job /\ agent'.host = agent.host /\ job.pc = "idle"
        /\ Tried(Home, MayStop(mach[Home])) \/ Done(Home, StopDone(mach[Home]))
    BY <1>7 DEF StopRoute, Free
  <2>3. NoNewRunner
    BY <2>1, <2>2, StopCall
  <2> QED BY <2>2, <2>3 DEF NoNewRunner
<1> QED BY <1>1, <1>2, <1>3, <1>4, <1>5, <1>6, <1>7 DEF Owner

(* A call cut off by a death starts no container that its step could not   *)
(* have started.                                                           *)
LEMMA CallUnderWayFrame ==
  ASSUME TypeOK, Shape, CallUnderWay
  PROVE  /\ job.pc \notin {"restart", "start"} => NoNewRunner
         /\ job.pc = "restart" => \A e \in Daemons \ {Src} : Running(e)' => Running(e)
         /\ job.pc = "start" => \A e \in Daemons \ {Tgt} : Running(e)' => Running(e)
<1>d. Src \in Daemons /\ Tgt \in Daemons /\ mach \in [Daemons -> Machine]
  BY HomesAreDaemons DEF TypeOK
<1>0. CASE mach' = mach
  BY <1>0 DEF NoNewRunner, Running
<1>1. CASE job.pc = "quiesce" /\ Tried(Src, MayStop(mach[Src]))
  BY <1>1, <1>d, StopCall
<1>2. CASE job.pc = "restart" /\ Tried(Src, MayStart(mach[Src]))
  BY <1>2, <1>d, StartCall
<1>3. CASE job.pc \in {"provision", "configure"} /\ Tried(Tgt, MayProvision(mach[Tgt]))
  BY <1>3, <1>d, ProvisionCall
<1>4. CASE job.pc = "import" /\ Tried(Tgt, MayImport(mach[Tgt], mach[Src].vol))
  BY <1>4, <1>d, ImportCall
<1>5. CASE job.pc = "start" /\ Tried(Tgt, MayStart(mach[Tgt]))
  BY <1>5, <1>d, StartCall
<1>6. CASE job.pc = "retire" /\ Tried(Src, MayDestroy(mach[Src]))
  BY <1>6, <1>d, DestroyCall
<1>7. CASE job.pc = "undo" /\ Tried(Tgt, MayDestroy(mach[Tgt]))
  BY <1>7, <1>d, DestroyCall
<1> QED
  BY <1>0, <1>1, <1>2, <1>3, <1>4, <1>5, <1>6, <1>7 DEF CallUnderWay

(* Quiet survives a death of the process outside the "holding" window.     *)
LEMMA QuietCrash ==
  ASSUME "holding" \notin CrashPoints, TypeOK, Shape, Quiet, Crash
  PROVE  Quiet'
<1>1. CallUnderWay /\ op' = op /\ job'.pc = "dead" /\ agent'.host = agent.host
  BY HostStays DEF Crash
<1>2. job.pc = "hold" => op.choices = "orphan"
  BY DEF Crash, InHolding
<1>3. Busy /\ job.pc = "restart" => Src = From
  BY DEF Shape, Src, From
<1> USE DEF TypeOK, OpRow, Job, AgentRow, Shape, Quiet, Before, After, Active, Busy, StepReached,
            TargetMayRun, From, Tgt, Home
<1>4. CASE job.pc \notin {"restart", "start"}
  <2>1. NoNewRunner
    BY <1>1, <1>4, CallUnderWayFrame
  <2> QED BY <1>1, <1>2, <1>4, <2>1, HostsAssumption DEF NoNewRunner
<1>5. CASE job.pc = "restart"
  <2>1. \A e \in Daemons \ {Src} : Running(e)' => Running(e)
    BY <1>1, <1>5, CallUnderWayFrame
  <2> QED BY <1>1, <1>3, <1>5, <2>1, HostsAssumption
<1>6. CASE job.pc = "start"
  <2>1. \A e \in Daemons \ {Tgt} : Running(e)' => Running(e)
    BY <1>1, <1>6, CallUnderWayFrame
  <2> QED BY <1>1, <1>6, <2>1, HostsAssumption
<1> QED BY <1>4, <1>5, <1>6

(* Reconcile, what happens on the machines, and a boot start nothing and   *)
(* lose no memory.                                                         *)
LEMMA OutsideFrame ==
  ASSUME TypeOK, Reconcile \/ Outside \/ Boot
  PROVE  NoNewRunner /\ \A e \in Daemons : Mem(e)' <=> Mem(e)
<1>1. CASE \E d \in Daemons : MachineFlips(d) \/ StoppedOutside(d) \/ Pruned(d)
  BY <1>1 DEF TypeOK, MachineFlips, StoppedOutside, Pruned, NoNewRunner, Running, Mem, Machine
<1>2. CASE CopyRemovedByHand
  BY <1>2 DEF TypeOK, CopyRemovedByHand, NoNewRunner, Running, Mem, Machine
<1>3. CASE Reconcile \/ Boot
  BY <1>3 DEF Reconcile, ReconcileLook, ReconcileAnswer, ReconcileJudge, Boot, NoNewRunner,
             Running, Mem
<1> QED BY <1>1, <1>2, <1>3 DEF Outside

(* Quiet is preserved by every step.                                       *)
LEMMA QuietStep ==
  ASSUME "holding" \notin CrashPoints, TypeOK, Shape, Quiet, [Next]_vars
  PROVE  Quiet'
<1>1. CASE MoveStep
  BY <1>1, QuietMoveStep
<1>2. CASE ResumeInterrupted
  <2>1. job.pc = "idle" /\ Active /\ op.choices # "orphan" /\ ResumeMove
    BY <1>2 DEF ResumeInterrupted, Active, Shape
  <2> QED BY <2>1, QuietResume
<1>3. CASE Owner
  BY <1>3, QuietOwner
<1>4. CASE Crash
  BY <1>4, QuietCrash
<1>5. CASE Reconcile \/ Outside \/ Boot
  <2>1. NoNewRunner /\ agent'.host = agent.host
    BY <1>5, OutsideFrame, HostStays
  <2>2. \/ op' = op /\ job' = job
        \/ op' = CutOff(op) /\ job.pc = "dead" /\ job'.pc = "idle"
    <3>1. CASE Reconcile
      BY <3>1 DEF Reconcile, ReconcileLook, ReconcileAnswer, ReconcileJudge
    <3>2. CASE Outside
      BY <3>2 DEF Outside, MachineFlips, StoppedOutside, Pruned, CopyRemovedByHand
    <3>3. CASE Boot
      BY <3>3 DEF Boot, Idle
    <3> QED BY <1>5, <3>1, <3>2, <3>3
  <2> QED
    BY <2>1, <2>2, HostsAssumption
    DEF TypeOK, OpRow, Job, AgentRow, Quiet, Active, StepReached, TargetMayRun, From, Tgt, Home,
        NoNewRunner, CutOff
<1>6. CASE UNCHANGED vars
  BY <1>6 DEF vars, Quiet, Active, StepReached, TargetMayRun, From, Tgt, Home, Running
<1> QED BY <1>1, <1>2, <1>3, <1>4, <1>5, <1>6 DEF Next

(* The initial states satisfy the type invariant, Shape and Quiet.         *)
LEMMA InitOK == Init => TypeOK /\ Shape /\ Quiet
<1> SUFFICES ASSUME Init PROVE TypeOK /\ Shape /\ Quiet
  OBVIOUS
<1>1. PICK h \in Hosts, s \in {"RUNNING", "STOPPED"}, pinned \in BOOLEAN :
        /\ agent = [host |-> h, state |-> s, image |-> pinned, key |-> h]
        /\ op = [status |-> "over", step |-> 0, from |-> h, to |-> h,
                 wasRunning |-> FALSE, dropped |-> FALSE, choices |-> "none"]
        /\ mach = [d \in Daemons |->
                     IF d = DaemonOf[h]
                       THEN [con |-> IF s = "RUNNING" THEN "running" ELSE "stopped",
                             vol |-> "memory", up |-> TRUE]
                       ELSE [con |-> "absent", vol |-> "none", up |-> TRUE]]
        /\ job = [pc |-> "idle", src |-> h, mayRun |-> FALSE, targetUp |-> FALSE,
                  orphan |-> FALSE]
        /\ rc = NoSweep(h)
  BY DEF Init
<1>2. agent \in AgentRow /\ op \in OpRow /\ job \in Job
  BY <1>1 DEF AgentRow, OpRow, Job
<1>3. rc \in Sweep
  BY <1>1 DEF Sweep, NoSweep
<1>4. mach \in [Daemons -> Machine]
  BY <1>1 DEF Machine
<1>5. Shape
  BY <1>1 DEF Shape, Before, After, Busy, Active
<1>6. Quiet
  BY <1>1 DEF Quiet, Active, Running, Home
<1> QED BY <1>2, <1>3, <1>4, <1>5, <1>6 DEF TypeOK

(* The move's own steps keep the type of the sweep.                        *)
LEMMA RcType == TypeOK /\ MoveStep => rc' \in Sweep
  BY TouchType
  DEF TypeOK, MoveStep, MoveChecked, QuiesceSource, ExportState, RestartSource, ProvisionTarget,
     ImportState, FlipHost, RecordFlip, ConfigureTarget, StartTarget, AwaitHealthy, MarkRunning,
     RecordSettled, RetireSource, UndoOnTarget, PutBackRecord, HoldOrphan

(* The move's own steps keep the type of the machines.                     *)
LEMMA MachType == TypeOK /\ MoveStep => mach' \in [Daemons -> Machine]
<1> SUFFICES ASSUME TypeOK, MoveStep PROVE mach' \in [Daemons -> Machine]
  OBVIOUS
<1>m. /\ mach[Src] \in Machine /\ mach[Tgt] \in Machine
      /\ mach[Src].vol \in {"none", "other", "memory"}
  BY HomesAreDaemons DEF TypeOK, Machine
<1> QED
  BY <1>m, EffectsType, CallType, HomesAreDaemons
  DEF TypeOK, MoveStep, MoveChecked, QuiesceSource, ExportState, RestartSource, ProvisionTarget,
     ImportState, FlipHost, RecordFlip, ConfigureTarget, StartTarget, AwaitHealthy, MarkRunning,
     RecordSettled, RetireSource, UndoOnTarget, PutBackRecord, HoldOrphan

(* The restart rule keeps every type.                                      *)
LEMMA TypeResume == TypeOK /\ ResumeMove => TypeOK'
<1> SUFFICES ASSUME TypeOK, ResumeMove PROVE TypeOK'
  OBVIOUS
<1>t. op \in OpRow /\ job \in Job
  BY DEF TypeOK
<1>0. TargetMayRun \in BOOLEAN /\ Answers(Tgt) \subseteq BOOLEAN
  BY <1>t DEF TargetMayRun, Answers, OpRow
<1>1. job' \in Job
  BY <1>0, <1>t, JobUpdates DEF ResumeMove
<1>2. op' \in OpRow
  BY <1>t, OpUpdates DEF ResumeMove
<1> QED BY <1>1, <1>2 DEF ResumeMove, TypeOK

(* The routes and the owner's choices keep every type.                     *)
LEMMA TypeOwner == TypeOK /\ Owner => TypeOK'
<1> SUFFICES ASSUME TypeOK, Owner PROVE TypeOK'
  OBVIOUS
<1>t. /\ agent \in AgentRow /\ op \in OpRow /\ mach \in [Daemons -> Machine] /\ job \in Job
      /\ rc \in Sweep /\ Home \in Daemons /\ mach[Home] \in Machine
  BY HomesAreDaemons DEF TypeOK
<1>1. CASE \E s, t \in Hosts, drop \in BOOLEAN : MoveBegin(s, t, drop)
  <2>1. PICK s \in Hosts, t \in Hosts, drop \in BOOLEAN : MoveBegin(s, t, drop)
    BY <1>1
  <2>2. (agent.state = "RUNNING") \in BOOLEAN /\ (drop /\ agent.image) \in BOOLEAN
        /\ agent.host \in Hosts
    BY <1>t DEF AgentRow
  <2>3. op' \in OpRow
    BY <2>1, <2>2 DEF MoveBegin, OpRow
  <2>4. job' \in Job
    BY <2>1 DEF MoveBegin, Job
  <2> QED BY <1>t, <2>1, <2>3, <2>4 DEF MoveBegin, TypeOK
<1>2. CASE ChooseRetry
  BY <1>2, TypeResume DEF ChooseRetry
<1>3. CASE ChoosePutBack \/ ChooseRemoveCopy \/ ChooseCopyRemoved
  <2>0. TargetMayRun \in BOOLEAN /\ Answers(Tgt) \subseteq BOOLEAN
    BY <1>t DEF TargetMayRun, Answers, OpRow
  <2>1. job' \in Job
    BY <1>3, <1>t, <2>0, JobUpdates DEF ChoosePutBack, ChooseRemoveCopy, ChooseCopyRemoved
  <2> QED
    BY <1>3, <1>t, <2>1 DEF ChoosePutBack, ChooseRemoveCopy, ChooseCopyRemoved, TypeOK
<1>4. CASE StartRoute \/ StopRoute
  <2>1. mach' \in [Daemons -> Machine]
    BY <1>4, <1>t, EffectsType, CallType DEF StartRoute, StopRoute
  <2>2. agent' \in AgentRow
    BY <1>4, <1>t, RowUpdates DEF StartRoute, StopRoute
  <2>3. rc' \in Sweep
    BY <1>4, <1>t, TouchType DEF StartRoute, StopRoute
  <2> QED BY <1>4, <1>t, <2>1, <2>2, <2>3 DEF StartRoute, StopRoute, TypeOK
<1> QED BY <1>1, <1>2, <1>3, <1>4 DEF Owner

(* Every step keeps every type.                                            *)
LEMMA TypeStep == TypeOK /\ [Next]_vars => TypeOK'
<1> SUFFICES ASSUME TypeOK, [Next]_vars PROVE TypeOK'
  OBVIOUS
<1>t. /\ agent \in AgentRow /\ op \in OpRow /\ mach \in [Daemons -> Machine] /\ job \in Job
      /\ rc \in Sweep /\ Home \in Daemons /\ Src \in Daemons /\ Tgt \in Daemons
  BY HomesAreDaemons DEF TypeOK
<1>1. CASE MoveStep
  BY <1>1, AgentType, OpType, MachType, JobType, RcType DEF TypeOK
<1>2. CASE ResumeInterrupted
  BY <1>2, TypeResume DEF ResumeInterrupted
<1>3. CASE Owner
  BY <1>3, TypeOwner
<1>4. CASE Reconcile
  <2>1. rc' \in Sweep
    <3>1. CASE ReconcileLook
      BY <3>1, <1>t DEF ReconcileLook, Sweep, AgentRow, NoSweep
    <3>2. CASE ReconcileAnswer
      <4>1. DaemonOf[rc.host] \in Daemons
        BY <1>t, HostsAssumption DEF Sweep
      <4>2. mach[DaemonOf[rc.host]].con \in {"absent", "stopped", "running"}
        BY <1>t, <4>1 DEF Machine
      <4> QED BY <3>2, <1>t, <4>2 DEF ReconcileAnswer, Sweep
    <3>3. CASE ReconcileJudge
      BY <3>3, <1>t, RowUpdates DEF ReconcileJudge, RcOff, NoSweep, Sweep, Judged, AgentRow
    <3> QED BY <1>4, <3>1, <3>2, <3>3 DEF Reconcile
  <2>2. agent' \in AgentRow
    BY <1>4, <1>t, RowUpdates
    DEF Reconcile, ReconcileLook, ReconcileAnswer, ReconcileJudge, Judged, AgentRow
  <2> QED
    BY <1>4, <1>t, <2>1, <2>2
    DEF Reconcile, ReconcileLook, ReconcileAnswer, ReconcileJudge, TypeOK
<1>5. CASE Outside
  <2>1. mach' \in [Daemons -> Machine]
    <3>1. ASSUME NEW d \in Daemons, MachineFlips(d) \/ StoppedOutside(d) \/ Pruned(d)
          PROVE  mach' \in [Daemons -> Machine]
      <4>0. mach[d] \in Machine /\ (~mach[d].up) \in BOOLEAN
        BY <1>t DEF Machine
      <4>1. /\ [mach[d] EXCEPT !.up = ~@] \in Machine
            /\ [mach[d] EXCEPT !.con = "stopped"] \in Machine
            /\ [mach[d] EXCEPT !.con = "absent"] \in Machine
        BY <4>0 DEF Machine
      <4> QED BY <3>1, <1>t, <4>1 DEF MachineFlips, StoppedOutside, Pruned
    <3>2. CASE CopyRemovedByHand
      BY <3>2, <1>t DEF CopyRemovedByHand, Machine
    <3> QED BY <1>5, <3>1, <3>2 DEF Outside
  <2> QED
    BY <1>5, <1>t, <2>1
    DEF Outside, MachineFlips, StoppedOutside, Pruned, CopyRemovedByHand, TypeOK
<1>6. CASE Crash
  <2>1. agent' \in AgentRow
    BY <1>6, <1>t, RowUpdates DEF Crash, AgentRow, OpRow
  <2>2. job' \in Job
    BY <1>6, <1>t, JobUpdates DEF Crash
  <2>3. rc' \in Sweep
    BY <1>6, <1>t DEF Crash, RcOff, NoSweep, Sweep, AgentRow
  <2>4. mach' \in [Daemons -> Machine]
    <3>1. /\ mach[Src] \in Machine /\ mach[Tgt] \in Machine
          /\ mach[Src].vol \in {"none", "other", "memory"}
      BY <1>t DEF Machine
    <3> QED BY <1>6, <1>t, <3>1, EffectsType, CallType DEF Crash, CallUnderWay
  <2> QED BY <1>6, <1>t, <2>1, <2>2, <2>3, <2>4 DEF Crash, TypeOK
<1>7. CASE Boot
  BY <1>7, <1>t, JobUpdates, OpUpdates DEF Boot, TypeOK
<1>8. CASE UNCHANGED vars
  BY <1>8, <1>t DEF vars, TypeOK
<1> QED BY <1>1, <1>2, <1>3, <1>4, <1>5, <1>6, <1>7, <1>8 DEF Next

(* Whatever fails or dies, every variable keeps its type.                  *)
THEOREM TypeCorrect == Spec => []TypeOK
<1>1. Init => TypeOK
  BY InitOK
<1>2. TypeOK /\ [Next]_vars => TypeOK'
  BY TypeStep
<1> QED BY <1>1, <1>2, PTL DEF Spec

(* "One bot, one poller", for every number of machines and every aliasing  *)
(* of host rows: with the "holding" window closed the agent never runs     *)
(* twice.                                                                  *)
THEOREM OneBotOnePoller ==
  ASSUME "holding" \notin CrashPoints
  PROVE  Spec => []SinglePoller
<1>1. Init => TypeOK /\ Shape /\ Quiet
  BY InitOK
<1>2. TypeOK /\ Shape /\ Quiet /\ [Next]_vars => (TypeOK /\ Shape /\ Quiet)'
  BY TypeStep, ShapeStep, QuietStep
<1>3. Quiet => SinglePoller
  BY DEF Quiet, SinglePoller
<1> QED BY <1>1, <1>2, <1>3, PTL DEF Spec

-----------------------------------------------------------------------------
(* What makes MemoryKept inductive: which of the two volumes holds the     *)
(* memory at each place, and that a settled move is never undone.          *)
Kept ==
  /\ ~Active => Mem(Home)
  /\ Active /\ ~StepReached(Settled) => Mem(From)
  /\ Active /\ StepReached(Settled) => Mem(Tgt) /\ agent.host = op.to
  /\ Active /\ agent.host = op.to /\ job.pc \notin {"undo", "putback"} => Mem(Tgt)
  /\ job.pc = "flip" => Mem(Tgt)
  /\ Busy /\ job.pc # "retire" => ~StepReached(Settled)
  /\ job.pc = "retire" => StepReached(Settled)
  /\ job.pc # "retire" /\ op.status = "held" => ~StepReached(Settled)
  /\ job.pc = "settled" \/ (Active /\ StepReached(Settled)) =>
       (op.wasRunning => agent.state = "RUNNING")

(* The step loses no memory on machine e.                                  *)
Remembered(e) == Mem(e) => Mem(e)'

(* Kept is preserved by the move's own steps.                              *)
LEMMA KeptMoveStep == TypeOK /\ Shape /\ Kept /\ MoveStep => Kept'
<1> SUFFICES ASSUME TypeOK, Shape, Kept, MoveStep PROVE Kept'
  OBVIOUS
<1>d. /\ From \in Daemons /\ Src \in Daemons /\ Tgt \in Daemons /\ Home \in Daemons
      /\ mach \in [Daemons -> Machine]
  BY HostsAssumption DEF TypeOK, AgentRow, OpRow, Job, From, Src, Tgt, Home
<1>s. Busy /\ Active /\ Src = From /\ From # Tgt
  BY DEF Shape, MoveStep, Busy, Src, From, MoveChecked, QuiesceSource, ExportState, RestartSource,
         ProvisionTarget, ImportState, FlipHost, RecordFlip, ConfigureTarget, StartTarget,
         AwaitHealthy, MarkRunning, RecordSettled, RetireSource, UndoOnTarget, PutBackRecord,
         HoldOrphan
<1>p. RetireSource => \A e \in Daemons \ {Src} : Remembered(e)
  BY <1>d, DestroyCall DEF RetireSource, Remembered
<1>q. UndoOnTarget => \A e \in Daemons \ {Tgt} : Remembered(e)
  <2>1. ASSUME Tried(Tgt, MayDestroy(mach[Tgt])) \/ Done(Tgt, DestroyDone(mach[Tgt]))
        PROVE  \A e \in Daemons \ {Tgt} : Remembered(e)
    BY <1>d, <2>1, DestroyCall DEF Remembered
  <2>2. ASSUME UNCHANGED mach PROVE \A e \in Daemons : Remembered(e)
    BY <2>2 DEF Remembered, Mem
  <2> QED BY <2>1, <2>2 DEF UndoOnTarget
<1> USE <1>d, <1>s DEF Shape, Kept, Before, After, Active, Busy
<1> USE DEF TypeOK, OpRow, AgentRow, Job, From, Tgt, Home, StepReached, Remembered
<1>1. CASE MoveChecked
  BY <1>1 DEF MoveChecked, At, Mem
<1>3. CASE ExportState
  BY <1>3 DEF ExportState, At, Mem
<1>7. CASE FlipHost
  BY <1>7 DEF FlipHost, At, Mem
<1>8. CASE RecordFlip
  BY <1>8 DEF RecordFlip, At, Mem
<1>11. CASE AwaitHealthy
  BY <1>11 DEF AwaitHealthy, At, Mem
<1>12. CASE MarkRunning
  BY <1>12 DEF MarkRunning, At, Mem
<1>13. CASE RecordSettled
  BY <1>13 DEF RecordSettled, At, Mem
<1>16. CASE PutBackRecord
  BY <1>16 DEF PutBackRecord, AsBefore, KeepPin, At, Mem
<1>17. CASE HoldOrphan
  BY <1>17 DEF HoldOrphan, Idle, Mem
<1>2. CASE QuiesceSource
  <2>1. \A e \in Daemons : Remembered(e)
    BY <1>2, StopCall DEF QuiesceSource
  <2>2. agent'.host = agent.host /\ job.pc = "quiesce" /\ agent.host = op.from
    BY <1>2 DEF QuiesceSource, KeepPin
  <2>3. CASE op' = [op EXCEPT !.step = Stopped] /\ job' = At("export")
    BY <2>1, <2>2, <2>3 DEF At
  <2>4. CASE op' = Over /\ job' = Idle
    BY <2>1, <2>2, <2>4 DEF Over, Idle
  <2> QED BY <1>2, <2>3, <2>4 DEF QuiesceSource
<1>4. CASE RestartSource
  <2>1. \A e \in Daemons : Remembered(e)
    <3>1. CASE Tried(Src, MayStart(mach[Src])) \/ Done(Src, StartDone(mach[Src]))
      BY <3>1, StartCall
    <3>2. CASE mach' = mach
      BY <3>2 DEF Mem
    <3> QED BY <1>4, <3>1, <3>2 DEF RestartSource
  <2>2. /\ agent'.host = agent.host /\ job.pc = "restart" /\ agent.host = op.from
        /\ op' = Over /\ job' = Idle
    BY <1>4 DEF RestartSource, KeepPin
  <2> QED BY <2>1, <2>2 DEF Over, Idle
<1>5. CASE ProvisionTarget
  <2>1. \A e \in Daemons : Remembered(e)
    BY <1>5, ProvisionCall DEF ProvisionTarget
  <2>2. /\ agent'.host = agent.host /\ job.pc = "provision"
        /\ \/ op' = [op EXCEPT !.step = Created] /\ job' = At("import")
           \/ op' = op /\ job' = At("undo")
    BY <1>5 DEF ProvisionTarget
  <2> QED BY <2>1, <2>2 DEF At
<1>6. CASE ImportState
  <2>0. job.pc = "import" /\ agent' = agent /\ agent.host = op.from
    BY <1>6 DEF ImportState
  <2>1. Remembered(From)
    BY <1>6, ImportCall DEF ImportState
  <2>2. CASE Done(Tgt, ImportDone(mach[Tgt], mach[Src].vol)) /\ job' = At("flip")
             /\ op' = [op EXCEPT !.step = Copied]
    <3>1. mach[Src].vol = "memory"
      BY <2>0 DEF Mem
    <3>2. Mem(Tgt)'
      BY <2>2, <3>1, ImportCall
    <3> QED BY <2>0, <2>1, <2>2, <3>2 DEF At
  <2>3. CASE op' = op /\ job' = At("undo")
    BY <2>0, <2>1, <2>3 DEF At
  <2> QED BY <1>6, <2>2, <2>3 DEF ImportState
<1>9. CASE ConfigureTarget
  <2>1. \A e \in Daemons : Remembered(e)
    BY <1>9, ProvisionCall DEF ConfigureTarget
  <2>2. /\ agent'.host = agent.host /\ job.pc = "configure"
        /\ \/ /\ op' = [op EXCEPT !.step = Configured]
              /\ job' = At(IF op.wasRunning THEN "start" ELSE "settle")
           \/ op' = op /\ job' = At("undo")
    BY <1>9 DEF ConfigureTarget, ToBeStarted
  <2> QED BY <2>1, <2>2 DEF At
<1>10. CASE StartTarget
  <2>1. \A e \in Daemons : Remembered(e)
    BY <1>10, StartCall DEF StartTarget
  <2>2. /\ agent' = agent /\ job.pc = "start"
        /\ op' = [op EXCEPT !.step = Started] \/ op' = op
        /\ job'.pc \in {"health", "undo"}
    BY <1>10 DEF StartTarget, At
  <2> QED BY <2>1, <2>2
<1>14. CASE RetireSource
  <2>1. \A e \in Daemons \ {Src} : Remembered(e)
    BY <1>14, <1>p
  <2>2. /\ agent' = agent /\ job.pc = "retire" /\ op'.status = "over" /\ job'.pc = "idle"
        /\ agent.host = op.to
    BY <1>14 DEF RetireSource, Over, Idle
  <2> QED BY <2>1, <2>2
<1>15. CASE UndoOnTarget
  <2>1. \A e \in Daemons \ {Tgt} : Remembered(e)
    BY <1>15, <1>q
  <2>2. agent' = agent /\ op' = op /\ job.pc = "undo" /\ job'.pc = "putback"
    BY <1>15 DEF UndoOnTarget, At
  <2> QED BY <2>1, <2>2
<1> QED
  BY <1>1, <1>2, <1>3, <1>4, <1>5, <1>6, <1>7, <1>8, <1>9, <1>10, <1>11, <1>12, <1>13,
     <1>14, <1>15, <1>16, <1>17 DEF MoveStep

(* Kept is preserved by the restart rule.                                  *)
LEMMA KeptResume ==
  ASSUME TypeOK, Shape, Kept, ResumeMove, job.pc = "idle", Active
  PROVE  Kept'
<1> USE DEF TypeOK, OpRow, Job, AgentRow, Shape, Kept, Active, Busy, StepReached, TargetMayRun,
            From, Tgt, Home, Over, Resumed, Mem
<1>1. agent' = agent /\ mach' = mach
  BY DEF ResumeMove
<1>2. CASE op.step = 0 /\ op' = Over /\ job' = job
  BY <1>1, <1>2
<1>3. CASE /\ op.step # 0 /\ agent.host # op.to /\ op' = op
           /\ \E a \in Answers(Tgt) : job' = Resumed("undo", FALSE, a)
  BY <1>1, <1>3
<1>4. CASE /\ op.step # 0 /\ agent.host = op.to /\ op' = op /\ SettledThere
           /\ job' = Resumed("retire", FALSE, TRUE)
  BY <1>1, <1>4 DEF SettledThere
<1>5. CASE /\ op.step # 0 /\ agent.host = op.to /\ op' = op /\ ~SettledThere
           /\ job' = Resumed("configure", TargetMayRun, TRUE)
  BY <1>1, <1>5 DEF SettledThere
<1>6. CASE /\ op.step # 0 /\ agent.host = op.to /\ job' = job /\ ~SettledThere
           /\ op' = [op EXCEPT !.status = "held", !.choices = "move"]
  BY <1>1, <1>6 DEF SettledThere
<1> QED
  BY <1>2, <1>3, <1>4, <1>5, <1>6 DEF ResumeMove

(* Kept is preserved by the routes and by the owner's choices.             *)
LEMMA KeptOwner ==
  ASSUME TypeOK, Shape, Kept, Owner
  PROVE  Kept'
<1>1. CASE ChooseRetry
  <2>1. job.pc = "idle" /\ Active /\ ResumeMove
    BY <1>1 DEF ChooseRetry, Chosen, Active
  <2> QED BY <2>1, KeptResume
<1> USE DEF TypeOK, OpRow, Job, AgentRow, Shape, Kept, Active, Busy, StepReached,
            From, Tgt, Home
<1>2. CASE \E s, t \in Hosts, drop \in BOOLEAN : MoveBegin(s, t, drop)
  <2>1. PICK s \in Hosts, t \in Hosts, drop \in BOOLEAN : MoveBegin(s, t, drop)
    BY <1>2
  <2>2. /\ op'.status = "running" /\ op'.from = agent.host /\ op'.to = t /\ op'.step = 0
        /\ job'.pc = "begun" /\ agent' = agent /\ mach' = mach
        /\ DaemonOf[agent.host] # DaemonOf[t] /\ ~Active
    BY <2>1 DEF MoveBegin, DifferentDaemons, Free
  <2> QED BY <2>2, HostsAssumption DEF Mem
<1>3. CASE ChoosePutBack \/ ChooseRemoveCopy \/ ChooseCopyRemoved
  <2>1. /\ op' = op /\ agent' = agent /\ mach' = mach /\ job'.pc = "undo"
        /\ op.status = "held" /\ job.pc = "idle"
    <3>1. CASE ChoosePutBack
      BY <3>1 DEF ChoosePutBack, Resumed, Chosen
    <3>2. CASE ChooseRemoveCopy
      BY <3>2 DEF ChooseRemoveCopy, Resumed, Chosen
    <3>3. CASE ChooseCopyRemoved
      BY <3>3 DEF ChooseCopyRemoved, Resumed, Chosen
    <3> QED BY <1>3, <3>1, <3>2, <3>3
  <2> QED BY <2>1 DEF Mem
<1>4. CASE StartRoute \/ StopRoute
  <2>1. Home \in Daemons /\ mach \in [Daemons -> Machine]
    BY HostsAssumption
  <2>2. ~Active /\ op' = op /\ job' = job /\ agent'.host = agent.host /\ job.pc = "idle"
    BY <1>4 DEF StartRoute, StopRoute, Free
  <2>3. Remembered(Home)
    BY <1>4, <2>1, StartCall, StopCall DEF StartRoute, StopRoute, Remembered
  <2> QED BY <2>2, <2>3 DEF Remembered
<1> QED BY <1>1, <1>2, <1>3, <1>4 DEF Owner

(* A call cut off by a death loses no memory but on the machine being      *)
(* undone, filled or retired.                                              *)
LEMMA CallUnderWayRemembers ==
  ASSUME TypeOK, Shape, CallUnderWay
  PROVE  /\ job.pc = "retire" => \A e \in Daemons \ {Src} : Remembered(e)
         /\ job.pc \in {"import", "undo"} => \A e \in Daemons \ {Tgt} : Remembered(e)
         /\ job.pc \notin {"retire", "import", "undo"} => \A e \in Daemons : Remembered(e)
<1>d. Src \in Daemons /\ Tgt \in Daemons /\ mach \in [Daemons -> Machine]
  BY HomesAreDaemons DEF TypeOK
<1> USE DEF Remembered
<1>0. CASE mach' = mach
  BY <1>0 DEF Mem
<1>1. CASE job.pc = "quiesce" /\ Tried(Src, MayStop(mach[Src]))
  BY <1>1, <1>d, StopCall
<1>2. CASE job.pc = "restart" /\ Tried(Src, MayStart(mach[Src]))
  BY <1>2, <1>d, StartCall
<1>3. CASE job.pc \in {"provision", "configure"} /\ Tried(Tgt, MayProvision(mach[Tgt]))
  BY <1>3, <1>d, ProvisionCall
<1>4. CASE job.pc = "import" /\ Tried(Tgt, MayImport(mach[Tgt], mach[Src].vol))
  BY <1>4, <1>d, ImportCall
<1>5. CASE job.pc = "start" /\ Tried(Tgt, MayStart(mach[Tgt]))
  BY <1>5, <1>d, StartCall
<1>6. CASE job.pc = "retire" /\ Tried(Src, MayDestroy(mach[Src]))
  BY <1>6, <1>d, DestroyCall
<1>7. CASE job.pc = "undo" /\ Tried(Tgt, MayDestroy(mach[Tgt]))
  BY <1>7, <1>d, DestroyCall
<1> QED
  BY <1>0, <1>1, <1>2, <1>3, <1>4, <1>5, <1>6, <1>7 DEF CallUnderWay

(* Kept survives a death of the process outside the "destroying" and       *)
(* "retiring" windows.                                                     *)
LEMMA KeptCrash ==
  ASSUME "destroying" \notin CrashPoints, "retiring" \notin CrashPoints,
         TypeOK, Shape, Kept, Crash
  PROVE  Kept'
<1>1. /\ CallUnderWay /\ op' = op /\ job'.pc = "dead" /\ agent'.host = agent.host
      /\ agent'.state = agent.state
  BY HostStays DEF Crash, TypeOK, AgentRow
<1>2. /\ job.pc \in {"undo", "putback"} => agent.host # op.to
      /\ job.pc = "retire" => op.status # "held"
  BY DEF Crash, InDestroying, InRetiring
<1>3. /\ From \in Daemons /\ Src \in Daemons /\ Tgt \in Daemons /\ Home \in Daemons
      /\ Busy => Src = From
      /\ Active => From # Tgt
  BY HostsAssumption DEF TypeOK, AgentRow, OpRow, Job, Shape, From, Src, Tgt, Home
<1> USE <1>3 DEF TypeOK, OpRow, Job, AgentRow, Shape, Kept, Before, After, Active, Busy,
            StepReached, From, Tgt, Home, Remembered
<1>4. CASE job.pc = "retire"
  <2>1. Remembered(Tgt)
    BY <1>1, <1>4, CallUnderWayRemembers
  <2> QED BY <1>1, <1>2, <1>4, <2>1
<1>5. CASE job.pc \in {"import", "undo"}
  <2>1. Remembered(From)
    BY <1>1, <1>5, CallUnderWayRemembers
  <2> QED BY <1>1, <1>2, <1>5, <2>1
<1>6. CASE job.pc \notin {"retire", "import", "undo"}
  <2>1. Remembered(From) /\ Remembered(Tgt) /\ Remembered(Home)
    BY <1>1, <1>6, CallUnderWayRemembers
  <2> QED BY <1>1, <1>2, <1>6, <2>1
<1> QED BY <1>4, <1>5, <1>6

(* Kept is preserved by every step.                                        *)
LEMMA KeptStep ==
  ASSUME "destroying" \notin CrashPoints, "retiring" \notin CrashPoints,
         TypeOK, Shape, Kept, [Next]_vars
  PROVE  Kept'
<1>1. CASE MoveStep
  BY <1>1, KeptMoveStep
<1>2. CASE ResumeInterrupted
  <2>1. job.pc = "idle" /\ Active /\ ResumeMove
    BY <1>2 DEF ResumeInterrupted, Active
  <2> QED BY <2>1, KeptResume
<1>3. CASE Owner
  BY <1>3, KeptOwner
<1>4. CASE Crash
  BY <1>4, KeptCrash
<1>5. CASE Reconcile \/ Outside \/ Boot
  <2>1. (\A e \in Daemons : Mem(e)' <=> Mem(e)) /\ agent'.host = agent.host
    BY <1>5, OutsideFrame, HostStays
  <2>2. \/ op' = op /\ job' = job /\ (Active \/ Busy => agent'.state = agent.state)
        \/ op' = CutOff(op) /\ job.pc = "dead" /\ job'.pc = "idle" /\ agent' = agent
    <3>1. CASE Reconcile
      BY <3>1 DEF Reconcile, ReconcileLook, ReconcileAnswer, ReconcileJudge, StillAsRead
    <3>2. CASE Outside
      BY <3>2 DEF Outside, MachineFlips, StoppedOutside, Pruned, CopyRemovedByHand
    <3>3. CASE Boot
      BY <3>3 DEF Boot, Idle
    <3> QED BY <1>5, <3>1, <3>2, <3>3
  <2> QED
    BY <2>1, <2>2, HostsAssumption
    DEF TypeOK, OpRow, Job, AgentRow, Kept, Active, Busy, StepReached, From, Tgt, Home, CutOff
<1>6. CASE UNCHANGED vars
  BY <1>6 DEF vars, Kept, Active, Busy, StepReached, From, Tgt, Home, Mem
<1> QED BY <1>1, <1>2, <1>3, <1>4, <1>5, <1>6 DEF Next

(* The initial states satisfy Kept.                                        *)
LEMMA KeptInit == Init => Kept
<1> SUFFICES ASSUME Init PROVE Kept
  OBVIOUS
<1>1. /\ op.status = "over" /\ job.pc = "idle" /\ op.step = 0
      /\ mach[DaemonOf[agent.host]].vol = "memory"
  BY HostsAssumption DEF Init
<1> QED BY <1>1 DEF Kept, Active, Busy, StepReached, Mem, Home

(* With the "destroying" and "retiring" windows closed, the volume that    *)
(* counts holds the agent's memory, whatever fails or dies.                *)
THEOREM MemoryNeverLost ==
  ASSUME "destroying" \notin CrashPoints, "retiring" \notin CrashPoints
  PROVE  Spec => []MemoryKept
<1>1. Init => TypeOK /\ Shape /\ Kept
  BY InitOK, KeptInit
<1>2. TypeOK /\ Shape /\ Kept /\ [Next]_vars => (TypeOK /\ Shape /\ Kept)'
  BY TypeStep, ShapeStep, KeptStep
<1>3. Kept => MemoryKept
  BY DEF Kept, MemoryKept, MemoryHome, Mem, From, Tgt, Home
<1> QED BY <1>1, <1>2, <1>3, PTL DEF Spec

(* "nothing after 'settled' may undo the move": with those two windows     *)
(* closed, the record of a settled move never points back.                 *)
THEOREM NoWayBack ==
  ASSUME "destroying" \notin CrashPoints, "retiring" \notin CrashPoints
  PROVE  Spec => NoGoingBack
<1>1. Init => TypeOK /\ Shape /\ Kept
  BY InitOK, KeptInit
<1>2. TypeOK /\ Shape /\ Kept /\ [Next]_vars => (TypeOK /\ Shape /\ Kept)'
  BY TypeStep, ShapeStep, KeptStep
<1>3. TypeOK /\ Shape /\ Kept /\ [Next]_vars =>
        [Active /\ StepReached(Settled) => UNCHANGED agent.host]_vars
  <2> SUFFICES ASSUME TypeOK, Shape, Kept, Next, Active, StepReached(Settled)
               PROVE  agent'.host = agent.host
    BY DEF vars
  <2>1. CASE MoveStep
    <3>1. ~(FlipHost \/ PutBackRecord)
      BY DEF Kept, Busy, FlipHost, PutBackRecord
    <3>2. CASE RestartSource
      BY <3>2 DEF RestartSource, KeepPin, TypeOK, AgentRow
    <3>3. CASE QuiesceSource
      BY <3>3 DEF QuiesceSource, KeepPin, TypeOK, AgentRow
    <3> QED
      BY <2>1, <3>1, <3>2, <3>3
      DEF MoveStep, MoveChecked, ExportState, ProvisionTarget, ImportState, RecordFlip,
          ConfigureTarget, StartTarget, AwaitHealthy, MarkRunning, RecordSettled,
          RetireSource, UndoOnTarget, HoldOrphan, TypeOK, AgentRow
  <2>2. CASE ResumeInterrupted
    BY <2>2 DEF ResumeInterrupted, ResumeMove
  <2>3. CASE Owner
    BY <2>3, HostStays
    DEF Owner, MoveBegin, ChooseRetry, ChoosePutBack, ChooseRemoveCopy, ChooseCopyRemoved,
        ResumeMove
  <2>4. CASE Reconcile \/ Outside \/ Crash \/ Boot
    BY <2>4, HostStays
  <2> QED BY <2>1, <2>2, <2>3, <2>4 DEF Next
<1> QED BY <1>1, <1>2, <1>3, PTL DEF Spec, NoGoingBack

(* While a move is on record and none of its steps runs, no route, sweep,  *)
(* restart or choice changes the agents row: unconditionally.              *)
THEOREM OthersKeepOff == Spec => OnlyTheMove
<1>1. Init => TypeOK
  BY InitOK
<1>2. TypeOK /\ [Next]_vars => TypeOK'
  BY TypeStep
<1>3. TypeOK /\ [Next]_vars => [Active /\ ~Busy => UNCHANGED agent]_vars
  <2> SUFFICES ASSUME TypeOK, Next, Active, ~Busy PROVE agent' = agent
    BY DEF vars
  <2>1. CASE MoveStep
    BY <2>1
    DEF Busy, MoveStep, MoveChecked, QuiesceSource, ExportState, RestartSource,
        ProvisionTarget, ImportState, FlipHost, RecordFlip, ConfigureTarget, StartTarget,
        AwaitHealthy, MarkRunning, RecordSettled, RetireSource, UndoOnTarget,
        PutBackRecord, HoldOrphan
  <2>2. CASE ResumeInterrupted
    BY <2>2 DEF ResumeInterrupted, ResumeMove
  <2>3. CASE Owner
    BY <2>3
    DEF Owner, MoveBegin, Free, ChooseRetry, ChoosePutBack, ChooseRemoveCopy,
        ChooseCopyRemoved, ResumeMove, StartRoute, StopRoute
  <2>4. CASE Reconcile
    BY <2>4 DEF Reconcile, ReconcileLook, ReconcileAnswer, ReconcileJudge, StillAsRead
  <2>5. CASE Outside
    BY <2>5 DEF Outside, MachineFlips, StoppedOutside, Pruned, CopyRemovedByHand
  <2>6. CASE Crash
    BY <2>6 DEF Crash, Busy, TypeOK, AgentRow
  <2>7. CASE Boot
    BY <2>7 DEF Boot
  <2> QED BY <2>1, <2>2, <2>3, <2>4, <2>5, <2>6, <2>7 DEF Next
<1> QED BY <1>1, <1>2, <1>3, PTL DEF Spec, OnlyTheMove

-----------------------------------------------------------------------------
(* What makes RecordFits inductive: whose key is on record at each place,  *)
(* and that a pin is gone from the first recorded step on, until an undo.  *)
Fits ==
  /\ RecordFits
  /\ job.pc = "begun" => op.step = 0
  /\ Active /\ op.step = 0 => agent.key = op.from /\ (op.dropped => agent.image)
  /\ job.pc \in {"quiesce", "export", "restart"} => agent.key = op.from
  /\ job.pc \in Before \ {"begun"} => (op.dropped => ~agent.image)
  /\ Active /\ agent.host = op.to => (op.dropped => ~agent.image)
  /\ job.pc \in {"start", "health", "settle", "settled", "retire"} => agent.key = op.to
  /\ Active /\ StepReached(Settled) /\ agent.host = op.to => agent.key = op.to

(* Fits is preserved by the move's own steps.                              *)
LEMMA FitsMoveStep == TypeOK /\ Shape /\ Fits /\ MoveStep => Fits'
<1> SUFFICES ASSUME TypeOK, Shape, Fits, MoveStep PROVE Fits'
  OBVIOUS
<1>s. Active /\ op.from # op.to
  BY DEF Shape, MoveStep, Busy, From, Tgt, MoveChecked, QuiesceSource, ExportState, RestartSource,
         ProvisionTarget, ImportState, FlipHost, RecordFlip, ConfigureTarget, StartTarget,
         AwaitHealthy, MarkRunning, RecordSettled, RetireSource, UndoOnTarget, PutBackRecord,
         HoldOrphan
<1> USE <1>s DEF Shape, Fits, RecordFits, Before, After, Active, StepReached
<1> USE DEF TypeOK, OpRow, AgentRow, Job
<1>1. CASE MoveChecked
  <2>1. /\ job.pc = "begun" /\ job'.pc = "quiesce"
        /\ agent'.host = agent.host /\ agent'.key = agent.key
        /\ op'.status = op.status /\ op'.from = op.from /\ op'.to = op.to
        /\ op'.step = Checked
    BY <1>1 DEF MoveChecked, At
  <2>2. op'.dropped => ~agent'.image
    <3>1. op'.dropped = op.dropped /\ agent'.image = (agent.image /\ ~op.dropped)
      BY <1>1 DEF MoveChecked
    <3> QED BY <3>1
  <2> QED BY <2>1, <2>2
<1>2. CASE QuiesceSource
  <2>1. CASE /\ job.pc = "quiesce" /\ op' = [op EXCEPT !.step = Stopped]
             /\ job' = At("export") /\ agent' = [agent EXCEPT !.state = "STOPPED"]
    BY <2>1 DEF At
  <2>2. CASE job.pc = "quiesce" /\ op' = Over /\ job' = Idle /\ agent' = KeepPin(agent)
    BY <2>2 DEF Over, Idle, KeepPin
  <2> QED BY <1>2, <2>1, <2>2 DEF QuiesceSource
<1>3. CASE ExportState
  BY <1>3 DEF ExportState, At
<1>4. CASE RestartSource
  <2>1. /\ job.pc = "restart" /\ op' = Over /\ job' = Idle
        /\ agent'.host = agent.host /\ agent'.key = agent.key
        /\ agent'.image = (agent.image \/ op.dropped)
    BY <1>4 DEF RestartSource, KeepPin
  <2> QED BY <2>1 DEF Over, Idle
<1>5. CASE ProvisionTarget
  <2>1. /\ job.pc = "provision" /\ agent'.host = agent.host /\ agent'.image = agent.image
        /\ \/ op' = [op EXCEPT !.step = Created] /\ job' = At("import")
           \/ op' = op /\ job' = At("undo")
    BY <1>5 DEF ProvisionTarget
  <2> QED BY <2>1 DEF At
<1>6. CASE ImportState
  BY <1>6 DEF ImportState, At
<1>7. CASE FlipHost
  BY <1>7 DEF FlipHost, At
<1>8. CASE RecordFlip
  BY <1>8 DEF RecordFlip, At
<1>9. CASE ConfigureTarget
  <2>1. /\ job.pc = "configure" /\ agent'.host = agent.host /\ agent'.image = agent.image
        /\ \/ /\ op' = [op EXCEPT !.step = Configured] /\ agent'.key = op.to
              /\ job' = At(IF op.wasRunning THEN "start" ELSE "settle")
           \/ op' = op /\ job' = At("undo") /\ agent'.key \in {agent.key, op.to}
    BY <1>9 DEF ConfigureTarget, ToBeStarted
  <2> QED BY <2>1 DEF At
<1>10. CASE StartTarget
  <2>1. /\ agent' = agent /\ job.pc = "start"
        /\ op' = [op EXCEPT !.step = Started] \/ op' = op
        /\ job'.pc \in {"health", "undo"}
    BY <1>10 DEF StartTarget, At
  <2> QED BY <2>1
<1>11. CASE AwaitHealthy
  BY <1>11 DEF AwaitHealthy, At
<1>12. CASE MarkRunning
  BY <1>12 DEF MarkRunning, At
<1>13. CASE RecordSettled
  BY <1>13 DEF RecordSettled, At
<1>14. CASE RetireSource
  <2>1. /\ agent' = agent /\ job.pc = "retire" /\ op'.status = "over" /\ job' = Idle
        /\ op'.from = op.from /\ op'.dropped = op.dropped
    BY <1>14 DEF RetireSource, Over
  <2> QED BY <2>1 DEF Idle
<1>15. CASE UndoOnTarget
  <2>1. agent' = agent /\ op' = op /\ job.pc = "undo" /\ job'.pc = "putback"
    BY <1>15 DEF UndoOnTarget, At
  <2> QED BY <2>1
<1>16. CASE PutBackRecord
  <2>1. /\ op' = op /\ job'.pc \in {"hold", "restart"}
        /\ agent'.host = op.from /\ agent'.key = op.from
        /\ agent'.image = (agent.image \/ op.dropped)
    BY <1>16 DEF PutBackRecord, AsBefore, KeepPin, At
  <2> QED BY <2>1
<1>17. CASE HoldOrphan
  BY <1>17 DEF HoldOrphan, Idle
<1> QED
  BY <1>1, <1>2, <1>3, <1>4, <1>5, <1>6, <1>7, <1>8, <1>9, <1>10, <1>11, <1>12, <1>13,
     <1>14, <1>15, <1>16, <1>17 DEF MoveStep

(* Fits is preserved by the restart rule.                                  *)
LEMMA FitsResume ==
  ASSUME TypeOK, Shape, Fits, ResumeMove, job.pc = "idle", Active
  PROVE  Fits'
<1> USE DEF TypeOK, OpRow, Job, AgentRow, Shape, Fits, RecordFits, Before, After, Active, StepReached, From, Tgt, Over, Resumed
<1>1. agent' = agent
  BY DEF ResumeMove
<1>2. CASE op.step = 0 /\ op' = Over /\ job' = job
  BY <1>1, <1>2
<1>3. CASE /\ op.step # 0 /\ agent.host # op.to /\ op' = op
           /\ \E a \in Answers(Tgt) : job' = Resumed("undo", FALSE, a)
  BY <1>1, <1>3
<1>4. CASE /\ op.step # 0 /\ agent.host = op.to /\ op' = op /\ SettledThere
           /\ job' = Resumed("retire", FALSE, TRUE)
  BY <1>1, <1>4 DEF SettledThere
<1>5. CASE /\ op.step # 0 /\ agent.host = op.to /\ op' = op
           /\ job' = Resumed("configure", TargetMayRun, TRUE)
  BY <1>1, <1>5
<1>6. CASE /\ op.step # 0 /\ agent.host = op.to /\ job' = job
           /\ op' = [op EXCEPT !.status = "held", !.choices = "move"]
  BY <1>1, <1>6
<1> QED BY <1>2, <1>3, <1>4, <1>5, <1>6 DEF ResumeMove

(* Fits is preserved by every step.                                        *)
LEMMA FitsStep == TypeOK /\ Shape /\ Fits /\ [Next]_vars => Fits'
<1> SUFFICES ASSUME TypeOK, Shape, Fits, [Next]_vars PROVE Fits'
  OBVIOUS
<1>1. CASE MoveStep
  BY <1>1, FitsMoveStep
<1>2. CASE ResumeInterrupted \/ ChooseRetry
  <2>1. job.pc = "idle" /\ Active /\ ResumeMove
    BY <1>2 DEF ResumeInterrupted, ChooseRetry, Chosen, Active
  <2> QED BY <2>1, FitsResume
<1> USE DEF TypeOK, OpRow, Job, AgentRow, Fits, RecordFits, Before, Active, StepReached
<1>3. CASE \E s, t \in Hosts, drop \in BOOLEAN : MoveBegin(s, t, drop)
  <2>1. PICK s \in Hosts, t \in Hosts, drop \in BOOLEAN : MoveBegin(s, t, drop)
    BY <1>3
  <2>2. /\ op'.status = "running" /\ op'.step = 0 /\ op'.from = agent.host /\ op'.to = t
        /\ op'.dropped => agent.image
        /\ job'.pc = "begun" /\ agent' = agent /\ agent.host # t /\ ~Active
    BY <2>1 DEF MoveBegin, Free
  <2> QED BY <2>2
<1>4. CASE ChoosePutBack \/ ChooseRemoveCopy \/ ChooseCopyRemoved
  <2>1. op' = op /\ agent' = agent /\ job'.pc = "undo"
    <3>1. CASE ChoosePutBack
      BY <3>1 DEF ChoosePutBack, Resumed
    <3>2. CASE ChooseRemoveCopy
      BY <3>2 DEF ChooseRemoveCopy, Resumed
    <3>3. CASE ChooseCopyRemoved
      BY <3>3 DEF ChooseCopyRemoved, Resumed
    <3> QED BY <1>4, <3>1, <3>2, <3>3
  <2> QED BY <2>1
<1>5. CASE StartRoute \/ StopRoute \/ Reconcile \/ Outside
  <2>1. /\ op' = op /\ job' = job /\ agent'.host = agent.host /\ agent'.key = agent.key
        /\ agent'.image = agent.image
    BY <1>5 DEF StartRoute, StopRoute, Reconcile, ReconcileLook, ReconcileAnswer, ReconcileJudge,
                Outside, MachineFlips, StoppedOutside, Pruned, CopyRemovedByHand
  <2> QED BY <2>1
<1>6. CASE Crash
  <2>1. /\ op' = op /\ job'.pc = "dead" /\ agent'.host = agent.host /\ agent'.image = agent.image
        /\ job.pc \in {"provision", "configure"} => agent'.key \in {agent.key, op.to}
        /\ job.pc \notin {"provision", "configure"} => agent'.key = agent.key
    BY <1>6 DEF Crash
  <2>2. job.pc \in {"provision", "configure"} => Active /\ op.step # 0
    BY DEF Shape, Busy, After, From, Tgt
  <2> QED BY <2>1, <2>2
<1>7. CASE Boot
  <2>1. job'.pc = "idle" /\ agent' = agent /\ op' = CutOff(op)
    BY <1>7 DEF Boot, Idle
  <2> QED BY <2>1 DEF CutOff
<1>8. CASE UNCHANGED vars
  BY <1>8 DEF vars
<1> QED BY <1>1, <1>2, <1>3, <1>4, <1>5, <1>6, <1>7, <1>8 DEF Next, Owner

(* What was changed for a move fits where the agent is once it is over,    *)
(* the memory-search key as well as the image pin: with every window open. *)
THEOREM RecordAlwaysFits == Spec => []RecordFits
<1>1. Init => TypeOK /\ Shape /\ Fits
  <2>1. Init => Fits
    BY DEF Init, Fits, RecordFits, Active, Before, StepReached
  <2> QED BY <2>1, InitOK
<1>2. TypeOK /\ Shape /\ Fits /\ [Next]_vars => (TypeOK /\ Shape /\ Fits)'
  BY TypeStep, ShapeStep, FitsStep
<1>3. Fits => RecordFits
  BY DEF Fits
<1> QED BY <1>1, <1>2, <1>3, PTL DEF Spec

-----------------------------------------------------------------------------
(* No step of a move of a stopped agent starts a container: the starts are *)
(* guarded by wasRunning, or by a record that has it.                      *)
LEMMA NoStart ==
  ASSUME TypeOK, Shape, Next, Active, ~op.wasRunning
  PROVE  NoNewRunner
<1>d. Src \in Daemons /\ Tgt \in Daemons /\ mach \in [Daemons -> Machine]
  BY HomesAreDaemons DEF TypeOK
<1>0. mach' = mach => NoNewRunner
  BY DEF NoNewRunner, Running
<1>1. CASE MoveStep
  <2>1. CASE QuiesceSource
    BY <1>d, <2>1, StopCall DEF QuiesceSource
  <2>2. CASE RestartSource
    BY <1>0, <2>2 DEF RestartSource, ToBeStarted
  <2>3. CASE ProvisionTarget \/ ConfigureTarget
    BY <1>d, <2>3, ProvisionCall DEF ProvisionTarget, ConfigureTarget
  <2>4. CASE ImportState
    BY <1>d, <2>4, ImportCall DEF ImportState
  <2>5. ~StartTarget
    BY DEF StartTarget, Shape, TargetMayRun
  <2>6. CASE RetireSource
    BY <1>d, <2>6, DestroyCall DEF RetireSource
  <2>7. CASE UndoOnTarget
    BY <1>0, <1>d, <2>7, DestroyCall DEF UndoOnTarget
  <2> QED
    BY <1>0, <1>1, <2>1, <2>2, <2>3, <2>4, <2>5, <2>6, <2>7
    DEF MoveStep, MoveChecked, ExportState, FlipHost, RecordFlip, AwaitHealthy, MarkRunning,
        RecordSettled, PutBackRecord, HoldOrphan
<1>2. CASE ResumeInterrupted
  BY <1>0, <1>2 DEF ResumeInterrupted, ResumeMove
<1>3. CASE Owner
  <2>1. ~(StartRoute \/ StopRoute)
    BY DEF StartRoute, StopRoute, Free
  <2> QED
    BY <1>0, <1>3, <2>1
    DEF Owner, MoveBegin, ChooseRetry, ChoosePutBack, ChooseRemoveCopy, ChooseCopyRemoved,
        ResumeMove
<1>4. CASE Reconcile \/ Outside \/ Boot
  BY <1>4, OutsideFrame
<1>5. CASE Crash
  <2>1. CallUnderWay /\ job.pc # "start"
    BY <1>5 DEF Crash, Shape, TargetMayRun
  <2>2. CASE job.pc = "restart"
    BY <1>0, <2>1, <2>2 DEF CallUnderWay
  <2> QED BY <2>1, <2>2, CallUnderWayFrame
<1> QED BY <1>1, <1>2, <1>3, <1>4, <1>5 DEF Next

(* An agent moved while stopped is started nowhere by its move, its        *)
(* restart rule or its owner's choices, with every window open.            *)
THEOREM NotStartedByMove == Spec => StoppedStaysStopped
<1>1. Init => TypeOK /\ Shape
  BY InitOK
<1>2. TypeOK /\ Shape /\ [Next]_vars => (TypeOK /\ Shape)'
  BY TypeStep, ShapeStep
<1>3. TypeOK /\ Shape /\ [Next]_vars =>
        [Active /\ ~op.wasRunning => \A d \in Daemons : Running(d)' => Running(d)]_vars
  BY NoStart DEF NoNewRunner
<1> QED BY <1>1, <1>2, <1>3, PTL DEF Spec, StoppedStaysStopped

-----------------------------------------------------------------------------
(* Every call but a provision leaves a missing container missing.          *)
LEMMA OtherCallsMakeNone ==
  ASSUME mach \in [Daemons -> Machine], NEW d \in Daemons, NEW v, NEW e \in Daemons,
         mach[e].con = "absent",
         \/ Tried(d, MayStop(mach[d])) \/ Done(d, StopDone(mach[d]))
         \/ Tried(d, MayStart(mach[d])) \/ Done(d, StartDone(mach[d]))
         \/ Tried(d, MayImport(mach[d], v)) \/ Done(d, ImportDone(mach[d], v))
         \/ Tried(d, MayDestroy(mach[d])) \/ Done(d, DestroyDone(mach[d]))
  PROVE  mach'[e].con = "absent"
<1>1. mach[d] \in Machine
  OBVIOUS
<1>2. mach[d].con = "absent" =>
        \A x \in MayStop(mach[d]) \union MayStart(mach[d]) \union MayImport(mach[d], v)
                   \union MayDestroy(mach[d]) : x.con = "absent"
  BY <1>1 DEF MayStop, StopDone, MayStart, StartDone, MayImport, ImportDone, MayDestroy,
              DestroyDone, Halt, Machine
<1>3. \/ mach'[d] = mach[d]
      \/ mach'[d] \in MayStop(mach[d]) \union MayStart(mach[d]) \union MayImport(mach[d], v)
                   \union MayDestroy(mach[d])
  BY DEF Tried, Done, MayStop, MayStart, MayImport, MayDestroy
<1>4. e # d => mach'[e] = mach[e]
  BY DEF Tried, Done
<1> QED BY <1>2, <1>3, <1>4

(* A container that was missing is made only by a move's provisions, on    *)
(* the machine it goes to.                                                 *)
LEMMA MadeByProvision ==
  ASSUME TypeOK, Next, NEW e \in Daemons, mach[e].con = "absent",
         e # Tgt \/ job.pc \notin {"provision", "configure"}
  PROVE  mach'[e].con = "absent"
<1>d. /\ Src \in Daemons /\ Tgt \in Daemons /\ Home \in Daemons
      /\ mach \in [Daemons -> Machine]
  BY HomesAreDaemons DEF TypeOK
<1>p. \A S, m : e # Tgt /\ (Tried(Tgt, S) \/ Done(Tgt, m)) => mach'[e] = mach[e]
  BY <1>d DEF Tried, Done
<1>1. CASE MoveStep
  <2>1. CASE QuiesceSource
    BY <1>d, <2>1, OtherCallsMakeNone DEF QuiesceSource
  <2>2. CASE RestartSource
    BY <1>d, <2>2, OtherCallsMakeNone DEF RestartSource
  <2>3. CASE ProvisionTarget \/ ConfigureTarget
    BY <1>p, <2>3 DEF ProvisionTarget, ConfigureTarget
  <2>4. CASE ImportState
    BY <1>d, <2>4, OtherCallsMakeNone DEF ImportState
  <2>5. CASE StartTarget
    BY <1>d, <2>5, OtherCallsMakeNone DEF StartTarget
  <2>6. CASE RetireSource
    BY <1>d, <2>6, OtherCallsMakeNone DEF RetireSource
  <2>7. CASE UndoOnTarget
    BY <1>d, <2>7, OtherCallsMakeNone DEF UndoOnTarget
  <2> QED
    BY <1>1, <2>1, <2>2, <2>3, <2>4, <2>5, <2>6, <2>7
    DEF MoveStep, MoveChecked, ExportState, FlipHost, RecordFlip, AwaitHealthy, MarkRunning,
        RecordSettled, PutBackRecord, HoldOrphan
<1>2. CASE ResumeInterrupted
  BY <1>2 DEF ResumeInterrupted, ResumeMove
<1>3. CASE Owner
  <2>1. CASE StartRoute \/ StopRoute
    BY <1>d, <2>1, OtherCallsMakeNone DEF StartRoute, StopRoute
  <2> QED
    BY <1>3, <2>1
    DEF Owner, MoveBegin, ChooseRetry, ChoosePutBack, ChooseRemoveCopy, ChooseCopyRemoved,
        ResumeMove
<1>4. CASE Reconcile \/ Boot
  BY <1>4 DEF Reconcile, ReconcileLook, ReconcileAnswer, ReconcileJudge, Boot
<1>5. CASE Outside
  BY <1>5, <1>d DEF Outside, MachineFlips, StoppedOutside, Pruned, CopyRemovedByHand, Machine
<1>6. CASE Crash
  <2>1. CallUnderWay
    BY <1>6 DEF Crash
  <2>2. CASE job.pc \in {"provision", "configure"}
    BY <1>p, <2>1, <2>2 DEF CallUnderWay
  <2>3. CASE job.pc \notin {"provision", "configure"}
    BY <1>d, <2>1, <2>3, OtherCallsMakeNone DEF CallUnderWay
  <2> QED BY <2>2, <2>3
<1> QED BY <1>1, <1>2, <1>3, <1>4, <1>5, <1>6 DEF Next

(* What makes MissingIsMissing true: a row that is still as the sweep read *)
(* it points where it did, and the container it was told is missing there  *)
(* has not been made since.                                                *)
Swept ==
  /\ rc.fresh => rc.host = agent.host
  /\ rc.fresh /\ Active => agent.host = op.from
  /\ rc.fresh /\ rc.phase = "absent" => mach[DaemonOf[rc.host]].con = "absent"

(* What a step does to the sweep's copy and to what it is compared with.   *)
LEMMA SweepFrame ==
  ASSUME TypeOK, Shape, Swept, Next, ~Reconcile
  PROVE  /\ rc'.fresh => rc.fresh /\ rc'.host = rc.host /\ rc'.phase = rc.phase
         /\ rc'.fresh => agent'.host = agent.host
         /\ rc'.fresh /\ Active' => agent.host = op'.from
<1> USE DEF Swept, Active, TypeOK, AgentRow, OpRow, Sweep
<1>1. CASE MoveStep
  <2>s. Active
    BY <1>1 DEF Shape, MoveStep, Busy, MoveChecked, QuiesceSource, ExportState, RestartSource,
       ProvisionTarget, ImportState, FlipHost, RecordFlip, ConfigureTarget, StartTarget,
       AwaitHealthy, MarkRunning, RecordSettled, RetireSource, UndoOnTarget, PutBackRecord,
       HoldOrphan
  <2>1. /\ rc'.fresh => rc.fresh /\ rc'.host = rc.host /\ rc'.phase = rc.phase
    BY <1>1 DEF Touch, MoveStep, MoveChecked, QuiesceSource, ExportState, RestartSource,
       ProvisionTarget, ImportState, FlipHost, RecordFlip, ConfigureTarget, StartTarget,
       AwaitHealthy, MarkRunning, RecordSettled, RetireSource, UndoOnTarget, PutBackRecord,
       HoldOrphan
  <2>2. op'.from = op.from
    BY <1>1 DEF Over, MoveStep, MoveChecked, QuiesceSource, ExportState, RestartSource,
       ProvisionTarget, ImportState, FlipHost, RecordFlip, ConfigureTarget, StartTarget,
       AwaitHealthy, MarkRunning, RecordSettled, RetireSource, UndoOnTarget, PutBackRecord,
       HoldOrphan
  <2>3. rc'.fresh => agent'.host = agent.host
    <3>1. FlipHost => ~rc'.fresh
      BY DEF FlipHost, Touch
    <3>2. PutBackRecord => agent'.host = op.from
      BY DEF PutBackRecord, AsBefore, KeepPin
    <3>3. QuiesceSource \/ RestartSource => agent'.host = agent.host
      BY DEF QuiesceSource, RestartSource, KeepPin
    <3>4. ~(FlipHost \/ PutBackRecord \/ QuiesceSource \/ RestartSource) => agent'.host = agent.host
      BY <1>1 DEF MoveStep, MoveChecked, ExportState,
       ProvisionTarget, ImportState, RecordFlip, ConfigureTarget, StartTarget,
       AwaitHealthy, MarkRunning, RecordSettled, RetireSource, UndoOnTarget,
       HoldOrphan
    <3> QED BY <2>1, <2>s, <3>1, <3>2, <3>3, <3>4
  <2> QED BY <2>s, <2>1, <2>2, <2>3
<1>2. CASE ResumeInterrupted \/ ChooseRetry
  <2>1. agent' = agent /\ rc' = rc /\ Active /\ op'.from = op.from
    BY <1>2 DEF ResumeInterrupted, ChooseRetry, Chosen, ResumeMove, Over
  <2> QED BY <2>1
<1>3. CASE \E s, t \in Hosts, drop \in BOOLEAN : MoveBegin(s, t, drop)
  BY <1>3 DEF MoveBegin
<1>4. CASE ChoosePutBack \/ ChooseRemoveCopy \/ ChooseCopyRemoved
  BY <1>4 DEF ChoosePutBack, ChooseRemoveCopy, ChooseCopyRemoved
<1>5. CASE StartRoute \/ StopRoute
  BY <1>5 DEF StartRoute, StopRoute, Touch
<1>6. CASE Outside
  BY <1>6 DEF Outside, MachineFlips, StoppedOutside, Pruned, CopyRemovedByHand
<1>7. CASE Crash
  BY <1>7 DEF Crash, RcOff, NoSweep
<1>8. CASE Boot
  <2>1. agent' = agent /\ rc' = rc /\ op'.from = op.from
    BY <1>8 DEF Boot, CutOff
  <2>2. Active' <=> Active
    BY <1>8 DEF Boot, CutOff
  <2> QED BY <2>1, <2>2
<1> QED BY <1>1, <1>2, <1>3, <1>4, <1>5, <1>6, <1>7, <1>8 DEF Next, Owner

(* Swept is preserved by every step.                                       *)
LEMMA SweptStep == TypeOK /\ Shape /\ Swept /\ [Next]_vars => Swept'
<1> SUFFICES ASSUME TypeOK, Shape, Swept, [Next]_vars PROVE Swept'
  OBVIOUS
<1>h. DaemonOf[rc.host] \in Daemons
  BY HostsAssumption DEF TypeOK, Sweep
<1>1. CASE Next /\ ~Reconcile
  <2>1. /\ rc'.fresh => rc.fresh /\ rc'.host = rc.host /\ rc'.phase = rc.phase
        /\ rc'.fresh => agent'.host = agent.host
        /\ rc'.fresh /\ Active' => agent.host = op'.from
    BY <1>1, SweepFrame
  <2>2. rc.fresh /\ job.pc \in {"provision", "configure"} => DaemonOf[rc.host] # Tgt
    BY DEF Swept, Shape, Busy, Before, After, From, Tgt
  <2>3. rc'.fresh /\ rc'.phase = "absent" => mach'[DaemonOf[rc.host]].con = "absent"
    BY <1>1, <1>h, <2>1, <2>2, MadeByProvision DEF Swept
  <2> QED BY <2>1, <2>3 DEF Swept
<1>2. CASE ReconcileLook
  BY <1>2 DEF ReconcileLook, NoSweep, Swept, Active
<1>3. CASE ReconcileAnswer
  BY <1>3 DEF ReconcileAnswer, Swept, Active, TypeOK, Sweep
<1>4. CASE ReconcileJudge
  BY <1>4 DEF ReconcileJudge, RcOff, NoSweep, Swept
<1>5. CASE UNCHANGED vars
  BY <1>5 DEF vars, Swept, Active
<1> QED BY <1>1, <1>2, <1>3, <1>4, <1>5 DEF Reconcile

(* Reconcile calls a runtime missing only when it is missing on the        *)
(* machine the agent is on now (#13), with every window open.              *)
THEOREM OnlyTheMissingIsFailed == Spec => MissingIsMissing
<1>1. Init => TypeOK /\ Shape /\ Swept
  <2>1. Init => Swept
    BY DEF Init, NoSweep, Swept
  <2> QED BY <2>1, InitOK
<1>2. TypeOK /\ Shape /\ Swept /\ [Next]_vars => (TypeOK /\ Shape /\ Swept)'
  BY TypeStep, ShapeStep, SweptStep
<1>3. TypeOK /\ Shape /\ Swept /\ [Next]_vars =>
        [agent.state # "FAILED" /\ agent'.state = "FAILED" => mach[Home].con = "absent"]_vars
  <2> SUFFICES ASSUME TypeOK, Swept, Next, agent.state # "FAILED", agent'.state = "FAILED"
               PROVE  mach[Home].con = "absent"
    BY DEF vars
  <2> USE DEF TypeOK, AgentRow
  <2>1. CASE ReconcileJudge
    <3>1. StillAsRead /\ Judged(agent.state, rc.phase) = "FAILED"
      BY <2>1 DEF ReconcileJudge
    <3>2. rc.fresh /\ rc.phase = "absent"
      BY <3>1 DEF StillAsRead, Judged
    <3> QED BY <3>2 DEF Swept, Home
  <2>2. ~ReconcileJudge => agent'.state # "FAILED"
    <3>1. ~MoveStep
      BY DEF MoveStep, MoveChecked, QuiesceSource, ExportState, RestartSource,
       ProvisionTarget, ImportState, FlipHost, RecordFlip, ConfigureTarget, StartTarget,
       AwaitHealthy, MarkRunning, RecordSettled, RetireSource, UndoOnTarget, PutBackRecord,
       HoldOrphan, KeepPin, AsBefore
    <3> QED
      BY <3>1
      DEF Next, ResumeInterrupted, ResumeMove, Owner, MoveBegin, ChooseRetry, ChoosePutBack,
          ChooseRemoveCopy, ChooseCopyRemoved, StartRoute, StopRoute, Reconcile, ReconcileLook,
          ReconcileAnswer, Outside, MachineFlips, StoppedOutside, Pruned, CopyRemovedByHand,
          Crash, Boot
  <2> QED BY <2>1, <2>2
<1> QED BY <1>1, <1>2, <1>3, PTL DEF Spec, MissingIsMissing

-----------------------------------------------------------------------------
(* The machine whose copy counts, as the refinement has it.                *)
AbsHome == IF Active /\ Undoing THEN From ELSE Home
SameMemory == \A e \in Daemons : Mem(e)' <=> Mem(e)

(* The five steps of OnePoller, said of machines.  Stop: nothing starts,   *)
(* no volume changes, home stays.                                          *)
LEMMA IsStop ==
  ASSUME NoNewRunner, SameMemory, AbsHome' = AbsHome
  PROVE  Abstract!Next
<1>1. Abstract!Stop
  BY DEF Abstract!Stop, NoNewRunner, SameMemory, AbsHome, From, Mem
<1> QED BY <1>1 DEF Abstract!Next

(* Remove: what is left holds the memory where it counts.                 *)
LEMMA IsRemove ==
  ASSUME NoNewRunner, \A e \in Daemons : Mem(e)' => Mem(e),
         AbsHome \in Daemons, mach'[AbsHome].vol = "memory", AbsHome' = AbsHome
  PROVE  Abstract!Next
<1>1. Abstract!Remove
  BY DEF Abstract!Remove, NoNewRunner, AbsHome, From, Mem
<1> QED BY <1>1 DEF Abstract!Next

(* Move: onto a machine that holds the memory, away from the only runner.  *)
LEMMA IsMove ==
  ASSUME NoNewRunner, SameMemory, \A e \in Daemons : Running(e) => e = AbsHome,
         AbsHome' \in Daemons, mach[AbsHome'].vol = "memory"
  PROVE  Abstract!Next
<1>1. Abstract!Move
  BY DEF Abstract!Move, NoNewRunner, SameMemory, AbsHome, From, Mem
<1> QED BY <1>1 DEF Abstract!Next

(* Copy: one more machine holds the memory.                                *)
LEMMA IsCopy ==
  ASSUME NEW d \in Daemons, mach'[d].vol = "memory", \A e \in Daemons \ {d} : Mem(e)' <=> Mem(e),
         \A e \in Daemons : Running(e)' <=> Running(e), AbsHome' = AbsHome
  PROVE  Abstract!Next
<1>1. Abstract!Copy
  BY DEF Abstract!Copy, AbsHome, From, Mem
<1> QED BY <1>1 DEF Abstract!Next

(* Start: where nothing ran, at the machine whose copy counts.             *)
LEMMA IsStart ==
  ASSUME \A e \in Daemons : ~Running(e), AbsHome \in Daemons,
         mach'[AbsHome].con = "running",
         \A e \in Daemons \ {AbsHome} : Running(e)' => Running(e), SameMemory,
         AbsHome' \in Daemons, mach[AbsHome'].vol = "memory"
  PROVE  Abstract!Next
<1>1. Abstract!Start
  BY DEF Abstract!Start, SameMemory, AbsHome, From, Mem, Running
<1> QED BY <1>1 DEF Abstract!Next

(* Where the machine whose copy counts is, at each place.                  *)
LEMMA AbsHomeIs ==
  ASSUME TypeOK, Shape, Kept
  PROVE  /\ AbsHome \in Daemons /\ Mem(AbsHome)
         /\ ~Active => AbsHome = Home
         /\ Active /\ agent.host = op.from => AbsHome = From
         /\ Active /\ agent.host = op.to /\ ~Undoing => AbsHome = Tgt
  BY HostsAssumption
  DEF TypeOK, AgentRow, OpRow, Shape, Kept, AbsHome, Undoing, Active, Busy, Home, From, Tgt, Mem

(* A provision starts nothing and changes no memory.                       *)
LEMMA ProvisionMakesNone ==
  ASSUME mach \in [Daemons -> Machine], NEW d \in Daemons,
         Tried(d, MayProvision(mach[d])) \/ Done(d, ProvisionDone(mach[d]))
  PROVE  NoNewRunner /\ SameMemory
<1>0. mach[d] \in Machine
  OBVIOUS
<1>1. \A x \in MayProvision(mach[d]) : x.vol = mach[d].vol \/ (mach[d].vol = "none" /\ x.vol = "other")
  BY <1>0 DEF MayProvision, ProvisionDone, Seed, Machine
<1>2. mach'[d].vol = "memory" => mach[d].vol = "memory"
  BY <1>1 DEF Tried, Done, MayProvision
<1> QED BY <1>2, ProvisionCall, CallFrame DEF SameMemory, Untouched, Mem

(* A destroy starts nothing and can only lose its own machine's memory.    *)
LEMMA DestroyMakesNone ==
  ASSUME mach \in [Daemons -> Machine], NEW d \in Daemons,
         Tried(d, MayDestroy(mach[d])) \/ Done(d, DestroyDone(mach[d]))
  PROVE  /\ NoNewRunner
         /\ \A e \in Daemons : Mem(e)' => Mem(e)
         /\ \A e \in Daemons \ {d} : Mem(e)' <=> Mem(e)
<1>0. mach[d] \in Machine
  OBVIOUS
<1>1. \A x \in MayDestroy(mach[d]) : x.vol = mach[d].vol \/ x.vol = "none"
  BY <1>0 DEF MayDestroy, DestroyDone, Machine
<1>2. mach'[d].vol = "memory" => mach[d].vol = "memory"
  BY <1>1 DEF Tried, Done, MayDestroy
<1> QED BY <1>2, DestroyCall DEF Mem

(* An import leaves the containers alone, and its volume as it was,        *)
(* without the memory or, from a source that holds it, with it.            *)
LEMMA ImportEffect ==
  ASSUME mach \in [Daemons -> Machine], NEW d \in Daemons, NEW v,
         Tried(d, MayImport(mach[d], v)) \/ Done(d, ImportDone(mach[d], v))
  PROVE  /\ \A e \in Daemons : Running(e)' <=> Running(e)
         /\ \A e \in Daemons \ {d} : Mem(e)' <=> Mem(e)
<1>1. \A x \in MayImport(mach[d], v) : x.con = mach[d].con
  BY DEF MayImport, ImportDone, Machine
<1>2. mach'[d].con = mach[d].con
  BY <1>1 DEF Tried, Done, MayImport
<1> QED BY <1>2, CallFrame DEF Untouched, Running, Mem

(* A start of the machine whose copy counts, at the end of which the       *)
(* machine that counts holds the memory.                                   *)
LEMMA StartMaps ==
  ASSUME TypeOK, Shape, Kept,
         Tried(AbsHome, MayStart(mach[AbsHome])) \/ Done(AbsHome, StartDone(mach[AbsHome])),
         \A e \in Daemons : Running(e) => e = AbsHome,
         AbsHome' \in Daemons, mach[AbsHome'].vol = "memory"
  PROVE  Abstract!Next
<1>1. AbsHome \in Daemons /\ mach \in [Daemons -> Machine]
  BY AbsHomeIs DEF TypeOK
<1>2. /\ \A e \in Daemons \ {AbsHome} : Running(e)' => Running(e)
      /\ SameMemory
  BY <1>1, StartCall DEF SameMemory
<1>3. CASE mach'[AbsHome].con = "running" => Running(AbsHome)
  <2>1. NoNewRunner
    BY <1>2, <1>3 DEF NoNewRunner, Running
  <2> QED BY <1>2, <2>1, IsMove
<1>4. CASE mach'[AbsHome].con = "running" /\ ~Running(AbsHome)
  <2>1. \A e \in Daemons : ~Running(e)
    BY <1>4
  <2> QED BY <1>1, <1>2, <1>4, <2>1, IsStart
<1> QED BY <1>3, <1>4

(* What Quiet says of the machine whose copy counts: it is the only one    *)
(* where a copy may run, but while a copy that may not be started again is *)
(* held.                                                                   *)
LEMMA OnlyAtHome ==
  ASSUME TypeOK, Shape, Quiet, Kept, Busy => job.pc \notin {"undo", "putback", "hold"},
         op.choices # "orphan"
  PROVE  \A e \in Daemons : Running(e) => e = AbsHome
  BY AbsHomeIs
  DEF Shape, Quiet, Undoing, Busy, Active

(* The move's own steps implement OnePoller.                               *)
LEMMA MoveStepMaps ==
  ASSUME TypeOK, Shape, Quiet, Kept, MoveStep
  PROVE  Abstract!Next \/ UNCHANGED Abstract!vars
<1>d. /\ From \in Daemons /\ Src \in Daemons /\ Tgt \in Daemons /\ Home \in Daemons
      /\ AbsHome \in Daemons /\ mach \in [Daemons -> Machine]
  BY HostsAssumption, AbsHomeIs DEF TypeOK, AgentRow, OpRow, Job, From, Src, Tgt, Home
<1>s. Busy /\ Active /\ Src = From /\ From # Tgt
  BY DEF Shape, MoveStep, Busy, Src, From, MoveChecked, QuiesceSource, ExportState, RestartSource,
         ProvisionTarget, ImportState, FlipHost, RecordFlip, ConfigureTarget, StartTarget,
         AwaitHealthy, MarkRunning, RecordSettled, RetireSource, UndoOnTarget, PutBackRecord,
         HoldOrphan
<1>m. mach' = mach => NoNewRunner /\ SameMemory
  BY DEF NoNewRunner, SameMemory, Running, Mem
<1>k. ~StepReached(Settled) \/ job.pc = "retire"
  BY <1>s DEF Kept
<1>f. (agent.host = op.from => Home = From) /\ (agent.host = op.to => Home = Tgt)
  BY DEF Home, From, Tgt
<1>1. CASE MoveChecked \/ ExportState \/ RecordFlip \/ MarkRunning \/ RecordSettled
           \/ PutBackRecord \/ HoldOrphan
  <2>1. mach' = mach
    BY <1>1 DEF MoveChecked, ExportState, RecordFlip, MarkRunning, RecordSettled, PutBackRecord,
                HoldOrphan
  <2>2. AbsHome' = AbsHome
    <3>1. CASE PutBackRecord
      <4>1. agent'.host = op.from /\ op' = op /\ job.pc = "putback" /\ job'.pc \in {"hold", "restart"}
        BY <3>1 DEF PutBackRecord, AsBefore, KeepPin, At, TypeOK, AgentRow, Job
      <4> QED BY <4>1, <1>s DEF AbsHome, Undoing, Home, From
    <3>2. CASE ~PutBackRecord
      <4>1. /\ agent'.host = agent.host /\ op'.from = op.from
            /\ job.pc \notin {"undo", "putback"} /\ job'.pc \notin {"undo", "putback"}
        <5> USE DEF TypeOK, AgentRow, OpRow, Job, At, Idle
        <5>1. CASE MoveChecked
          BY <5>1 DEF MoveChecked
        <5>2. CASE ExportState
          BY <5>2 DEF ExportState
        <5>3. CASE RecordFlip
          BY <5>3 DEF RecordFlip
        <5>4. CASE MarkRunning
          BY <5>4 DEF MarkRunning
        <5>5. CASE RecordSettled
          BY <5>5 DEF RecordSettled
        <5>6. CASE HoldOrphan
          BY <5>6 DEF HoldOrphan
        <5> QED BY <1>1, <3>2, <5>1, <5>2, <5>3, <5>4, <5>5, <5>6
      <4> QED BY <4>1 DEF AbsHome, Undoing, Home
    <3> QED BY <3>1, <3>2
  <2> QED BY <1>m, <2>1, <2>2, IsStop
<1>2. CASE QuiesceSource
  <2>1. NoNewRunner /\ SameMemory
    BY <1>d, <1>2, StopCall DEF QuiesceSource, SameMemory
  <2>2. /\ agent'.host = agent.host /\ job.pc = "quiesce" /\ job'.pc \in {"export", "idle"}
    BY <1>2 DEF QuiesceSource, KeepPin, At, Idle, TypeOK, AgentRow, Job
  <2>3. AbsHome' = AbsHome
    BY <2>2 DEF AbsHome, Undoing, Home
  <2> QED BY <2>1, <2>3, IsStop
<1>4. CASE RestartSource
  <2>1. /\ agent'.host = agent.host /\ job.pc = "restart" /\ job'.pc = "idle"
    BY <1>4 DEF RestartSource, KeepPin, Idle, TypeOK, AgentRow
  <2>2. AbsHome' = AbsHome /\ AbsHome = From
    BY <2>1, <1>f DEF AbsHome, Undoing, Home, Shape
  <2>3. CASE mach' = mach
    BY <1>m, <2>2, <2>3, IsStop
  <2>4. CASE Tried(Src, MayStart(mach[Src])) \/ Done(Src, StartDone(mach[Src]))
    <3>1. \A e \in Daemons : Running(e) => e = AbsHome
      BY <2>1, <2>2, <1>s DEF Quiet
    <3>2. mach[AbsHome'].vol = "memory"
      BY <2>2, AbsHomeIs DEF Mem
    <3> QED BY <1>d, <1>s, <2>2, <2>4, <3>1, <3>2, StartMaps
  <2> QED BY <1>4, <2>3, <2>4 DEF RestartSource
<1>5. CASE ProvisionTarget
  <2>1. NoNewRunner /\ SameMemory
    BY <1>d, <1>5, ProvisionMakesNone DEF ProvisionTarget
  <2>2. /\ agent'.host = agent.host /\ job.pc = "provision" /\ agent.host = op.from
        /\ op'.from = op.from
    BY <1>5 DEF ProvisionTarget, TypeOK, AgentRow, OpRow, Shape, Before
  <2>3. AbsHome' = AbsHome
    BY <2>2, <1>f DEF AbsHome, Undoing, Home, From
  <2> QED BY <2>1, <2>3, IsStop
<1>6. CASE ImportState
  <2>1. /\ agent' = agent /\ job.pc = "import" /\ agent.host = op.from
        /\ op'.from = op.from
    BY <1>6 DEF ImportState, TypeOK, OpRow, Shape, Before
  <2>2. AbsHome' = AbsHome /\ AbsHome = From
    BY <2>1, <1>f DEF AbsHome, Undoing, Home, From
  <2>3. /\ \A e \in Daemons : Running(e)' <=> Running(e)
        /\ \A e \in Daemons \ {Tgt} : Mem(e)' <=> Mem(e)
    BY <1>d, <1>6, ImportEffect DEF ImportState
  <2>4. CASE mach'[Tgt].vol = "memory"
    BY <1>d, <2>2, <2>3, <2>4, IsCopy
  <2>5. CASE mach'[Tgt].vol # "memory"
    <3>1. /\ NoNewRunner
          /\ \A e \in Daemons : Mem(e)' => Mem(e)
      BY <2>3, <2>5 DEF NoNewRunner, Mem
    <3>2. Mem(From) /\ From # Tgt
      BY <1>s, <2>1 DEF Kept, Shape, StepReached
    <3>3. mach'[AbsHome].vol = "memory"
      BY <1>d, <2>2, <2>3, <3>2 DEF Mem
    <3> QED BY <1>d, <2>2, <3>1, <3>3, IsRemove
  <2> QED BY <2>4, <2>5
<1>7. CASE FlipHost
  <2>1. /\ mach' = mach /\ op' = op /\ job.pc = "flip" /\ job'.pc = "flipped"
        /\ agent'.host = op.to /\ agent.host = op.from
    BY <1>7 DEF FlipHost, At, TypeOK, AgentRow, Job, Shape, Before
  <2>2. AbsHome' = Tgt
    BY <2>1 DEF AbsHome, Undoing, Home, Tgt
  <2>3. \A e \in Daemons : Running(e) => e = AbsHome
    BY <2>1, OnlyAtHome DEF Shape, Before
  <2>4. mach[AbsHome'].vol = "memory"
    BY <2>1, <2>2 DEF Kept, Mem
  <2> QED BY <1>d, <1>m, <2>1, <2>2, <2>3, <2>4, IsMove
<1>9. CASE ConfigureTarget
  <2>1. NoNewRunner /\ SameMemory
    BY <1>d, <1>9, ProvisionMakesNone DEF ConfigureTarget
  <2>2. /\ agent'.host = agent.host /\ job.pc = "configure" /\ agent.host = op.to
        /\ op'.from = op.from /\ op.choices # "orphan"
        /\ op'.status = op.status
        /\ job'.pc \in {"start", "settle", "undo"}
    BY <1>9 DEF ConfigureTarget, ToBeStarted, TypeOK, AgentRow, OpRow, Job, Shape, After, At
  <2>3. AbsHome' \in {AbsHome, From}
    BY <2>2 DEF AbsHome, Undoing, Home, From
  <2>4. \A e \in Daemons : Running(e) => e = AbsHome
    BY <2>2, OnlyAtHome
  <2>5. mach[AbsHome'].vol = "memory"
    BY <1>s, <1>k, <2>2, <2>3, AbsHomeIs DEF Kept, Mem
  <2> QED BY <1>d, <2>1, <2>3, <2>4, <2>5, IsMove
<1>10. CASE StartTarget
  <2>1. /\ agent' = agent /\ job.pc = "start" /\ agent.host = op.to
        /\ op'.from = op.from /\ op.choices # "orphan"
    BY <1>10 DEF StartTarget, TypeOK, OpRow, Shape, After
  <2>2. AbsHome' \in {AbsHome, From} /\ AbsHome = Tgt
    BY <2>1, <1>f DEF AbsHome, Undoing, Home, From
  <2>3. \A e \in Daemons : Running(e) => e = AbsHome
    BY <2>1, OnlyAtHome
  <2>4. mach[AbsHome'].vol = "memory"
    BY <1>s, <1>k, <2>1, <2>2, AbsHomeIs DEF Kept, Mem
  <2>5. Tried(AbsHome, MayStart(mach[AbsHome])) \/ Done(AbsHome, StartDone(mach[AbsHome]))
    BY <1>10, <2>2 DEF StartTarget
  <2> QED BY <1>d, <2>2, <2>3, <2>4, <2>5, StartMaps
<1>11. CASE AwaitHealthy
  <2>1. /\ mach' = mach /\ agent' = agent /\ op' = op /\ job.pc = "health" /\ agent.host = op.to
        /\ op.choices # "orphan"
    BY <1>11 DEF AwaitHealthy, Shape, After
  <2>2. AbsHome' \in {AbsHome, From}
    BY <2>1 DEF AbsHome, Undoing, Home, From
  <2>3. \A e \in Daemons : Running(e) => e = AbsHome
    BY <2>1, OnlyAtHome
  <2>4. mach[AbsHome'].vol = "memory"
    BY <1>s, <1>k, <2>1, <2>2, AbsHomeIs DEF Kept, Mem
  <2> QED BY <1>d, <1>m, <2>1, <2>2, <2>3, <2>4, IsMove
<1>14. CASE RetireSource
  <2>1. agent' = agent /\ job.pc = "retire" /\ job'.pc = "idle" /\ agent.host = op.to
    BY <1>14 DEF RetireSource, Idle, Shape, After
  <2>2. AbsHome' = AbsHome /\ AbsHome = Tgt
    BY <2>1, <1>f DEF AbsHome, Undoing, Home
  <2>3. /\ NoNewRunner
        /\ \A e \in Daemons : Mem(e)' => Mem(e)
        /\ \A e \in Daemons \ {Src} : Mem(e)' <=> Mem(e)
    BY <1>d, <1>14, DestroyMakesNone DEF RetireSource
  <2>4. mach'[AbsHome].vol = "memory"
    BY <1>d, <1>s, <2>2, <2>3, AbsHomeIs DEF Mem
  <2> QED BY <1>d, <2>2, <2>3, <2>4, IsRemove
<1>15. CASE UndoOnTarget
  <2>1. agent' = agent /\ op' = op /\ job.pc = "undo" /\ job'.pc = "putback"
    BY <1>15 DEF UndoOnTarget, At, TypeOK, Job
  <2>2. AbsHome' = AbsHome /\ AbsHome = From
    BY <1>s, <2>1 DEF AbsHome, Undoing, Active, From
  <2>3. CASE mach' = mach
    BY <1>m, <2>2, <2>3, IsStop
  <2>4. CASE Tried(Tgt, MayDestroy(mach[Tgt])) \/ Done(Tgt, DestroyDone(mach[Tgt]))
    <3>1. /\ NoNewRunner
          /\ \A e \in Daemons : Mem(e)' => Mem(e)
          /\ \A e \in Daemons \ {Tgt} : Mem(e)' <=> Mem(e)
      BY <1>d, <2>4, DestroyMakesNone
    <3>2. mach'[AbsHome].vol = "memory"
      BY <1>d, <1>s, <2>2, <3>1, AbsHomeIs DEF Mem
    <3> QED BY <1>d, <2>2, <3>1, <3>2, IsRemove
  <2> QED BY <1>15, <2>3, <2>4 DEF UndoOnTarget
<1> QED
  BY <1>1, <1>2, <1>4, <1>5, <1>6, <1>7, <1>9, <1>10, <1>11, <1>14, <1>15 DEF MoveStep

(* The restart rule changes nothing that OnePoller can see.                *)
LEMMA ResumeMaps ==
  ASSUME TypeOK, Shape, ResumeMove, job.pc = "idle"
  PROVE  NoNewRunner /\ SameMemory /\ AbsHome' = AbsHome
<1>1. agent' = agent /\ mach' = mach /\ op'.from = op.from
  BY DEF ResumeMove, Over, TypeOK, OpRow
<1>2. \/ job'.pc \notin {"undo", "putback"}
      \/ job'.pc = "undo" /\ op' = op /\ agent.host # op.to
  BY DEF ResumeMove, Resumed
<1>3. AbsHome = Home
  BY DEF AbsHome, Undoing
<1>4. AbsHome' = Home
  <2>1. CASE job'.pc \notin {"undo", "putback"}
    BY <1>1, <2>1 DEF AbsHome, Undoing, Home
  <2>2. CASE job'.pc = "undo" /\ op' = op /\ agent.host # op.to
    <3>1. Active => agent.host = op.from
      BY <2>2 DEF Shape
    <3> QED BY <1>1, <2>2, <3>1 DEF AbsHome, Active, Undoing, Home, From
  <2> QED BY <1>2, <2>1, <2>2
<1> QED BY <1>1, <1>3, <1>4 DEF NoNewRunner, SameMemory, Running, Mem

(* The routes and the owner's choices implement OnePoller.                 *)
LEMMA OwnerMaps ==
  ASSUME TypeOK, Shape, Quiet, Kept, Owner
  PROVE  Abstract!Next
<1>d. /\ From \in Daemons /\ Tgt \in Daemons /\ Home \in Daemons
      /\ AbsHome \in Daemons /\ mach \in [Daemons -> Machine]
  BY HostsAssumption, AbsHomeIs DEF TypeOK, AgentRow, OpRow, From, Tgt, Home
<1>m. mach' = mach => NoNewRunner /\ SameMemory
  BY DEF NoNewRunner, SameMemory, Running, Mem
<1>1. CASE ChooseRetry
  <2>1. ResumeMove /\ job.pc = "idle"
    BY <1>1 DEF ChooseRetry, Chosen
  <2> QED BY <2>1, ResumeMaps, IsStop
<1>2. CASE \E s, t \in Hosts, drop \in BOOLEAN : MoveBegin(s, t, drop)
  <2>1. mach' = mach /\ agent' = agent /\ job.pc = "idle" /\ job'.pc = "begun"
    BY <1>2 DEF MoveBegin, Free
  <2>2. AbsHome' = AbsHome
    BY <2>1 DEF AbsHome, Undoing, Home
  <2> QED BY <1>m, <2>1, <2>2, IsStop
<1>3. CASE ChooseRemoveCopy \/ ChooseCopyRemoved
  <2>1. /\ mach' = mach /\ agent' = agent /\ op' = op /\ job.pc = "idle"
        /\ op.choices = "orphan"
    BY <1>3 DEF ChooseRemoveCopy, ChooseCopyRemoved, Chosen
  <2>2. AbsHome' = AbsHome
    BY <2>1 DEF AbsHome, Undoing, Home, Shape, From
  <2> QED BY <1>m, <2>1, <2>2, IsStop
<1>4. CASE ChoosePutBack
  <2>1. /\ mach' = mach /\ agent' = agent /\ op' = op /\ job.pc = "idle"
        /\ op.choices # "orphan" /\ op.status = "held" /\ job'.pc = "undo"
    BY <1>4 DEF ChoosePutBack, Chosen, Resumed
  <2>2. AbsHome' = From
    BY <2>1 DEF AbsHome, Undoing, Active, From
  <2>3. mach[AbsHome'].vol = "memory"
    BY <2>1, <2>2 DEF Kept, Active, Mem
  <2>4. \A e \in Daemons : Running(e) => e = AbsHome
    BY <2>1, OnlyAtHome
  <2> QED BY <1>d, <1>m, <2>1, <2>2, <2>3, <2>4, IsMove
<1>5. CASE StartRoute \/ StopRoute
  <2>1. /\ agent'.host = agent.host /\ op' = op /\ job' = job /\ ~Active
    BY <1>5 DEF StartRoute, StopRoute, Free, TypeOK, AgentRow
  <2>2. AbsHome' = AbsHome /\ AbsHome = Home
    BY <2>1 DEF AbsHome, Active, Undoing, Home
  <2>3. CASE StartRoute
    <3>1. Tried(AbsHome, MayStart(mach[AbsHome])) \/ Done(AbsHome, StartDone(mach[AbsHome]))
      BY <2>2, <2>3 DEF StartRoute
    <3>2. \A e \in Daemons : Running(e) => e = AbsHome
      BY <2>1, <2>2 DEF Quiet
    <3>3. mach[AbsHome'].vol = "memory"
      BY <2>2, AbsHomeIs DEF Mem
    <3> QED BY <1>d, <2>2, <3>1, <3>2, <3>3, StartMaps
  <2>4. CASE StopRoute
    <3>1. NoNewRunner /\ SameMemory
      BY <1>d, <2>4, StopCall DEF StopRoute, SameMemory
    <3> QED BY <2>2, <3>1, IsStop
  <2> QED BY <1>5, <2>3, <2>4
<1> QED BY <1>1, <1>2, <1>3, <1>4, <1>5 DEF Owner

(* A death of the process outside the "destroying" window implements       *)
(* OnePoller, whatever the call under way does.                            *)
LEMMA CrashMaps ==
  ASSUME "destroying" \notin CrashPoints, TypeOK, Shape, Quiet, Kept, Crash
  PROVE  Abstract!Next
<1>d. /\ From \in Daemons /\ Tgt \in Daemons /\ Src \in Daemons
      /\ AbsHome \in Daemons /\ Mem(AbsHome) /\ mach \in [Daemons -> Machine]
  BY HostsAssumption, AbsHomeIs DEF TypeOK, OpRow, Job, From, Tgt, Src
<1>1. CallUnderWay /\ op' = op /\ job'.pc = "dead" /\ agent'.host = agent.host
  BY HostStays DEF Crash
<1>2. job.pc \in {"undo", "putback"} => agent.host # op.to
  BY DEF Crash, InDestroying
<1>3. AbsHome' = AbsHome
  BY <1>1, <1>2 DEF AbsHome, Undoing, Home, From, Shape
<1>4. Busy => Active /\ Src = From /\ From # Tgt
  BY DEF Shape, Src, From, Tgt
<1>h. /\ agent.host = op.from /\ Active => AbsHome = From
      /\ job.pc \in {"start", "retire"} => AbsHome = Tgt
      /\ job.pc \in {"import", "undo", "restart"} => AbsHome = From
  BY <1>2, <1>4, AbsHomeIs DEF Shape, Before, After, Busy, Undoing
<1>5. CASE mach' = mach
  BY <1>3, <1>5, IsStop DEF NoNewRunner, SameMemory, Running, Mem
<1>6. CASE job.pc = "quiesce" /\ Tried(Src, MayStop(mach[Src]))
  BY <1>3, <1>6, <1>d, StopCall, IsStop DEF SameMemory
<1>7. CASE job.pc = "restart" /\ Tried(Src, MayStart(mach[Src]))
  <2>1. \A e \in Daemons : Running(e) => e = AbsHome
    BY <1>4, <1>7, <1>h DEF Quiet, Busy
  <2>2. Src = AbsHome /\ mach[AbsHome'].vol = "memory"
    BY <1>3, <1>4, <1>7, <1>d, <1>h DEF Busy, Mem
  <2> QED BY <1>3, <1>7, <1>d, <2>1, <2>2, StartMaps
<1>8. CASE job.pc \in {"provision", "configure"} /\ Tried(Tgt, MayProvision(mach[Tgt]))
  BY <1>3, <1>8, <1>d, ProvisionMakesNone, IsStop
<1>9. CASE job.pc = "import" /\ Tried(Tgt, MayImport(mach[Tgt], mach[Src].vol))
  <2>1. /\ \A e \in Daemons : Running(e)' <=> Running(e)
        /\ \A e \in Daemons \ {Tgt} : Mem(e)' <=> Mem(e)
    BY <1>d, <1>9, ImportEffect
  <2>2. CASE mach'[Tgt].vol = "memory"
    BY <1>3, <1>d, <2>1, <2>2, IsCopy
  <2>3. CASE mach'[Tgt].vol # "memory"
    <3>1. /\ NoNewRunner
          /\ \A e \in Daemons : Mem(e)' => Mem(e)
      BY <2>1, <2>3 DEF NoNewRunner, Mem
    <3>2. mach'[AbsHome].vol = "memory"
      BY <1>4, <1>9, <1>d, <1>h, <2>1 DEF Busy, Mem
    <3> QED BY <1>3, <1>d, <3>1, <3>2, IsRemove
  <2> QED BY <2>2, <2>3
<1>10. CASE job.pc = "start" /\ Tried(Tgt, MayStart(mach[Tgt]))
  <2>1. \A e \in Daemons : Running(e) => e = AbsHome
    BY <1>10, OnlyAtHome DEF Shape, After
  <2>2. Tgt = AbsHome /\ mach[AbsHome'].vol = "memory"
    BY <1>3, <1>10, <1>d, <1>h DEF Mem
  <2> QED BY <1>3, <1>10, <1>d, <2>1, <2>2, StartMaps
<1>11. CASE job.pc = "retire" /\ Tried(Src, MayDestroy(mach[Src]))
  <2>1. /\ NoNewRunner
        /\ \A e \in Daemons : Mem(e)' => Mem(e)
        /\ \A e \in Daemons \ {Src} : Mem(e)' <=> Mem(e)
    BY <1>d, <1>11, DestroyMakesNone
  <2>2. mach'[AbsHome].vol = "memory"
    BY <1>4, <1>11, <1>d, <1>h, <2>1 DEF Busy, Mem
  <2> QED BY <1>3, <1>d, <2>1, <2>2, IsRemove
<1>12. CASE job.pc = "undo" /\ Tried(Tgt, MayDestroy(mach[Tgt]))
  <2>1. /\ NoNewRunner
        /\ \A e \in Daemons : Mem(e)' => Mem(e)
        /\ \A e \in Daemons \ {Tgt} : Mem(e)' <=> Mem(e)
    BY <1>d, <1>12, DestroyMakesNone
  <2>2. mach'[AbsHome].vol = "memory"
    BY <1>4, <1>12, <1>d, <1>h, <2>1 DEF Busy, Mem
  <2> QED BY <1>3, <1>d, <2>1, <2>2, IsRemove
<1> QED
  BY <1>1, <1>5, <1>6, <1>7, <1>8, <1>9, <1>10, <1>11, <1>12 DEF CallUnderWay

(* Every step of the move and of all that meets it is a step of OnePoller, *)
(* or one that OnePoller cannot see.                                       *)
LEMMA StepMaps ==
  ASSUME "destroying" \notin CrashPoints, TypeOK, Shape, Quiet, Kept, [Next]_vars
  PROVE  Abstract!Next \/ UNCHANGED Abstract!vars
<1>1. CASE MoveStep
  BY <1>1, MoveStepMaps
<1>2. CASE ResumeInterrupted
  BY <1>2, ResumeMaps, IsStop DEF ResumeInterrupted
<1>3. CASE Owner
  BY <1>3, OwnerMaps
<1>4. CASE Crash
  BY <1>4, CrashMaps
<1>5. CASE Reconcile \/ Outside \/ Boot
  <2>1. NoNewRunner /\ SameMemory
    BY <1>5, OutsideFrame DEF SameMemory
  <2>2. agent'.host = agent.host
    BY <1>5, HostStays
  <2>3. \/ op' = op /\ job' = job
        \/ job.pc = "dead" /\ job'.pc = "idle"
    <3>1. CASE Reconcile
      BY <3>1 DEF Reconcile, ReconcileLook, ReconcileAnswer, ReconcileJudge
    <3>2. CASE Outside
      BY <3>2 DEF Outside, MachineFlips, StoppedOutside, Pruned, CopyRemovedByHand
    <3>3. CASE Boot
      BY <3>3 DEF Boot, Idle
    <3> QED BY <1>5, <3>1, <3>2, <3>3
  <2>4. AbsHome' = AbsHome
    BY <2>2, <2>3 DEF AbsHome, Active, Undoing, Home, From
  <2> QED BY <2>1, <2>4, IsStop
<1>6. CASE UNCHANGED vars
  <2>1. NoNewRunner /\ SameMemory /\ AbsHome' = AbsHome
    BY <1>6 DEF vars, NoNewRunner, SameMemory, AbsHome, Running, Mem, Active, Undoing, Home, From
  <2> QED BY <2>1, IsStop
<1> QED BY <1>1, <1>2, <1>3, <1>4, <1>5, <1>6 DEF Next

(* The initial states are OnePoller's.                                     *)
LEMMA InitMaps == Init => Abstract!Init
<1> SUFFICES ASSUME Init PROVE Abstract!Init
  OBVIOUS
<1>1. PICK h \in Hosts, s \in {"RUNNING", "STOPPED"}, pinned \in BOOLEAN :
        /\ agent = [host |-> h, state |-> s, image |-> pinned, key |-> h]
        /\ op = [status |-> "over", step |-> 0, from |-> h, to |-> h,
                 wasRunning |-> FALSE, dropped |-> FALSE, choices |-> "none"]
        /\ mach = [d \in Daemons |->
                     IF d = DaemonOf[h]
                       THEN [con |-> IF s = "RUNNING" THEN "running" ELSE "stopped",
                             vol |-> "memory", up |-> TRUE]
                       ELSE [con |-> "absent", vol |-> "none", up |-> TRUE]]
  BY DEF Init
<1>2. ~Active /\ Home = DaemonOf[h] /\ Home \in Daemons
  BY <1>1, HostsAssumption DEF Active, Home
<1>3. \A d \in Daemons : (mach[d].vol = "memory" <=> d = Home) /\ (Running(d) => d = Home)
  BY <1>1, <1>2 DEF Running
<1>4. {d \in Daemons : mach[d].vol = "memory"} = {Home}
  BY <1>2, <1>3
<1>5. {d \in Daemons : Running(d)} \in {{}, {Home}}
  BY <1>2, <1>3
<1> QED BY <1>2, <1>4, <1>5 DEF Abstract!Init

(* The move implements OnePoller, for every number of machines and every   *)
(* aliasing of host rows, with the three windows closed.                   *)
THEOREM MoveIsOnePoller ==
  ASSUME CrashPoints = {}
  PROVE  Spec => OneHome
<1>1. Init => TypeOK /\ Shape /\ Quiet /\ Kept
  BY InitOK, KeptInit
<1>2. TypeOK /\ Shape /\ Quiet /\ Kept /\ [Next]_vars => (TypeOK /\ Shape /\ Quiet /\ Kept)'
  BY TypeStep, ShapeStep, QuietStep, KeptStep
<1>3. TypeOK /\ Shape /\ Quiet /\ Kept /\ [Next]_vars => [Abstract!Next]_(Abstract!vars)
  BY StepMaps
<1>4. Init => Abstract!Init
  BY InitMaps
<1> QED BY <1>1, <1>2, <1>3, <1>4, PTL DEF Spec, OneHome, Abstract!Spec
=============================================================================
