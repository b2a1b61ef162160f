--------------------------- MODULE RestoreProofs ----------------------------
(***************************************************************************)
(* That the agent never runs on a half-restored memory or under another      *)
(* night's access, and that a copy of how it was remains while its memory is *)
(* half-restored, for any number of files, deaths and orders; and that every *)
(* ending a restore reports is what happened.                               *)
(*                                                                         *)
(* Nobody looks into a volume before a container is started on it: the row, *)
(* the recorded step and the place of a restore stand for what is in it.    *)
(* The invariant says for which of them the volume is whole (Places that    *)
(* may start it), and what each restore knows on its way there.             *)
(***************************************************************************)
EXTENDS Restore, TLAPS

Whole == ~Ruined /\ vol.conf = "ours" /\ tar.src = Nothing

(* From here a container may be started, or the owner may start one.        *)
MayStart ==
  \/ op.st = "over"
  \/ op.st # "held" /\ op.step \in {None, "stopped", "reapplied"}
  \/ job.pc \in {"back", "finish"}

(* How a job, its operation's row and the agent's row fit.                  *)
Kind ==
  /\ job.pc \in {"down", "unpack", "apply", "stop", "back", "finish"} => Backup
  /\ job.pc \in {"write", "read"} => ~Backup
Recorded ==
  /\ job.pc = "save" => job.act = "restore"
  /\ job.pc = "stop" => job.act = "undo"
  /\ job.pc \notin {"idle", "dead"} => Active
  /\ job.pc \in {"down", "save"} /\ job.act = "restore" =>
       op.st = "running" /\ op.step \in {None, "stopped"}
  /\ <<job.pc, job.act>> \in {<<"unpack", "restore">>, <<"apply", "restore">>,
                           <<"down", "undo">>, <<"unpack", "undo">>, <<"stop", "undo">>} =>
       op.st = "running" /\ op.step \in HoldsFrom
  /\ job.act \in Choices => op.st = "held"
  /\ (job.pc = "down" /\ job.act = "hold") \/ (op.st = "held" /\ Backup) =>
       op.step \in HoldsFrom \cup {"reapplied"}
HasCopy == Active /\ Backup /\ op.step \in HoldsFrom \cup {"reapplied"} => safe # Nothing
WasUp == Active /\ op.was => state # "FAILED"

(* What is in the volume.                                                  *)
Target == CASE job.act = "restore" -> ThatNight
            [] job.act = "undo"    -> safe
            [] OTHER               -> Chosen(job.act)
Unpacking ==
  job.pc = "unpack" =>
    /\ ~up /\ tar.src \in {Target, Nothing}
    /\ tar.begun => vol = [mem |-> "half", conf |-> "theirs"] \/ vol = Target
    /\ ~tar.begun /\ job.act = "restore" /\ state # "FAILED" => ~Ruined /\ vol.conf = "ours"
Applying ==
  job.pc = "apply" =>
    ~up /\ tar.src = Nothing /\ (state # "FAILED" => vol.mem # "half")
Saving == job.pc = "save" /\ Backup => ~up /\ tar = NoTar
Copied ==
  Active /\ Backup /\ state # "FAILED" /\ safe # Nothing =>
    safe.mem # "half" /\ safe.conf = "ours"
Good ==
  /\ up => Whole
  /\ MayStart /\ state # "FAILED" => Whole
  /\ ~Backup => vol.conf = "ours" /\ tar.src = Nothing
  /\ Unpacking /\ Applying /\ Saving /\ Copied
Contents == ~retried => Good

(* The copies.  One that was kept is never dropped: while none is, the       *)
(* restore found the agent's own memory and holds it, or has not touched it. *)
Lost == vol.mem = "half" \/ tar.src # Nothing
OwnSafe ==
  Backup /\ ~kept /\ ~retried =>
    /\ Active => op.found = "own"
    /\ Active /\ safe # Nothing => safe.mem = "own"
    /\ Active /\ op.step \in {None, "stopped"} => vol.mem = "own"
    /\ Active /\ op.step \in {None, "stopped"} => safe = Nothing
    /\ job.pc = "unpack" /\ job.act = "restore" /\ ~tar.begun => vol.mem # "half"
    /\ job.pc = "apply" => vol.mem # "half"
    /\ \/ op.st = "over" \/ job.pc \in {"back", "finish"}
       \/ Active /\ op.step \in {None, "stopped"}
       \/ op.st \in {"running", "interrupted"} /\ op.step = "reapplied"
       => ~Lost
SnapshotSafe ==
  ~Backup =>
    /\ Active => snap /\ (op.step # None => safe # Nothing)
    /\ Active /\ op.step = None /\ ~retried => vol.mem # "half"
    /\ job.pc \in {"write", "read"} \/ op.st = "held" => op.step # None
Copies == OwnSafe /\ SnapshotSafe

Inv == TypeOK /\ Kind /\ Recorded /\ HasCopy /\ WasUp /\ Contents /\ Copies
-----------------------------------------------------------------------------
(* What the small updates do to the rows.                                  *)
LEMMA OverRow ==
  ASSUME op \in OpRow, NEW out \in {"back", "done", "failed"}, Over(out)
  PROVE  op' \in OpRow /\ op'.st = "over" /\ op'.kind = op.kind /\ op'.step = op.step
         /\ op'.was = op.was /\ op'.found = op.found
  BY DEF OpRow, Over, None

LEMMA StepRow ==
  ASSUME op \in OpRow, NEW step \in {"stopped", "safety-taken", "replaced", "reapplied"},
         Step(step)
  PROVE  op' \in OpRow /\ op'.st = op.st /\ op'.kind = op.kind /\ op'.step = step
         /\ op'.was = op.was /\ op'.found = op.found
  BY DEF OpRow, Step, None

LEMMA HoldRow ==
  ASSUME op \in OpRow, Hold
  PROVE  op' \in OpRow /\ op'.st = "held" /\ op'.kind = op.kind /\ op'.step = op.step
         /\ op'.was = op.was /\ op'.found = op.found
  BY DEF OpRow, Hold, None

LEMMA AtRow ==
  ASSUME NEW pc \in Places, NEW act \in Acts, At(pc, act)
  PROVE  job' \in JobRow /\ job'.pc = pc /\ job'.act = act
  BY BoundsAssumption DEF At, JobRow

LEMMA IdleRow == Idle \in JobRow /\ Idle.pc = "idle" /\ Idle.act = "none"
  BY BoundsAssumption DEF Idle, JobRow, Places, Acts, None

LEMMA NothingRow == Nothing.mem = None /\ Nothing.conf = "ours" /\ Nothing \notin Volume
  BY DEF Nothing, None, Volume, Memories

LEMMA OneShotRow ==
  ASSUME NEW v \in Volume \cup {Nothing}
  PROVE  OneShot(v) \in TarRow /\ OneShot(v).src = v /\ ~OneShot(v).begun
  BY DEF OneShot, TarRow

LEMMA NoTarRow == NoTar \in TarRow /\ NoTar.src = Nothing /\ ~NoTar.begun
  BY OneShotRow DEF NoTar

LEMMA EndedRow ==
  ASSUME tar \in TarRow
  PROVE  Ended \in TarRow /\ Ended.src = Nothing /\ (Ended.begun <=> tar.begun)
  BY DEF Ended, TarRow

LEMMA BegunRow ==
  ASSUME tar \in TarRow, tar' = [tar EXCEPT !.begun = TRUE]
  PROVE  tar' \in TarRow /\ tar'.src = tar.src /\ tar'.begun
  BY DEF TarRow

LEMMA VolumeRow ==
  ASSUME NEW v \in Volume, NEW m \in Memories, NEW c \in {"ours", "theirs"}
  PROVE  /\ [v EXCEPT !.mem = m] \in Volume
         /\ [v EXCEPT !.mem = m].mem = m /\ [v EXCEPT !.mem = m].conf = v.conf
         /\ [v EXCEPT !.conf = c] \in Volume
         /\ [v EXCEPT !.conf = c].mem = v.mem /\ [v EXCEPT !.conf = c].conf = c
  BY DEF Volume

LEMMA MixRow ==
  [mem |-> "half", conf |-> "theirs"] \in Volume
  BY DEF Volume, Memories

LEMMA ThatNightRow ==
  ThatNight \in Volume /\ ThatNight.mem = "then" /\ ThatNight.conf = "theirs"
  BY DEF ThatNight, Volume, Memories

LEMMA PlacesActs ==
  /\ Places = {"dead", "idle", "down", "save", "unpack", "apply", "stop", "back", "finish",
               "write", "read"}
  /\ Acts = {"none", "restore", "undo", "resume", "hold", "revert", "finish", "put-back"}
  /\ Choices = {"finish", "put-back"}
  BY DEF Places, Acts, Choices, None

LEMMA JobLemma ==
  /\ \A act \in Acts : LET j == [pc |-> "write", act |-> act, left |-> Files]
                       IN  j \in JobRow /\ j.pc = "write" /\ j.act = act
  /\ [Idle EXCEPT !.pc = "dead"] \in JobRow /\ [Idle EXCEPT !.pc = "dead"].pc = "dead"
  /\ [Idle EXCEPT !.pc = "dead"].act = "none"
  /\ job \in JobRow /\ job.left > 1 =>
       LET j == [job EXCEPT !.left = @ - 1]
       IN  j \in JobRow /\ j.pc = job.pc /\ j.act = job.act
  BY BoundsAssumption, PlacesActs DEF Idle, JobRow, None

LEMMA WroteRow ==
  ASSUME vol \in Volume, op \in OpRow, Wrote(Goal)
  PROVE  vol' \in Volume /\ vol'.conf = vol.conf
<1>1. Goal \in Memories
  BY DEF Goal, OpRow, Memories
<1>2. Reached(Goal) \subseteq Memories
  BY <1>1 DEF Reached, Volume, Memories
<1>. QED
  BY <1>2, VolumeRow DEF Wrote, Volume

LEMMA FoundRow ==
  ASSUME vol \in Volume
  PROVE  /\ Found \in Volume /\ Found.conf = vol.conf
         /\ Found.mem = IF Ruined THEN "half" ELSE "own"
  BY VolumeRow DEF Found, Memories, Volume

LEMMA BeginRow ==
  ASSUME vol \in Volume, retried \in BOOLEAN,
         NEW kind \in {"backup", "snapshot"}, Begin(kind)
  PROVE  /\ op' \in OpRow /\ op'.kind = kind /\ op'.st = "running" /\ op'.step = None
         /\ op'.was <=> state = "RUNNING"
         /\ UNCHANGED agent /\ vol' = Found /\ safe' = Nothing
         /\ tar' = tar /\ UNCHANGED <<kept, crashes>>
         /\ retried' \in BOOLEAN
         /\ ~retried' => ~retried \/ (tar = NoTar /\ vol.conf = "ours")
<1>1. Found.mem \in {"own", "half"}
  BY FoundRow
<1>2. op' = [kind |-> kind, st |-> "running", step |-> None,
             was |-> state = "RUNNING", found |-> Found.mem, out |-> None]
  BY DEF Begin
<1>3. (state = "RUNNING") \in BOOLEAN
  OBVIOUS
<1>4. op' \in OpRow
  <2>. DEFINE runs == state = "RUNNING"
  <2>. HIDE DEF runs
  <2>1. runs \in BOOLEAN /\ op' = [kind |-> kind, st |-> "running", step |-> None,
                                    was |-> runs, found |-> Found.mem, out |-> None]
    BY <1>2, <1>3 DEF runs
  <2>. QED
    BY <2>1, <1>1 DEF OpRow, None
<1>5. op'.kind = kind /\ op'.st = "running" /\ op'.step = None /\ (op'.was <=> state = "RUNNING")
  BY <1>2
<1>6. retried' \in BOOLEAN /\ (~retried' => ~retried \/ (tar = NoTar /\ vol.conf = "ours"))
  <2>1. retried' = (retried /\ (tar # NoTar \/ vol.conf = "theirs"))
    BY DEF Begin
  <2>2. vol.conf \in {"ours", "theirs"}
    BY DEF Volume
  <2>3. CASE tar # NoTar \/ vol.conf = "theirs"
    <3>1. retried' = retried
      BY <2>1, <2>3, Zenon
    <3>. QED
      BY <3>1
  <2>4. CASE tar = NoTar /\ vol.conf = "ours"
    <3>1. retried' = FALSE
      BY <2>1, <2>4
    <3>. QED
      BY <3>1, <2>4
  <2>. QED
    BY <2>2, <2>3, <2>4
<1>7. /\ UNCHANGED agent /\ vol' = Found /\ safe' = Nothing
      /\ tar' = tar /\ UNCHANGED <<kept, crashes>>
  BY DEF Begin
<1>. QED
  BY <1>4, <1>5, <1>6, <1>7

LEMMA EventRow ==
  ASSUME events \in 0..MaxEvents, Event
  PROVE  events' \in 0..MaxEvents
  BY BoundsAssumption DEF Event

LEMMA RetryRow ==
  ASSUME retried \in BOOLEAN, Retry
  PROVE  retried' \in BOOLEAN /\ (~retried' => ~retried /\ vol.mem # "half" /\ tar.src = Nothing)
<1>1. retried' = (retried \/ vol.mem = "half" \/ tar.src # Nothing)
  BY DEF Retry
<1>2. CASE vol.mem = "half" \/ tar.src # Nothing
  <2>1. retried' = TRUE
    BY <1>1, <1>2
  <2>. QED
    BY <2>1
<1>3. CASE vol.mem # "half" /\ tar.src = Nothing
  <2>1. retried' = retried
    BY <1>1, <1>3, Zenon
  <2>. QED
    BY <2>1, <1>3
<1>. QED
  BY <1>2, <1>3

LEMMA ChosenRow ==
  ASSUME NEW act \in Choices, safe \in Volume
  PROVE  /\ Chosen(act) \in Volume /\ Chosen(act).conf = "theirs"
         /\ Chosen(act).mem = IF act = "finish" THEN "then" ELSE safe.mem
  BY VolumeRow, ThatNightRow DEF Chosen, Volume

LEMMA BootRow ==
  ASSUME op \in OpRow, Boot
  PROVE  /\ op' \in OpRow /\ op'.kind = op.kind /\ op'.step = op.step /\ op'.was = op.was
         /\ op'.st = IF op.st = "running" THEN "interrupted" ELSE op.st
  BY DEF OpRow, Boot

LEMMA AppliedRow ==
  ASSUME vol \in Volume, AppliedOver
  PROVE  vol' \in Volume /\ vol'.mem = vol.mem /\ vol'.conf = "ours"
  BY DEF AppliedOver, Volume

LEMMA TarFields ==
  ASSUME tar \in TarRow
  PROVE  tar.src \in Volume \cup {Nothing} /\ tar.begun \in BOOLEAN
  BY DEF TarRow

LEMMA OpFields ==
  ASSUME op \in OpRow
  PROVE  /\ op.kind \in {"backup", "snapshot"} /\ op.was \in BOOLEAN
         /\ op.st \in {"over", "running", "interrupted", "held"}
         /\ op.step \in {"none", "stopped", "safety-taken", "replaced", "reapplied"}
  BY DEF OpRow, None

LEMMA FreeRow ==
  ASSUME op \in OpRow, Free
  PROVE  op.st = "over" /\ job.pc = "idle" /\ job.act = "none" /\ ~Active
  BY OpFields, IdleRow DEF Free, Active

LEMMA TargetIs ==
  /\ job.act = "restore" => Target = ThatNight
  /\ job.act = "undo" => Target = safe
  /\ job.act \in Choices => Target = Chosen(job.act)
  /\ job'.act = "restore" => Target' = ThatNight
  /\ job'.act = "undo" => Target' = safe'
  /\ job'.act \in Choices /\ UNCHANGED safe => Target' = Chosen(job'.act)
  BY DEF Target, Chosen, ThatNight, Choices

LEMMA SameTarget ==
  ASSUME UNCHANGED <<job, safe>>
  PROVE  Target' = Target
  BY DEF Target, Chosen, ThatNight

(* Unanswered, a stop leaves the container up only if it was.              *)
LEMMA StoppedOrNot ==
  ASSUME up \in BOOLEAN, up' \in {up, FALSE}
  PROVE  up' => up
<1>1. up' = up \/ up' = FALSE
  OBVIOUS
<1>. QED
  BY <1>1

LEMMA NotConfirmedRow ==
  ASSUME up \in BOOLEAN, NotConfirmed
  PROVE  (up' => up) /\ (tar.src = Nothing => tar'.src = Nothing)
<1>1. up' => up
  BY StoppedOrNot DEF NotConfirmed
<1>2. tar.src = Nothing => tar'.src = Nothing
  BY NoTarRow DEF NotConfirmed
<1>. QED
  BY <1>1, <1>2

LEMMA RestartedRow ==
  ASSUME up \in BOOLEAN, op.was \in BOOLEAN, Restarted
  PROVE  (up' => up \/ op.was) /\ (state' # "FAILED" => state # "FAILED" \/ op.was)
<1>1. CASE ~op.was
  <2>1. UNCHANGED agent
    BY <1>1 DEF Restarted
  <2>. QED
    BY <2>1 DEF agent
<1>2. CASE op.was
  BY <1>2
<1>. QED
  BY <1>1, <1>2
-----------------------------------------------------------------------------
(* The types: one leaf per action, from the row lemmas above.               *)
LEMMA TypeStep == ASSUME TypeOK, Kind, Recorded, HasCopy, [Next]_vars PROVE TypeOK'
<1>. USE BoundsAssumption DEF TypeOK, agent, past, World
<1>1. CASE Start
  BY <1>1, EventRow DEF Start
<1>2. CASE Stop
  BY <1>2, EventRow DEF Stop
<1>3. CASE Break
  BY <1>3, EventRow DEF Break
<1>4. CASE Retry
  <2>1. retried' \in BOOLEAN
    BY <1>4, RetryRow
  <2>2. vol' \in Volume
    BY <1>4, AppliedRow DEF Retry, AppliedOver
  <2>. QED
    BY <1>4, <2>1, <2>2, EventRow DEF Retry
<1>5. CASE Reconcile
  BY <1>5 DEF Reconcile
<1>6. CASE TidySnapshots
  BY <1>6 DEF TidySnapshots, Tidy
<1>7. CASE OwnWrites
  BY <1>7, VolumeRow DEF OwnWrites, Memories
<1>8. CASE Unpack
  <2>1. CASE /\ ~tar.begun /\ tar' = [tar EXCEPT !.begun = TRUE]
             /\ vol' = [mem |-> "half", conf |-> "theirs"]
    BY <1>8, <2>1, BegunRow, MixRow DEF Unpack
  <2>2. CASE tar.begun /\ tar' = Ended /\ vol' = tar.src
    BY <1>8, <2>2, EndedRow, TarFields DEF Unpack
  <2>3. CASE tar' = Ended /\ UNCHANGED vol
    BY <1>8, <2>3, EndedRow DEF Unpack
  <2>. QED
    BY <1>8, <2>1, <2>2, <2>3 DEF Unpack
<1>9. CASE BackupBegin
  BY <1>9, AtRow, IdleRow, PlacesActs, FoundRow, BeginRow, EventRow
     DEF BackupBegin, Begin
<1>10. CASE SnapshotBegin
  BY <1>10, AtRow, IdleRow, PlacesActs, FoundRow, BeginRow, EventRow
     DEF SnapshotBegin, Begin
<1>11. CASE Choose
  BY <1>11, AtRow, IdleRow, PlacesActs, JobLemma, EventRow DEF Choose
<1>12. CASE BackupDown
  BY <1>12, StepRow, AtRow, IdleRow, PlacesActs, NoTarRow, OneShotRow,
     NothingRow
     DEF BackupDown, ConfirmedDown, NotConfirmed, StoppedRow
<1>13. CASE BackupSave
  BY <1>13, StepRow, AtRow, IdleRow, PlacesActs, NoTarRow, OneShotRow,
     NothingRow, ThatNightRow
     DEF BackupSave
<1>14. CASE BackupUnpack
  BY <1>14, StepRow, AtRow, IdleRow, PlacesActs, NoTarRow, OneShotRow,
     NothingRow
     DEF BackupUnpack, Unpacked, Untouched, Failed, NotGone
<1>15. CASE BackupApply
  BY <1>15, StepRow, AtRow, IdleRow, PlacesActs, AppliedRow DEF BackupApply
<1>16. CASE UndoDown
  BY <1>16, AtRow, IdleRow, PlacesActs, NoTarRow, OneShotRow, NothingRow
     DEF UndoDown, NotConfirmed
<1>17. CASE UndoUnpack
  BY <1>17, AtRow, IdleRow, PlacesActs, NoTarRow, OneShotRow, NothingRow
     DEF UndoUnpack, Unpacked, Failed, NotGone
<1>18. CASE GiveUp
  BY <1>18, OverRow, AtRow, IdleRow, PlacesActs DEF GiveUp
<1>19. CASE SnapshotSave
  BY <1>19, StepRow, OverRow, AtRow, IdleRow, PlacesActs, JobLemma
     DEF SnapshotSave, Pruned
<1>20. CASE WriteFile
  BY <1>20, OverRow, AtRow, IdleRow, PlacesActs, JobLemma, WroteRow DEF WriteFile
<1>21. CASE WriteFails
  BY <1>21, OverRow, AtRow, IdleRow, PlacesActs, WroteRow DEF WriteFails
<1>22. CASE Resume
  BY <1>22, OverRow, AtRow, IdleRow, PlacesActs DEF Resume
<1>23. CASE HoldDown
  BY <1>23, HoldRow, AtRow, IdleRow, PlacesActs, NoTarRow, OneShotRow,
     NothingRow
     DEF HoldDown, ConfirmedDown, NotConfirmed
<1>24. CASE ReadFiles
  BY <1>24, OverRow, HoldRow, AtRow, IdleRow, PlacesActs DEF ReadFiles
<1>25. CASE ChoiceDown
  <2>1. safe \in Volume
    BY <1>25, PlacesActs DEF ChoiceDown, Recorded, HasCopy, Kind, Active
  <2>2. Chosen(job.act) \in Volume
    BY <1>25, <2>1, ChosenRow DEF ChoiceDown
  <2>3. CASE up' = FALSE /\ tar' = OneShot(Chosen(job.act)) /\ At("unpack", job.act)
    BY <1>25, <2>2, <2>3, AtRow, OneShotRow, PlacesActs DEF ChoiceDown
  <2>4. CASE NotConfirmed /\ job' = Idle
    BY <1>25, <2>4, IdleRow, NoTarRow DEF ChoiceDown, NotConfirmed
  <2>. QED
    BY <1>25, <2>3, <2>4 DEF ChoiceDown
<1>26. CASE ChoiceUnpack
  BY <1>26, StepRow, AtRow, IdleRow, PlacesActs, NoTarRow, OneShotRow,
     NothingRow
     DEF ChoiceUnpack, Unpacked, Failed, NotGone
<1>27. CASE ChoiceApply
  BY <1>27, StepRow, AtRow, IdleRow, PlacesActs, AppliedRow DEF ChoiceApply
<1>28. CASE Back
  BY <1>28, OverRow, AtRow, IdleRow, PlacesActs DEF Back, Restarted
<1>29. CASE CompleteRestore
  BY <1>29, OverRow, AtRow, IdleRow, PlacesActs DEF CompleteRestore, Restarted
<1>30. CASE Crash
  <2>1. vol' \in Volume
    BY <1>30, WroteRow, AppliedRow DEF Crash
  <2>2. up' \in BOOLEAN
    BY <1>30 DEF Crash
  <2>3. crashes' \in 0..MaxCrashes
    BY <1>30 DEF Crash
  <2>. QED
    BY <1>30, <2>1, <2>2, <2>3, JobLemma DEF Crash
<1>31. CASE Boot
  BY <1>31, AtRow, IdleRow, PlacesActs, BootRow DEF Boot
<1>32. CASE UNCHANGED vars
  BY <1>32 DEF vars
<1>. QED
  BY <1>1, <1>2, <1>3, <1>4, <1>5, <1>6, <1>7, <1>8, <1>9, <1>10, <1>11, <1>12,
     <1>13, <1>14, <1>15, <1>16, <1>17, <1>18, <1>19, <1>20, <1>21, <1>22,
     <1>23, <1>24, <1>25, <1>26, <1>27, <1>28, <1>29, <1>30, <1>31, <1>32
     DEF Next, Others, Own, Restoring, Undoing, Writing, Settling, Choosing,
         Ending

-----------------------------------------------------------------------------
(* The places, the recorded steps and the agent's row.                     *)
LEMMA ControlStep ==
  ASSUME TypeOK, Kind, Recorded, HasCopy, WasUp, [Next]_vars
  PROVE  (Kind /\ Recorded /\ HasCopy /\ WasUp)'
<1>. USE PlacesActs DEF Kind, Recorded, HasCopy, WasUp, Active, Backup, HoldsFrom, agent, past, World
<1>1. CASE Start
  BY <1>1 DEF TypeOK, Start
<1>2. CASE Stop
  BY <1>2 DEF TypeOK, Stop
<1>3. CASE Break
  BY <1>3 DEF TypeOK, Break, Free
<1>4. CASE Retry
  BY <1>4 DEF TypeOK, Retry
<1>5. CASE Reconcile
  BY <1>5 DEF TypeOK, Reconcile
<1>6. CASE TidySnapshots
  BY <1>6 DEF TypeOK, TidySnapshots, Tidy, SnapshotsInUse
<1>7. CASE OwnWrites
  BY <1>7 DEF TypeOK, OwnWrites
<1>8. CASE Unpack
  BY <1>8 DEF TypeOK, Unpack
<1>9. CASE BackupBegin
  <2>1. /\ op'.kind = "backup" /\ op'.st = "running" /\ op'.step = None
        /\ (op'.was <=> state = "RUNNING") /\ state' = state
    BY <1>9, BeginRow DEF TypeOK, BackupBegin
  <2>2. job'.pc = "down" /\ job'.act = "restore"
    BY <1>9, AtRow DEF BackupBegin
  <2>. QED
    BY <2>1, <2>2 DEF None
<1>10. CASE SnapshotBegin
  BY <1>10, AtRow, IdleRow, PlacesActs, BeginRow DEF TypeOK, SnapshotBegin, Free
<1>11. CASE Choose
  BY <1>11, AtRow, IdleRow, PlacesActs, JobLemma DEF TypeOK, Choose
<1>12. CASE BackupDown
  BY <1>12, StepRow, AtRow, IdleRow, PlacesActs DEF TypeOK, BackupDown, StoppedRow
<1>13. CASE BackupSave
  <2>1. CASE safe' = vol /\ Step("safety-taken") /\ At("unpack", "restore")
    <3>1. safe' # Nothing /\ UNCHANGED state
      BY <1>13, <2>1, NothingRow DEF TypeOK, BackupSave
    <3>2. /\ op' \in OpRow /\ op'.st = op.st /\ op'.kind = op.kind
          /\ op'.step = "safety-taken" /\ op'.was = op.was
      BY <2>1, StepRow DEF TypeOK
    <3>3. job'.pc = "unpack" /\ job'.act = "restore"
      BY <2>1, AtRow
    <3>. QED
      BY <1>13, <3>1, <3>2, <3>3 DEF TypeOK, BackupSave
  <2>2. CASE At("back", "restore") /\ UNCHANGED <<safe, op, tar>>
    BY <1>13, <2>2, AtRow DEF TypeOK, BackupSave
  <2>. QED
    BY <1>13, <2>1, <2>2 DEF BackupSave
<1>14. CASE BackupUnpack
  BY <1>14, StepRow, AtRow, IdleRow, PlacesActs DEF TypeOK, BackupUnpack
<1>15. CASE BackupApply
  BY <1>15, StepRow, AtRow, IdleRow, PlacesActs DEF TypeOK, BackupApply
<1>16. CASE UndoDown
  BY <1>16, AtRow, IdleRow, PlacesActs DEF TypeOK, UndoDown
<1>17. CASE UndoUnpack
  BY <1>17, AtRow, IdleRow, PlacesActs DEF TypeOK, UndoUnpack
<1>18. CASE GiveUp
  BY <1>18, OverRow, AtRow, IdleRow, PlacesActs DEF TypeOK, GiveUp
<1>19. CASE SnapshotSave
  BY <1>19, StepRow, OverRow, AtRow, IdleRow, PlacesActs, JobLemma
     DEF TypeOK, SnapshotSave
<1>20. CASE WriteFile
  BY <1>20, OverRow, AtRow, IdleRow, PlacesActs, JobLemma DEF TypeOK, WriteFile
<1>21. CASE WriteFails
  BY <1>21, OverRow, AtRow, IdleRow, PlacesActs DEF TypeOK, WriteFails
<1>22. CASE Resume
  BY <1>22, OverRow, AtRow, IdleRow, PlacesActs DEF TypeOK, Resume
<1>23. CASE HoldDown
  BY <1>23, HoldRow, AtRow, IdleRow, PlacesActs DEF TypeOK, HoldDown
<1>24. CASE ReadFiles
  BY <1>24, OverRow, HoldRow, AtRow, IdleRow, PlacesActs DEF TypeOK, ReadFiles
<1>25. CASE ChoiceDown
  BY <1>25, AtRow, IdleRow, PlacesActs DEF TypeOK, ChoiceDown
<1>26. CASE ChoiceUnpack
  BY <1>26, StepRow, AtRow, IdleRow, PlacesActs DEF TypeOK, ChoiceUnpack
<1>27. CASE ChoiceApply
  BY <1>27, StepRow, AtRow, IdleRow, PlacesActs DEF TypeOK, ChoiceApply
<1>28. CASE Back
  BY <1>28, OverRow, AtRow, IdleRow, PlacesActs DEF TypeOK, Back
<1>29. CASE CompleteRestore
  BY <1>29, OverRow, AtRow, IdleRow, PlacesActs DEF TypeOK, CompleteRestore
<1>30. CASE Crash
  BY <1>30, AtRow, IdleRow, PlacesActs, JobLemma DEF TypeOK, Crash
<1>31. CASE Boot
  BY <1>31, AtRow, IdleRow, PlacesActs, BootRow DEF TypeOK, Boot
<1>32. CASE UNCHANGED vars
  BY <1>32 DEF vars
<1>. QED
  BY <1>1, <1>2, <1>3, <1>4, <1>5, <1>6, <1>7, <1>8, <1>9, <1>10, <1>11, <1>12,
     <1>13, <1>14, <1>15, <1>16, <1>17, <1>18, <1>19, <1>20, <1>21, <1>22,
     <1>23, <1>24, <1>25, <1>26, <1>27, <1>28, <1>29, <1>30, <1>31, <1>32
     DEF Next, Others, Own, Restoring, Undoing, Writing, Settling, Choosing,
         Ending

-----------------------------------------------------------------------------
(* What is in the volume, unless a Retry was tapped over it.                *)
LEMMA ContentsStep ==
  ASSUME TypeOK, Kind, Recorded, HasCopy, WasUp, Contents, [Next]_vars, ~retried'
  PROVE  Good'
<1>. USE PlacesActs, OpFields DEF None, Good, Whole, MayStart, Ruined, Active, Backup, HoldsFrom,
     agent, past, World,
     Unpacking, Applying, Saving, Copied
<1>1. CASE Start
  BY <1>1, FreeRow DEF TypeOK, Kind, Recorded, WasUp, Contents, Start
<1>2. CASE Stop
  BY <1>2, FreeRow DEF TypeOK, Kind, Recorded, WasUp, Contents, Stop
<1>3. CASE Break
  BY <1>3, FreeRow DEF TypeOK, Kind, Recorded, WasUp, Contents, Break
<1>4. CASE Retry
  BY <1>4, AppliedRow, RetryRow, FreeRow
     DEF TypeOK, Kind, Recorded, WasUp, Contents, Retry, AppliedOver
<1>5. CASE Reconcile
  BY <1>5, FreeRow DEF TypeOK, Kind, Recorded, WasUp, Contents, Reconcile
<1>6. CASE TidySnapshots
  BY <1>6, ThatNightRow
     DEF TypeOK, Kind, Recorded, WasUp, Contents, TidySnapshots, Tidy,
         SnapshotsInUse
<1>7. CASE OwnWrites
  BY <1>7 DEF TypeOK, Kind, Recorded, WasUp, Contents, OwnWrites
<1>8. CASE Unpack
  <2>1. /\ ~retried /\ Good /\ tar.src # Nothing
        /\ UNCHANGED <<up, state, op, job, safe, retried>>
    BY <1>8 DEF Contents, Unpack
  <2>2. /\ ~up /\ ~(MayStart /\ state # "FAILED") /\ Backup
        /\ job.pc # "apply" /\ job.pc # "save"
    BY <2>1, NoTarRow
  <2>3. /\ ~up' /\ ~(MayStart' /\ state' # "FAILED") /\ Backup'
        /\ job'.pc # "apply" /\ job'.pc # "save"
    BY <2>1, <2>2
  <2>4. Unpacking'
    <3>1. ASSUME job.pc = "unpack"
          PROVE  /\ tar.src = Target /\ Target' = Target
                 /\ tar.begun => vol = [mem |-> "half", conf |-> "theirs"] \/ vol = Target
      BY <2>1, <3>1, SameTarget
    <3>2. CASE ~tar.begun /\ tar' = [tar EXCEPT !.begun = TRUE]
               /\ vol' = [mem |-> "half", conf |-> "theirs"]
      BY <2>1, <2>3, <3>1, <3>2, BegunRow DEF TypeOK
    <3>3. CASE tar.begun /\ tar' = Ended /\ vol' = tar.src
      BY <2>1, <2>3, <3>1, <3>3, EndedRow DEF TypeOK
    <3>4. CASE tar' = Ended /\ UNCHANGED vol
      BY <2>1, <2>3, <3>1, <3>4, EndedRow DEF TypeOK
    <3>. QED
      BY <1>8, <3>2, <3>3, <3>4 DEF Unpack
  <2>5. Copied'
    BY <2>1
  <2>. QED
    BY <2>3, <2>4, <2>5
<1>9. CASE BackupBegin
  <2>1. /\ op'.kind = "backup" /\ op'.st = "running" /\ UNCHANGED <<state, up, tar>>
        /\ vol' = Found /\ safe' = Nothing
        /\ (~retried \/ (tar = NoTar /\ vol.conf = "ours"))
    BY <1>9, BeginRow DEF TypeOK, BackupBegin
  <2>2. job'.pc \notin {"unpack", "apply", "back", "finish"} /\ (job'.pc = "save" => ~Backup')
    BY <1>9, <2>1, AtRow DEF BackupBegin
  <2>3. vol'.conf = vol.conf /\ vol'.mem = IF Ruined THEN "half" ELSE "own"
    BY <2>1, FoundRow DEF TypeOK
  <2>4. op.st = "over"
    BY <1>9, FreeRow DEF BackupBegin, TypeOK
  <2>5. CASE retried
    <3>1. Whole'
      BY <2>1, <2>3, <2>5, NoTarRow
    <3>. QED
      BY <2>1, <2>2, <2>3, <3>1
  <2>6. CASE ~retried
    <3>1. Good
      BY <2>6 DEF Contents
    <3>2. Whole => Whole'
      BY <2>1, <2>3
    <3>. QED
      BY <1>9, <2>1, <2>2, <2>3, <2>4, <3>1, <3>2 DEF BackupBegin
  <2>. QED
    BY <2>5, <2>6
<1>10. CASE SnapshotBegin
  <2>1. /\ op'.kind = "snapshot" /\ op'.st = "running" /\ UNCHANGED <<state, up, tar>>
        /\ vol' = Found /\ safe' = Nothing
        /\ (~retried \/ (tar = NoTar /\ vol.conf = "ours"))
    BY <1>10, BeginRow DEF TypeOK, SnapshotBegin
  <2>2. job'.pc \notin {"unpack", "apply", "back", "finish"} /\ (job'.pc = "save" => ~Backup')
    BY <1>10, <2>1, AtRow DEF SnapshotBegin
  <2>3. vol'.conf = vol.conf /\ vol'.mem = IF Ruined THEN "half" ELSE "own"
    BY <2>1, FoundRow DEF TypeOK
  <2>4. op.st = "over"
    BY <1>10, FreeRow DEF SnapshotBegin, TypeOK
  <2>5. CASE retried
    <3>1. Whole'
      BY <2>1, <2>3, <2>5, NoTarRow
    <3>. QED
      BY <2>1, <2>2, <2>3, <3>1
  <2>6. CASE ~retried
    <3>1. Good
      BY <2>6 DEF Contents
    <3>2. Whole => Whole'
      BY <2>1, <2>3
    <3>. QED
      BY <1>10, <2>1, <2>2, <2>3, <2>4, <3>1, <3>2 DEF SnapshotBegin
  <2>. QED
    BY <2>5, <2>6
<1>11. CASE Choose
  BY <1>11, AtRow, IdleRow, PlacesActs, JobLemma
     DEF TypeOK, Kind, Recorded, WasUp, Contents, Choose
<1>12. CASE BackupDown
  <2>1. ~retried /\ Good
    BY <1>12 DEF Contents, BackupDown
  <2>2. CASE ConfirmedDown /\ StoppedRow /\ Step("stopped") /\ At("save", "restore")
    BY <1>12, <2>1, <2>2, StepRow, AtRow, NoTarRow
       DEF TypeOK, Kind, Recorded, WasUp, BackupDown, ConfirmedDown, StoppedRow
  <2>3. CASE NotConfirmed /\ At("back", "restore") /\ UNCHANGED <<state, op>>
    BY <1>12, <2>1, <2>3, AtRow, NotConfirmedRow
       DEF TypeOK, Kind, Recorded, WasUp, BackupDown
  <2>. QED
    BY <1>12, <2>2, <2>3 DEF BackupDown
<1>13. CASE BackupSave
  <2>1. ~retried /\ Good
    BY <1>13 DEF Contents, BackupSave
  <2>2. CASE /\ safe' = vol /\ Step("safety-taken") /\ At("unpack", "restore")
             /\ tar' = OneShot(ThatNight)
    BY <1>13, <2>1, <2>2, StepRow, AtRow, OneShotRow, ThatNightRow, TargetIs,
       NoTarRow
       DEF TypeOK, Kind, Recorded, WasUp, BackupSave
  <2>3. CASE At("back", "restore") /\ UNCHANGED <<safe, op, tar>>
    BY <1>13, <2>1, <2>3, AtRow, NoTarRow
       DEF TypeOK, Kind, Recorded, WasUp, BackupSave
  <2>. QED
    BY <1>13, <2>2, <2>3 DEF BackupSave
<1>14. CASE BackupUnpack
  BY <1>14, StepRow, AtRow, IdleRow, PlacesActs, NoTarRow, OneShotRow,
     NothingRow, ThatNightRow
     DEF TypeOK, Kind, Recorded, WasUp, Contents, BackupUnpack, Unpacked,
         Untouched, Failed, NotGone
<1>15. CASE BackupApply
  BY <1>15, StepRow, AtRow, IdleRow, PlacesActs, AppliedRow
     DEF TypeOK, Kind, Recorded, WasUp, Contents, BackupApply
<1>16. CASE UndoDown
  <2>1. ~retried /\ Good
    BY <1>16 DEF Contents, UndoDown
  <2>2. CASE up' = FALSE /\ tar' = OneShot(safe) /\ At("unpack", "undo")
    BY <1>16, <2>1, <2>2, AtRow, OneShotRow, TargetIs
       DEF TypeOK, Kind, Recorded, WasUp, UndoDown
  <2>3. CASE NotConfirmed /\ At("stop", "undo")
    BY <1>16, <2>1, <2>3, AtRow, NotConfirmedRow
       DEF TypeOK, Kind, Recorded, WasUp, UndoDown
  <2>. QED
    BY <1>16, <2>2, <2>3 DEF UndoDown
<1>17. CASE UndoUnpack
  <2>1. ~retried /\ Good
    BY <1>17 DEF Contents, UndoUnpack
  <2>2. CASE Unpacked(safe.mem) /\ At("back", "undo")
    BY <1>17, <2>1, <2>2, AtRow, TargetIs, NothingRow
       DEF TypeOK, Kind, Recorded, WasUp, UndoUnpack, Unpacked, Volume,
           Memories
  <2>3. CASE (Failed \/ NotGone) /\ At("stop", "undo")
    BY <1>17, <2>1, <2>3, AtRow, NoTarRow
       DEF TypeOK, Kind, Recorded, WasUp, UndoUnpack, Failed, NotGone
  <2>. QED
    BY <1>17, <2>2, <2>3 DEF UndoUnpack
<1>18. CASE GiveUp
  <2>1. ~retried /\ Good
    BY <1>18 DEF Contents, GiveUp
  <2>2. /\ state' = "FAILED" /\ (up' => up) /\ UNCHANGED <<vol, tar, retried>>
        /\ safe' = Nothing /\ op'.kind = op.kind /\ job'.pc = "idle"
    BY <1>18, OverRow, IdleRow, StoppedOrNot DEF TypeOK, GiveUp
  <2>. QED
    BY <2>1, <2>2 DEF TypeOK
<1>19. CASE SnapshotSave
  BY <1>19, StepRow, OverRow, AtRow, IdleRow, PlacesActs, JobLemma
     DEF TypeOK, Kind, Recorded, WasUp, Contents, SnapshotSave
<1>20. CASE WriteFile
  BY <1>20, OverRow, AtRow, IdleRow, PlacesActs, JobLemma, WroteRow
     DEF TypeOK, Kind, Recorded, WasUp, Contents, WriteFile
<1>21. CASE WriteFails
  BY <1>21, OverRow, AtRow, IdleRow, PlacesActs, WroteRow
     DEF TypeOK, Kind, Recorded, WasUp, Contents, WriteFails
<1>22. CASE Resume
  BY <1>22, OverRow, AtRow, IdleRow, PlacesActs
     DEF TypeOK, Kind, Recorded, WasUp, Contents, Resume
<1>23. CASE HoldDown
  <2>1. ~retried /\ Good
    BY <1>23 DEF Contents, HoldDown
  <2>2. CASE /\ ConfirmedDown
             /\ state' = IF state = "RUNNING" THEN "STOPPED" ELSE state
    BY <1>23, <2>1, <2>2, HoldRow, IdleRow, NoTarRow
       DEF TypeOK, Kind, Recorded, WasUp, HoldDown, ConfirmedDown
  <2>3. CASE NotConfirmed /\ UNCHANGED state
    BY <1>23, <2>1, <2>3, HoldRow, IdleRow, NotConfirmedRow
       DEF TypeOK, Kind, Recorded, WasUp, HoldDown
  <2>. QED
    BY <1>23, <2>2, <2>3 DEF HoldDown
<1>24. CASE ReadFiles
  BY <1>24, OverRow, HoldRow, AtRow, IdleRow, PlacesActs
     DEF TypeOK, Kind, Recorded, WasUp, Contents, ReadFiles
<1>25. CASE ChoiceDown
  <2>1. ~retried /\ Good
    BY <1>25 DEF Contents, ChoiceDown
  <2>2. CASE up' = FALSE /\ tar' = OneShot(Chosen(job.act)) /\ At("unpack", job.act)
    BY <1>25, <2>1, <2>2, AtRow, OneShotRow, TargetIs, ChosenRow, NothingRow
       DEF TypeOK, Kind, Recorded, WasUp, ChoiceDown, HasCopy
  <2>3. CASE NotConfirmed /\ job' = Idle
    BY <1>25, <2>1, <2>3, IdleRow, NotConfirmedRow
       DEF TypeOK, Kind, Recorded, WasUp, ChoiceDown
  <2>. QED
    BY <1>25, <2>2, <2>3 DEF ChoiceDown
<1>26. CASE ChoiceUnpack
  <2>1. ~retried /\ Good
    BY <1>26 DEF Contents, ChoiceUnpack
  <2>2. CASE /\ Unpacked(Chosen(job.act).mem) /\ At("apply", job.act)
             /\ IF job.act = "finish" THEN Step("replaced") ELSE UNCHANGED op
    BY <1>26, <2>1, <2>2, AtRow, StepRow, TargetIs, ChosenRow, NothingRow
       DEF TypeOK, Kind, Recorded, WasUp, ChoiceUnpack, Unpacked, HasCopy,
           Volume
  <2>3. CASE (Failed \/ NotGone) /\ job' = Idle /\ UNCHANGED op
    BY <1>26, <2>1, <2>3, IdleRow, NoTarRow
       DEF TypeOK, Kind, Recorded, WasUp, ChoiceUnpack, Failed, NotGone
  <2>. QED
    BY <1>26, <2>2, <2>3 DEF ChoiceUnpack
<1>27. CASE ChoiceApply
  BY <1>27, StepRow, AtRow, IdleRow, PlacesActs, AppliedRow
     DEF TypeOK, Kind, Recorded, WasUp, Contents, ChoiceApply
<1>28. CASE Back
  <2>1. ~retried /\ Good
    BY <1>28 DEF Contents, Back
  <2>2. /\ UNCHANGED <<vol, tar, retried>> /\ safe' = Nothing
        /\ op'.kind = op.kind /\ job'.pc = "idle"
    BY <1>28, OverRow, IdleRow DEF TypeOK, Back
  <2>3. Backup /\ (state # "FAILED" => Whole) /\ (op.was => state # "FAILED")
    BY <1>28, <2>1 DEF Back, Kind, Recorded, WasUp
  <2>4. (up' => up \/ op.was) /\ (state' # "FAILED" => state # "FAILED" \/ op.was)
    BY <1>28, RestartedRow DEF Back, TypeOK
  <2>. QED
    BY <2>1, <2>2, <2>3, <2>4 DEF TypeOK
<1>29. CASE CompleteRestore
  <2>1. ~retried /\ Good
    BY <1>29 DEF Contents, CompleteRestore
  <2>2. /\ UNCHANGED <<vol, tar, retried>> /\ safe' = Nothing
        /\ op'.kind = op.kind /\ job'.pc = "idle"
    BY <1>29, OverRow, IdleRow DEF TypeOK, CompleteRestore
  <2>3. Backup /\ (state # "FAILED" => Whole) /\ (op.was => state # "FAILED")
    BY <1>29, <2>1 DEF CompleteRestore, Kind, Recorded, WasUp
  <2>4. (up' => up \/ op.was) /\ (state' # "FAILED" => state # "FAILED" \/ op.was)
    BY <1>29, RestartedRow DEF CompleteRestore, TypeOK
  <2>. QED
    BY <2>1, <2>2, <2>3, <2>4 DEF TypeOK
<1>30. CASE Crash
  BY <1>30, AtRow, IdleRow, PlacesActs, JobLemma, WroteRow, AppliedRow
     DEF TypeOK, Kind, Recorded, WasUp, Contents, Crash
<1>31. CASE Boot
  BY <1>31, AtRow, IdleRow, PlacesActs, BootRow
     DEF TypeOK, Kind, Recorded, WasUp, Contents, Boot
<1>32. CASE UNCHANGED vars
  BY <1>32, SameTarget DEF vars, TypeOK, Kind, Recorded, WasUp, Contents
<1>. QED
  BY <1>1, <1>2, <1>3, <1>4, <1>5, <1>6, <1>7, <1>8, <1>9, <1>10, <1>11, <1>12,
     <1>13, <1>14, <1>15, <1>16, <1>17, <1>18, <1>19, <1>20, <1>21, <1>22,
     <1>23, <1>24, <1>25, <1>26, <1>27, <1>28, <1>29, <1>30, <1>31, <1>32
     DEF Next, Others, Own, Restoring, Undoing, Writing, Settling, Choosing,
         Ending

-----------------------------------------------------------------------------
(* The copies of a restore from a backup, then of one from a snapshot.      *)
LEMMA OwnSafeStep ==
  ASSUME Inv, [Next]_vars
  PROVE  OwnSafe'
<1>. USE PlacesActs, OpFields DEF None, OwnSafe, Lost, Active, Backup, HoldsFrom, agent, past, World
<1>1. CASE Start
  BY <1>1, IdleRow, FreeRow DEF Inv, TypeOK, Kind, Recorded, Copies, Start
<1>2. CASE Stop
  BY <1>2, IdleRow, FreeRow DEF Inv, TypeOK, Kind, Recorded, Copies, Stop
<1>3. CASE Break
  BY <1>3, IdleRow, FreeRow DEF Inv, TypeOK, Kind, Recorded, Copies, Break
<1>4. CASE Retry
  BY <1>4, RetryRow, IdleRow, FreeRow DEF Inv, TypeOK, Kind, Recorded, Copies, Retry
<1>5. CASE Reconcile
  BY <1>5, IdleRow, FreeRow DEF Inv, TypeOK, Kind, Recorded, Copies, Reconcile
<1>6. CASE TidySnapshots
  BY <1>6, NothingRow
     DEF Inv, TypeOK, Kind, Recorded, Copies, TidySnapshots, Tidy,
         SnapshotsInUse
<1>7. CASE OwnWrites
  BY <1>7, VolumeRow DEF Inv, TypeOK, Kind, Recorded, Copies, OwnWrites
<1>8. CASE Unpack
  <2>1. CASE /\ ~tar.begun /\ tar' = [tar EXCEPT !.begun = TRUE]
             /\ vol' = [mem |-> "half", conf |-> "theirs"]
    BY <1>8, <2>1, BegunRow
       DEF Inv, TypeOK, Kind, Recorded, Copies, Unpack, Contents, Good,
           Applying
  <2>2. CASE tar.begun /\ tar' = Ended /\ vol' = tar.src
    BY <1>8, <2>2, EndedRow
       DEF Inv, TypeOK, Kind, Recorded, Copies, Unpack, Contents, Good,
           Applying
  <2>3. CASE tar' = Ended /\ UNCHANGED vol
    BY <1>8, <2>3, EndedRow
       DEF Inv, TypeOK, Kind, Recorded, Copies, Unpack, Contents, Good,
           Applying
  <2>. QED
    BY <1>8, <2>1, <2>2, <2>3 DEF Unpack
<1>9. CASE BackupBegin
  <2>1. /\ op'.st = "running" /\ op'.step = None /\ UNCHANGED <<kept, tar>>
        /\ vol' = Found /\ safe' = Nothing
        /\ (~retried' => ~retried \/ (tar = NoTar /\ vol.conf = "ours"))
    BY <1>9, BeginRow DEF Inv, TypeOK, BackupBegin
  <2>2. job'.pc = "down"
    BY <1>9, AtRow DEF BackupBegin
  <2>3. op'.found = vol'.mem /\ vol'.mem = IF Ruined THEN "half" ELSE "own"
    BY <1>9, <2>1, FoundRow DEF Inv, TypeOK, BackupBegin, Begin
  <2>4. op.st = "over"
    BY <1>9, FreeRow DEF Inv, TypeOK, BackupBegin
  <2>5. ASSUME ~kept', ~retried'
        PROVE  vol'.mem = "own" /\ tar'.src = Nothing
    <3>1. CASE retried
      BY <2>1, <2>3, <2>5, <3>1, NoTarRow DEF Ruined
    <3>2. CASE ~retried
      BY <2>1, <2>3, <2>4, <2>5, <3>2 DEF Inv, Copies, Contents, Good, Ruined
    <3>. QED
      BY <3>1, <3>2
  <2>. QED
    BY <2>1, <2>2, <2>3, <2>5
<1>10. CASE SnapshotBegin
  BY <1>10, AtRow, IdleRow, PlacesActs, BeginRow
     DEF Inv, TypeOK, Kind, Recorded, Copies, SnapshotBegin
<1>11. CASE Choose
  BY <1>11, AtRow, IdleRow, PlacesActs, JobLemma
     DEF Inv, TypeOK, Kind, Recorded, Copies, Choose
<1>12. CASE BackupDown
  <2>1. CASE ConfirmedDown /\ StoppedRow /\ Step("stopped") /\ At("save", "restore")
    BY <1>12, <2>1, StepRow, AtRow, NoTarRow
       DEF Inv, TypeOK, Kind, Recorded, Copies, BackupDown, ConfirmedDown
  <2>2. CASE NotConfirmed /\ At("back", "restore") /\ UNCHANGED <<state, op>>
    BY <1>12, <2>2, AtRow, NotConfirmedRow
       DEF Inv, TypeOK, Kind, Recorded, Copies, BackupDown
  <2>. QED
    BY <1>12, <2>1, <2>2 DEF BackupDown
<1>13. CASE BackupSave
  <2>1. CASE /\ safe' = vol /\ Step("safety-taken") /\ At("unpack", "restore")
             /\ tar' = OneShot(ThatNight)
    BY <1>13, <2>1, StepRow, AtRow
       DEF Inv, TypeOK, Kind, Recorded, Copies, BackupSave
  <2>2. CASE At("back", "restore") /\ UNCHANGED <<safe, op, tar>>
    BY <1>13, <2>2, AtRow DEF Inv, TypeOK, Kind, Recorded, Copies, BackupSave
  <2>. QED
    BY <1>13, <2>1, <2>2 DEF BackupSave
<1>14. CASE BackupUnpack
  <2>1. CASE Unpacked("then") /\ Step("replaced") /\ At("apply", "restore")
    BY <1>14, <2>1, StepRow, AtRow
       DEF Inv, TypeOK, Kind, Recorded, Copies, BackupUnpack, Unpacked
  <2>2. CASE Untouched /\ At("back", "restore") /\ UNCHANGED op
    BY <1>14, <2>2, AtRow, NoTarRow
       DEF Inv, TypeOK, Kind, Recorded, Copies, BackupUnpack, Untouched
  <2>3. CASE Failed /\ At("down", "undo") /\ UNCHANGED op
    BY <1>14, <2>3, AtRow, NoTarRow
       DEF Inv, TypeOK, Kind, Recorded, Copies, BackupUnpack, Failed
  <2>4. CASE NotGone /\ At("stop", "undo") /\ UNCHANGED op
    BY <1>14, <2>4, AtRow
       DEF Inv, TypeOK, Kind, Recorded, Copies, BackupUnpack, NotGone
  <2>. QED
    BY <1>14, <2>1, <2>2, <2>3, <2>4 DEF BackupUnpack
<1>15. CASE BackupApply
  <2>1. CASE AppliedOver /\ Step("reapplied") /\ At("finish", "restore")
    BY <1>15, <2>1, StepRow, AtRow, AppliedRow
       DEF Inv, TypeOK, Kind, Recorded, Copies, BackupApply, Contents, Good,
           Applying
  <2>2. CASE At("down", "undo") /\ UNCHANGED <<vol, op>>
    BY <1>15, <2>2, AtRow DEF Inv, TypeOK, Kind, Recorded, Copies, BackupApply
  <2>. QED
    BY <1>15, <2>1, <2>2 DEF BackupApply
<1>16. CASE UndoDown
  <2>1. CASE up' = FALSE /\ tar' = OneShot(safe) /\ At("unpack", "undo")
    BY <1>16, <2>1, AtRow DEF Inv, TypeOK, Kind, Recorded, Copies, UndoDown
  <2>2. CASE NotConfirmed /\ At("stop", "undo")
    BY <1>16, <2>2, AtRow, NotConfirmedRow
       DEF Inv, TypeOK, Kind, Recorded, Copies, UndoDown
  <2>. QED
    BY <1>16, <2>1, <2>2 DEF UndoDown
<1>17. CASE UndoUnpack
  BY <1>17, AtRow, IdleRow, PlacesActs, NoTarRow, OneShotRow, NothingRow
     DEF Inv, TypeOK, Kind, Recorded, Copies, UndoUnpack, Unpacked, Failed,
         NotGone
<1>18. CASE GiveUp
  BY <1>18, OverRow, IdleRow, FreeRow, NoTarRow, OneShotRow, NothingRow
     DEF Inv, TypeOK, Kind, Recorded, Copies, GiveUp
<1>19. CASE SnapshotSave
  BY <1>19, StepRow, OverRow, AtRow, IdleRow, PlacesActs, JobLemma
     DEF Inv, TypeOK, Kind, Recorded, Copies, SnapshotSave
<1>20. CASE WriteFile
  BY <1>20, OverRow, AtRow, IdleRow, PlacesActs, JobLemma, WroteRow
     DEF Inv, TypeOK, Kind, Recorded, Copies, WriteFile
<1>21. CASE WriteFails
  BY <1>21, OverRow, AtRow, IdleRow, PlacesActs, WroteRow
     DEF Inv, TypeOK, Kind, Recorded, Copies, WriteFails
<1>22. CASE Resume
  BY <1>22, OverRow, AtRow, IdleRow, PlacesActs
     DEF Inv, TypeOK, Kind, Recorded, Copies, Resume
<1>23. CASE HoldDown
  <2>1. op'.st = "held" /\ op'.kind = op.kind /\ op'.step = op.step /\ job'.pc = "idle"
    BY <1>23, HoldRow, IdleRow DEF Inv, TypeOK, HoldDown
  <2>2. op'.found = op.found
    BY <1>23 DEF HoldDown, Hold, Inv, TypeOK, OpRow
  <2>. QED
    BY <1>23, <2>1, <2>2 DEF Inv, Recorded, Copies, HoldDown
<1>24. CASE ReadFiles
  BY <1>24, OverRow, HoldRow, AtRow, IdleRow, PlacesActs
     DEF Inv, TypeOK, Kind, Recorded, Copies, ReadFiles
<1>25. CASE ChoiceDown
  <2>1. CASE up' = FALSE /\ tar' = OneShot(Chosen(job.act)) /\ At("unpack", job.act)
    BY <1>25, <2>1, AtRow DEF Inv, TypeOK, Kind, Recorded, Copies, ChoiceDown
  <2>2. CASE NotConfirmed /\ job' = Idle
    BY <1>25, <2>2, IdleRow, NotConfirmedRow
       DEF Inv, TypeOK, Kind, Recorded, Copies, ChoiceDown
  <2>. QED
    BY <1>25, <2>1, <2>2 DEF ChoiceDown
<1>26. CASE ChoiceUnpack
  <2>1. job.act \in Choices /\ op.st = "held" /\ safe \in Volume
    BY <1>26 DEF Inv, TypeOK, Kind, Recorded, HasCopy, ChoiceUnpack
  <2>2. CASE /\ Unpacked(Chosen(job.act).mem) /\ At("apply", job.act)
             /\ IF job.act = "finish" THEN Step("replaced") ELSE UNCHANGED op
    BY <1>26, <2>1, <2>2, AtRow, StepRow, ChosenRow, NothingRow
       DEF Inv, TypeOK, Kind, Recorded, Copies, ChoiceUnpack, Unpacked
  <2>3. CASE (Failed \/ NotGone) /\ job' = Idle /\ UNCHANGED op
    BY <1>26, <2>1, <2>3, IdleRow, NoTarRow
       DEF Inv, TypeOK, Kind, Recorded, Copies, ChoiceUnpack, Failed, NotGone
  <2>. QED
    BY <1>26, <2>2, <2>3 DEF ChoiceUnpack
<1>27. CASE ChoiceApply
  <2>1. CASE /\ AppliedOver /\ job.act = "finish" /\ Step("reapplied")
             /\ At("finish", "finish")
    BY <1>27, <2>1, StepRow, AtRow, AppliedRow
       DEF Inv, TypeOK, Kind, Recorded, Copies, ChoiceApply, Contents, Good,
           Applying
  <2>2. CASE /\ AppliedOver /\ job.act = "put-back" /\ At("back", "put-back")
             /\ UNCHANGED op
    BY <1>27, <2>2, AtRow, AppliedRow
       DEF Inv, TypeOK, Kind, Recorded, Copies, ChoiceApply, Contents, Good,
           Applying
  <2>3. CASE job' = Idle /\ UNCHANGED <<vol, op>>
    BY <1>27, <2>3, IdleRow DEF Inv, TypeOK, Kind, Recorded, Copies, ChoiceApply
  <2>. QED
    BY <1>27, <2>1, <2>2, <2>3 DEF ChoiceApply
<1>28. CASE Back
  BY <1>28, OverRow, IdleRow, FreeRow DEF Inv, TypeOK, Kind, Recorded, Copies, Back
<1>29. CASE CompleteRestore
  BY <1>29, OverRow, IdleRow, FreeRow
     DEF Inv, TypeOK, Kind, Recorded, Copies, CompleteRestore
<1>30. CASE Crash
  BY <1>30, JobLemma, WroteRow, AppliedRow
     DEF Inv, TypeOK, Kind, Recorded, Copies, Crash
<1>31. CASE Boot
  BY <1>31, BootRow, IdleRow, FreeRow DEF Inv, TypeOK, Kind, Recorded, Copies, Boot
<1>32. CASE UNCHANGED vars
  BY <1>32 DEF vars, Inv, TypeOK, Kind, Recorded, Copies
<1>. QED
  BY <1>1, <1>2, <1>3, <1>4, <1>5, <1>6, <1>7, <1>8, <1>9, <1>10, <1>11, <1>12,
     <1>13, <1>14, <1>15, <1>16, <1>17, <1>18, <1>19, <1>20, <1>21, <1>22,
     <1>23, <1>24, <1>25, <1>26, <1>27, <1>28, <1>29, <1>30, <1>31, <1>32
     DEF Inv, Next, Others, Own, Restoring, Undoing, Writing, Settling,
         Choosing, Ending

LEMMA SnapshotSafeStep ==
  ASSUME Inv, [Next]_vars
  PROVE  SnapshotSafe'
<1>. USE PlacesActs, OpFields DEF None, SnapshotSafe, Active, Backup, HoldsFrom, agent, past, World
<1>1. CASE Start
  BY <1>1, IdleRow, FreeRow DEF Inv, TypeOK, Kind, Recorded, Copies, Start
<1>2. CASE Stop
  BY <1>2, IdleRow, FreeRow DEF Inv, TypeOK, Kind, Recorded, Copies, Stop
<1>3. CASE Break
  BY <1>3, IdleRow, FreeRow DEF Inv, TypeOK, Kind, Recorded, Copies, Break
<1>4. CASE Retry
  BY <1>4, RetryRow, IdleRow, FreeRow DEF Inv, TypeOK, Kind, Recorded, Copies, Retry
<1>5. CASE Reconcile
  BY <1>5, IdleRow, FreeRow DEF Inv, TypeOK, Kind, Recorded, Copies, Reconcile
<1>6. CASE TidySnapshots
  BY <1>6, NothingRow
     DEF Inv, TypeOK, Kind, Recorded, Copies, TidySnapshots, Tidy,
         SnapshotsInUse
<1>7. CASE OwnWrites
  BY <1>7, VolumeRow DEF Inv, TypeOK, Kind, Recorded, Copies, OwnWrites
<1>8. CASE Unpack
  BY <1>8, EndedRow, BegunRow, TarFields
     DEF Inv, TypeOK, Kind, Recorded, Copies, Unpack, Contents, Good
<1>9. CASE BackupBegin
  BY <1>9, AtRow, IdleRow, PlacesActs, BeginRow, FreeRow
     DEF Inv, TypeOK, Kind, Recorded, Copies, BackupBegin
<1>10. CASE SnapshotBegin
  BY <1>10, AtRow, IdleRow, PlacesActs, BeginRow, FoundRow, FreeRow
     DEF Inv, TypeOK, Kind, Recorded, Copies, SnapshotBegin, Contents, Good,
         Whole, MayStart, Ruined
<1>11. CASE Choose
  BY <1>11, AtRow, IdleRow, PlacesActs, JobLemma
     DEF Inv, TypeOK, Kind, Recorded, Copies, Choose
<1>12. CASE BackupDown
  BY <1>12, StepRow, AtRow, IdleRow, PlacesActs
     DEF Inv, TypeOK, Kind, Recorded, Copies, BackupDown
<1>13. CASE BackupSave
  BY <1>13, StepRow, AtRow, IdleRow, PlacesActs
     DEF Inv, TypeOK, Kind, Recorded, Copies, BackupSave
<1>14. CASE BackupUnpack
  BY <1>14, StepRow, AtRow, IdleRow, PlacesActs
     DEF Inv, TypeOK, Kind, Recorded, Copies, BackupUnpack
<1>15. CASE BackupApply
  BY <1>15, StepRow, AtRow, IdleRow, PlacesActs
     DEF Inv, TypeOK, Kind, Recorded, Copies, BackupApply
<1>16. CASE UndoDown
  BY <1>16, AtRow, IdleRow, PlacesActs
     DEF Inv, TypeOK, Kind, Recorded, Copies, UndoDown
<1>17. CASE UndoUnpack
  BY <1>17, AtRow, IdleRow, PlacesActs
     DEF Inv, TypeOK, Kind, Recorded, Copies, UndoUnpack
<1>18. CASE GiveUp
  BY <1>18, OverRow, IdleRow, FreeRow
     DEF Inv, TypeOK, Kind, Recorded, Copies, GiveUp
<1>19. CASE SnapshotSave
  <2>1. CASE /\ safe' = vol /\ Step("safety-taken") /\ Pruned(SnapshotsInUse)
             /\ job' = [pc |-> "write", act |-> "restore", left |-> Files]
    BY <1>19, <2>1, StepRow, JobLemma, NothingRow
       DEF Inv, TypeOK, Kind, Recorded, Copies, SnapshotSave, Pruned,
           SnapshotsInUse
  <2>2. CASE Over("back") /\ job' = Idle /\ UNCHANGED <<safe, snap>>
    BY <1>19, <2>2, OverRow, IdleRow
       DEF Inv, TypeOK, Kind, Recorded, Copies, SnapshotSave
  <2>. QED
    BY <1>19, <2>1, <2>2 DEF SnapshotSave
<1>20. CASE WriteFile
  BY <1>20, OverRow, AtRow, IdleRow, PlacesActs, JobLemma
     DEF Inv, TypeOK, Kind, Recorded, Copies, WriteFile
<1>21. CASE WriteFails
  BY <1>21, OverRow, AtRow, IdleRow, PlacesActs
     DEF Inv, TypeOK, Kind, Recorded, Copies, WriteFails
<1>22. CASE Resume
  BY <1>22, OverRow, AtRow, IdleRow, PlacesActs
     DEF Inv, TypeOK, Kind, Recorded, Copies, Resume
<1>23. CASE HoldDown
  BY <1>23, HoldRow, IdleRow, FreeRow
     DEF Inv, TypeOK, Kind, Recorded, Copies, HoldDown
<1>24. CASE ReadFiles
  BY <1>24, OverRow, HoldRow, AtRow, IdleRow, PlacesActs
     DEF Inv, TypeOK, Kind, Recorded, Copies, ReadFiles
<1>25. CASE ChoiceDown
  BY <1>25, AtRow, IdleRow, PlacesActs
     DEF Inv, TypeOK, Kind, Recorded, Copies, ChoiceDown
<1>26. CASE ChoiceUnpack
  BY <1>26, StepRow, AtRow, IdleRow, PlacesActs
     DEF Inv, TypeOK, Kind, Recorded, Copies, ChoiceUnpack
<1>27. CASE ChoiceApply
  BY <1>27, StepRow, AtRow, IdleRow, PlacesActs
     DEF Inv, TypeOK, Kind, Recorded, Copies, ChoiceApply
<1>28. CASE Back
  BY <1>28, OverRow, IdleRow, FreeRow DEF Inv, TypeOK, Kind, Recorded, Copies, Back
<1>29. CASE CompleteRestore
  BY <1>29, OverRow, IdleRow, FreeRow
     DEF Inv, TypeOK, Kind, Recorded, Copies, CompleteRestore
<1>30. CASE Crash
  BY <1>30, JobLemma DEF Inv, TypeOK, Kind, Recorded, Copies, Crash
<1>31. CASE Boot
  BY <1>31, BootRow, IdleRow, FreeRow DEF Inv, TypeOK, Kind, Recorded, Copies, Boot
<1>32. CASE UNCHANGED vars
  BY <1>32 DEF vars, Inv, TypeOK, Kind, Recorded, Copies
<1>. QED
  BY <1>1, <1>2, <1>3, <1>4, <1>5, <1>6, <1>7, <1>8, <1>9, <1>10, <1>11, <1>12,
     <1>13, <1>14, <1>15, <1>16, <1>17, <1>18, <1>19, <1>20, <1>21, <1>22,
     <1>23, <1>24, <1>25, <1>26, <1>27, <1>28, <1>29, <1>30, <1>31, <1>32
     DEF Inv, Next, Others, Own, Restoring, Undoing, Writing, Settling,
         Choosing, Ending

-----------------------------------------------------------------------------
LEMMA InvInit == Init => Inv
<1>. SUFFICES ASSUME Init PROVE Inv
  OBVIOUS
<1>. USE NoTarRow, NothingRow, PlacesActs DEF Init
<1>1. vol \in Volume /\ op \in OpRow
  BY DEF Volume, Memories, OpRow, None
<1>2. job \in JobRow /\ job.pc = "idle" /\ job.act = "none" /\ op.st = "over"
        /\ op.kind = "backup"
  BY IdleRow
<1>3. state \in {"RUNNING", "STOPPED", "FAILED"} /\ up \in BOOLEAN
  OBVIOUS
<1>4. crashes \in 0..MaxCrashes /\ events \in 0..MaxEvents
  BY BoundsAssumption
<1>5. /\ tar \in TarRow /\ safe \in Volume \cup {Nothing} /\ kept \in BOOLEAN
      /\ snap \in BOOLEAN /\ retried \in BOOLEAN /\ landed \in BOOLEAN
  OBVIOUS
<1>6. TypeOK
  BY <1>1, <1>2, <1>3, <1>4, <1>5 DEF TypeOK
<1>9. Kind /\ Recorded /\ HasCopy /\ WasUp
  BY <1>2 DEF Kind, Recorded, HasCopy, WasUp, Active, Backup
<1>7. Contents
  BY <1>2, <1>3 DEF Contents, Good, Whole, Ruined, MayStart, Unpacking, Applying, Saving, Copied,
              Active, Backup
<1>8. Copies
  BY <1>2 DEF Copies, OwnSafe, SnapshotSafe, Lost, Active, Backup
<1>. QED
  BY <1>6, <1>9, <1>7, <1>8 DEF Inv

LEMMA InvStep == Inv /\ [Next]_vars => Inv'
<1>. SUFFICES ASSUME Inv, [Next]_vars PROVE Inv'
  OBVIOUS
<1>1. TypeOK'
  BY TypeStep DEF Inv
<1>2. (Kind /\ Recorded /\ HasCopy /\ WasUp)'
  BY ControlStep DEF Inv
<1>3. Contents'
  BY ContentsStep DEF Inv, Contents
<1>4. Copies'
  BY OwnSafeStep, SnapshotSafeStep DEF Copies
<1>. QED
  BY <1>1, <1>2, <1>3, <1>4 DEF Inv

LEMMA InvAlways == Spec => []Inv
  BY InvInit, InvStep, PTL DEF Spec

(* Every row, volume, one-shot and request stays what it is declared to be.  *)
THEOREM RestoreTypeCorrect == Spec => []TypeOK
<1>1. Inv => TypeOK
  BY DEF Inv
<1>. QED
  BY <1>1, InvAlways, PTL

(* However many files, deaths and other events there are, and in whatever    *)
(* order: no container runs on a half-restored memory or on a config of      *)
(* another night, unless its owner tapped Retry on one that is marked for    *)
(* it (backups.ts, recoverBackupRestore: "half-restored must not run").      *)
THEOREM NeverHalfRestored == Spec => []RunsWhole
<1>1. Inv => RunsWhole
  BY DEF Inv, Contents, Good, Whole, RunsWhole
<1>. QED
  BY <1>1, InvAlways, PTL

(* While a memory is half-restored a copy of how it was is on disk or was    *)
(* kept, and a restore held for its owner has what its choices need          *)
(* (snapshots.ts, snapshotsInUse; backups.ts, the safety file).             *)
THEOREM CopyRemains == Spec => []WayBack
<1>1. Inv => WayBack
  <2>. SUFFICES ASSUME Inv PROVE WayBack
    OBVIOUS
  <2>. USE OpFields DEF Inv, TypeOK, Active, Backup, HoldsFrom, None
  <2>1. Ruined => kept \/ (safe # Nothing /\ safe.mem = "own")
    BY DEF Ruined, Copies, OwnSafe, Lost, HasCopy
  <2>2. Active /\ ~Backup /\ vol.mem = "half" /\ ~retried => safe # Nothing
    BY DEF Copies, SnapshotSafe
  <2>3. op.st = "held" => safe # Nothing /\ (Backup \/ snap)
    BY DEF Recorded, HasCopy, Copies, SnapshotSafe
  <2>. QED
    BY <2>1, <2>2, <2>3 DEF WayBack
<1>. QED
  BY <1>1, InvAlways, PTL

-----------------------------------------------------------------------------
(* What an outcome will say of the memory, along the way: it is as found, or *)
(* later, or the agent is marked failed for it; or the restored one is in.   *)
AsItWas(m) == m \in {op.found, "later"} \/ MarkedFailed
Says ==
  Active /\ ~retried =>
    /\ ~Backup => op.step \in {None, "safety-taken"}
    /\ safe # Nothing => AsItWas(safe.mem)
    /\ op.step \in {None, "stopped"} \/ job.pc = "back" => AsItWas(vol.mem)
    /\ job.pc = "unpack" /\ job.act = "restore" /\ ~tar.begun => AsItWas(vol.mem)
    /\ job.pc = "write" /\ job.act = "restore" /\ job.left = Files => AsItWas(vol.mem)
    /\ job.pc = "apply" =>
         IF job.act = "put-back" THEN AsItWas(vol.mem) ELSE vol.mem = "then"
    /\ (op.st # "held" /\ op.step = "reapplied") \/ job.pc = "finish" =>
         vol.mem \in {"then", "later"} /\ vol.conf = "ours" /\ tar.src = Nothing

LEMMA OverOut ==
  ASSUME op \in OpRow, NEW out, Over(out) PROVE op'.out = out /\ op'.st = "over"
  BY DEF OpRow, Over

(* While an operation is not over nobody brings back an agent that is marked *)
(* failed (WasUp).                                                         *)
LEMMA StillSo ==
  ASSUME op'.found = op.found, kept => kept', state = "FAILED" => state' = "FAILED"
  PROVE  \A m : AsItWas(m) => AsItWas(m)'
  BY DEF AsItWas, MarkedFailed

(* What still unpacks into a volume that a restart rule takes for untouched  *)
(* is the undo of an earlier restore, of an agent marked failed for it.     *)
LEMMA FailedForIt ==
  ASSUME Inv, Active, ~retried, Backup, tar.src # Nothing,
         (op.st # "held" /\ op.step \in {None, "stopped"}) \/ job.pc = "back"
  PROVE  MarkedFailed
<1>1. state = "FAILED"
  BY DEF Inv, Contents, Good, MayStart, Whole
<1>2. kept
  BY DEF Inv, Copies, OwnSafe, Lost
<1> QED BY <1>1, <1>2 DEF MarkedFailed

LEMMA SaysStep == Inv /\ Says /\ [Next]_vars => Says'
<1> SUFFICES ASSUME Inv, Says, [Next]_vars, Active', ~retried' PROVE Says'
  BY DEF Says
<1>t. /\ op \in OpRow /\ vol \in Volume /\ tar \in TarRow /\ job \in JobRow
      /\ Kind /\ Recorded /\ WasUp /\ Contents
  BY DEF Inv, TypeOK
<1>s. /\ op.st \in {"over", "running", "interrupted", "held"}
        /\ op.kind \in {"backup", "snapshot"}
      /\ op.step \in {"none", "stopped", "safety-taken", "replaced", "reapplied"}
  BY <1>t, OpFields
<1> USE <1>t, <1>s, PlacesActs, IdleRow DEF None, Active, Backup, HoldsFrom, agent, past, World
<1>1. CASE Start \/ Stop \/ Break \/ Retry \/ Reconcile
  BY <1>1, FreeRow DEF Start, Stop, Break, Retry, Reconcile
<1>6. CASE TidySnapshots
  <2>1. UNCHANGED <<op, job, vol, tar, state, kept, retried>> /\ safe' = safe
    BY <1>6 DEF TidySnapshots, Tidy, SnapshotsInUse
  <2>2. \A m : AsItWas(m) => AsItWas(m)'
    BY <2>1, StillSo
  <2> QED BY <2>1, <2>2 DEF Says
<1>7. CASE OwnWrites
  <2>1. /\ UNCHANGED <<op, job, tar, state, kept, retried, safe>> /\ up
        /\ vol'.mem = "later" /\ vol'.conf = vol.conf
    BY <1>7, VolumeRow DEF OwnWrites, Volume, Memories
  <2>2. \A m : AsItWas(m) => AsItWas(m)'
    BY <2>1, StillSo
  <2>3. AsItWas("later")'
    BY DEF AsItWas
  <2>4. job.pc # "apply"
    BY <2>1 DEF Contents, Good, Applying
  <2> QED BY <2>1, <2>2, <2>3, <2>4 DEF Says
<1>8. CASE Unpack
  <2>1. UNCHANGED <<op, job, state, kept, retried, safe>> /\ tar.src # Nothing
    BY <1>8 DEF Unpack
  <2>2. \A m : AsItWas(m) => AsItWas(m)'
    BY <2>1, StillSo
  <2>3. Backup /\ job.pc # "apply"
    BY <2>1 DEF Contents, Good, Applying
  <2>4. ~((op.st # "held" /\ op.step = "reapplied") \/ job.pc = "finish")
    BY <2>1 DEF Says
  <2>5. op.step \in {None, "stopped"} \/ job.pc = "back" => MarkedFailed
    BY <2>1, <2>3, FailedForIt DEF Recorded
  <2>6. ~tar'.begun => vol' = vol /\ ~tar.begun
    BY <1>8, EndedRow, BegunRow, TarFields DEF Unpack
  <2>7. MarkedFailed => \A m : AsItWas(m)'
    BY <2>1 DEF MarkedFailed, AsItWas
  <2> QED BY <2>1, <2>2, <2>3, <2>4, <2>5, <2>6, <2>7 DEF Says, Kind
<1>9. CASE BackupBegin \/ SnapshotBegin
  <2>1. op'.step = None /\ op'.found = vol'.mem /\ safe' = Nothing
    BY <1>9 DEF BackupBegin, SnapshotBegin, Begin
  <2>2. job'.pc \in {"down", "save"}
    BY <1>9, AtRow DEF BackupBegin, SnapshotBegin
  <2> QED BY <2>1, <2>2 DEF Says, AsItWas
<1>11. CASE Choose
  <2>1. UNCHANGED <<op, vol, tar, state, kept, retried, safe>> /\ op.st = "held"
    BY <1>11 DEF Choose
  <2>2. \A m : AsItWas(m) => AsItWas(m)'
    BY <2>1, StillSo
  <2>3. job'.pc \in {"down", "write"} /\ job'.act # "restore"
    BY <1>11, AtRow DEF Choose
  <2> QED BY <2>1, <2>2, <2>3 DEF Says
<1>12. CASE BackupDown
  <2>1. /\ UNCHANGED <<vol, kept, retried, safe>> /\ op.step \in {None, "stopped"}
        /\ op'.kind = op.kind /\ op'.found = op.found /\ Backup /\ op.st = "running"
        /\ op'.st = "running"
        /\ job'.pc \in {"save", "back"}
        /\ op'.step \in {None, "stopped"}
    BY <1>12, AtRow, StepRow DEF BackupDown, Recorded, Kind
  <2>2. state = "FAILED" => state' = "FAILED"
    BY <1>12, <2>1 DEF BackupDown, StoppedRow, WasUp
  <2>3. \A m : AsItWas(m) => AsItWas(m)'
    BY <2>1, <2>2, StillSo
  <2> QED BY <2>1, <2>3 DEF Says
<1>13. CASE BackupSave
  <2>1. /\ UNCHANGED <<vol, kept, retried, state>> /\ op.step \in {None, "stopped"}
        /\ op'.kind = op.kind /\ op'.found = op.found /\ Backup /\ op.st = "running"
        /\ op'.st = "running"
        /\ safe' \in {safe, vol}
    BY <1>13, StepRow DEF BackupSave, Recorded
  <2>2. \/ job'.pc = "unpack" /\ op'.step = "safety-taken"
        \/ job'.pc = "back" /\ safe' = safe /\ op'.step = op.step
    BY <1>13, AtRow, StepRow DEF BackupSave
  <2>3. \A m : AsItWas(m) => AsItWas(m)'
    BY <2>1, StillSo
  <2> QED BY <2>1, <2>2, <2>3 DEF Says
<1>14. CASE BackupUnpack
  <2>1. /\ UNCHANGED <<vol, kept, retried, state, safe>> /\ op'.kind = op.kind
        /\ op'.found = op.found /\ Backup /\ op.st = "running" /\ op'.st = "running"
        /\ job.pc = "unpack" /\ job.act = "restore"
        /\ op.step \in HoldsFrom /\ op'.step \in HoldsFrom
    BY <1>14, StepRow DEF BackupUnpack, Recorded, Kind
  <2>2. \A m : AsItWas(m) => AsItWas(m)'
    BY <2>1, StillSo
  <2>3. \/ job'.pc = "apply" /\ job'.act = "restore" /\ vol.mem = "then"
        \/ job'.pc = "back" /\ ~tar.begun
        \/ job'.pc \in {"down", "stop"}
    BY <1>14, AtRow DEF BackupUnpack, Unpacked, Untouched
  <2> QED BY <2>1, <2>2, <2>3 DEF Says
<1>15. CASE BackupApply
  <2>1. /\ UNCHANGED <<tar, kept, retried, state, safe>> /\ op'.kind = op.kind
        /\ op'.found = op.found /\ Backup /\ op.st = "running" /\ op'.st = "running"
        /\ job.pc = "apply" /\ job.act = "restore"
        /\ op.step \in HoldsFrom /\ vol.mem = "then" /\ tar.src = Nothing
    BY <1>15, StepRow DEF BackupApply, Kind, Recorded, Says, Contents, Good, Applying
  <2>2. \A m : AsItWas(m) => AsItWas(m)'
    BY <2>1, StillSo
  <2>3. \/ job'.pc = "finish" /\ vol'.mem = vol.mem /\ vol'.conf = "ours"
           /\ op'.step = "reapplied"
        \/ job'.pc = "down" /\ op'.step = op.step
    BY <1>15, AtRow, StepRow, AppliedRow DEF BackupApply
  <2> QED BY <2>1, <2>2, <2>3 DEF Says
<1>16. CASE UndoDown
  <2>1. UNCHANGED <<vol, op, kept, retried, state, safe>> /\ op.st = "running"
        /\ op.step \in HoldsFrom
    BY <1>16 DEF UndoDown, Recorded
  <2>2. \A m : AsItWas(m) => AsItWas(m)'
    BY <2>1, StillSo
  <2>3. job'.pc \in {"unpack", "stop"} /\ job'.act = "undo"
    BY <1>16, AtRow DEF UndoDown
  <2> QED BY <2>1, <2>2, <2>3 DEF Says
<1>17. CASE UndoUnpack
  <2>0. UNCHANGED <<vol, op, kept, retried, state, safe>> /\ Backup /\ op.st = "running"
        /\ op.step \in HoldsFrom
    BY <1>17 DEF UndoUnpack, Recorded, Kind
  <2>1. UNCHANGED <<vol, op, kept, retried, state, safe>> /\ op.st = "running"
        /\ op.step \in HoldsFrom /\ safe # Nothing
    BY <2>0 DEF Inv, HasCopy
  <2>2. \A m : AsItWas(m) => AsItWas(m)'
    BY <2>1, StillSo
  <2>3. \/ job'.pc = "back" /\ vol.mem = safe.mem
        \/ job'.pc = "stop"
    BY <1>17, AtRow DEF UndoUnpack, Unpacked
  <2> QED BY <2>1, <2>2, <2>3 DEF Says
<1>19. CASE SnapshotSave
  <2>1. /\ UNCHANGED <<vol, kept, retried, state>> /\ op.step \in {None, "stopped"}
        /\ ~Backup /\ op.st = "running"
    BY <1>19 DEF SnapshotSave, Recorded
  <2>2. /\ safe' = vol /\ op'.kind = op.kind /\ op'.found = op.found /\ op'.st = op.st
        /\ op'.step = "safety-taken"
        /\ job'.pc = "write"
    BY <1>19, OverRow, StepRow, JobLemma DEF SnapshotSave
  <2>3. \A m : AsItWas(m) => AsItWas(m)'
    BY <2>1, <2>2, StillSo
  <2> QED BY <2>1, <2>2, <2>3 DEF Says
<1>20. CASE WriteFile
  <2>1. /\ UNCHANGED <<op, kept, retried, state, safe>> /\ ~Backup /\ job.left \in 0..Files
        /\ job' = [job EXCEPT !.left = @ - 1]
    BY <1>20, OverRow DEF WriteFile, Kind, JobRow
  <2>2. job'.pc = "write" /\ job'.left # Files
    BY <1>20, <2>1, BoundsAssumption DEF WriteFile, JobRow
  <2>3. \A m : AsItWas(m) => AsItWas(m)'
    BY <2>1, StillSo
  <2>4. op.step = "safety-taken"
    BY <1>20, <2>1 DEF WriteFile, Inv, Copies, SnapshotSafe, Says
  <2> QED BY <2>1, <2>2, <2>3, <2>4 DEF Says
<1>21. CASE WriteFails
  <2>1. /\ UNCHANGED <<op, kept, retried, state, safe>> /\ ~Backup /\ job' = Idle
    BY <1>21, OverRow DEF WriteFails, Kind
  <2>3. \A m : AsItWas(m) => AsItWas(m)'
    BY <2>1, StillSo
  <2>4. op.step = "safety-taken"
    BY <1>21, <2>1 DEF WriteFails, Inv, Copies, SnapshotSafe, Says
  <2> QED BY <2>1, <2>3, <2>4 DEF Says
<1>22. CASE Resume
  <2>1. UNCHANGED <<vol, tar, op, kept, retried, state, safe>> /\ op.st = "interrupted"
    BY <1>22, OverRow DEF Resume
  <2>2. \A m : AsItWas(m) => AsItWas(m)'
    BY <2>1, StillSo
  <2>3. \/ job'.pc = "back" /\ op.step \in {None, "stopped"}
        \/ job'.pc = "finish" /\ op.step = "reapplied"
        \/ job'.pc \in {"down", "read"}
    BY <1>22, AtRow, OverRow DEF Resume
  <2> QED BY <2>1, <2>2, <2>3 DEF Says
<1>23. CASE HoldDown
  <2>1. /\ UNCHANGED <<vol, kept, retried, safe>> /\ op'.kind = op.kind
        /\ op'.found = op.found /\ op'.st = "held" /\ Backup /\ op.st # "over"
        /\ op'.step = op.step /\ job' = Idle /\ op.step \notin {None, "stopped"}
    BY <1>23, HoldRow DEF HoldDown, Recorded, Kind
  <2>2. state = "FAILED" => state' = "FAILED"
    BY <1>23 DEF HoldDown
  <2>3. \A m : AsItWas(m) => AsItWas(m)'
    BY <2>1, <2>2, StillSo
  <2> QED BY <2>1, <2>3 DEF Says
<1>24. CASE ReadFiles
  <2>1. /\ UNCHANGED <<vol, kept, retried, safe, state>> /\ op'.kind = op.kind
        /\ op'.found = op.found
        /\ op'.st = "held" /\ op'.step = op.step /\ job' = Idle /\ op.st # "over"
    <3>1. Hold
      BY <1>24, OverOut DEF ReadFiles
    <3> QED BY <1>24, <3>1, HoldRow DEF ReadFiles, Recorded
  <2>2. op.step = "safety-taken"
    BY <1>24, <2>1 DEF ReadFiles, Kind, Inv, Copies, SnapshotSafe, Says
  <2>3. \A m : AsItWas(m) => AsItWas(m)'
    BY <2>1, StillSo
  <2> QED BY <2>1, <2>2, <2>3 DEF Says
<1>25. CASE ChoiceDown
  <2>1. UNCHANGED <<vol, op, kept, retried, state, safe>> /\ op.st = "held"
    BY <1>25 DEF ChoiceDown, Recorded
  <2>2. \A m : AsItWas(m) => AsItWas(m)'
    BY <2>1, StillSo
  <2>3. job'.pc \in {"unpack", "idle"} /\ job'.act # "restore"
    BY <1>25, AtRow DEF ChoiceDown
  <2> QED BY <2>1, <2>2, <2>3 DEF Says
<1>26. CASE ChoiceUnpack
  <2>1. /\ UNCHANGED <<vol, kept, retried, state, safe>> /\ Backup /\ op.st = "held"
        /\ op'.st = "held"
        /\ op'.kind = op.kind /\ op'.found = op.found /\ op'.step \notin {None, "stopped"}
        /\ safe \in Volume
    BY <1>26, StepRow DEF ChoiceUnpack, Recorded, Inv, HasCopy, TypeOK, Kind
  <2>2. \A m : AsItWas(m) => AsItWas(m)'
    BY <2>1, StillSo
  <2>3. \/ job'.pc = "apply" /\ job'.act = job.act /\ vol.mem = Chosen(job.act).mem
        \/ job'.pc = "idle"
    BY <1>26, AtRow DEF ChoiceUnpack, Unpacked
  <2>4. job.act \in {"finish", "put-back"} /\ safe # Nothing
    BY <1>26, <2>1, NothingRow DEF ChoiceUnpack
  <2>5. Chosen(job.act).mem = IF job.act = "finish" THEN "then" ELSE safe.mem
    BY <2>1, <2>4, ChosenRow
  <2> QED BY <2>1, <2>2, <2>3, <2>4, <2>5 DEF Says
<1>27. CASE ChoiceApply
  <2>1. /\ UNCHANGED <<tar, kept, retried, state, safe>> /\ Backup /\ op.st = "held"
        /\ op'.st = "held"
        /\ op'.kind = op.kind /\ op'.found = op.found /\ op'.step \notin {None, "stopped"}
        /\ vol'.mem = vol.mem
        /\ tar.src = Nothing /\ job.pc = "apply"
    BY <1>27, StepRow, AppliedRow DEF ChoiceApply, Recorded, Kind, Contents, Good, Applying
  <2>2. \A m : AsItWas(m) => AsItWas(m)'
    BY <2>1, StillSo
  <2>3. \/ job'.pc = "finish" /\ job.act = "finish" /\ vol'.conf = "ours"
        \/ job'.pc = "back" /\ job.act = "put-back"
        \/ job'.pc = "idle"
    BY <1>27, AtRow, AppliedRow DEF ChoiceApply
  <2> QED BY <2>1, <2>2, <2>3 DEF Says
<1>28. CASE Back \/ CompleteRestore \/ GiveUp
  BY <1>28, OverRow DEF Back, CompleteRestore, GiveUp
<1>30. CASE Crash
  <2>1. UNCHANGED <<op, tar, kept, retried, state, safe>> /\ job'.pc = "dead"
    BY <1>30, JobLemma DEF Crash
  <2>2. \A m : AsItWas(m) => AsItWas(m)'
    BY <2>1, StillSo
  <2>3. \/ vol' = vol
        \/ job.pc = "write"
        \/ job.pc = "apply" /\ vol'.mem = vol.mem /\ vol'.conf = "ours"
    BY <1>30, AppliedRow DEF Crash
  <2>4. job.pc = "write" => op.step = "safety-taken"
    BY <2>1 DEF Inv, Copies, SnapshotSafe, Kind, Says
  <2> QED BY <2>1, <2>2, <2>3, <2>4 DEF Says
<1>31. CASE Boot
  <2>1. /\ UNCHANGED <<vol, tar, kept, retried, state, safe>> /\ job' = Idle
        /\ op'.kind = op.kind /\ op'.found = op.found /\ op'.step = op.step /\ op.st # "over"
        /\ (op'.st = "held" <=> op.st = "held")
    BY <1>31, BootRow DEF Boot, OpRow
  <2>2. \A m : AsItWas(m) => AsItWas(m)'
    BY <2>1, StillSo
  <2> QED BY <2>1, <2>2 DEF Says
<1>32. CASE UNCHANGED vars
  BY <1>32 DEF vars, Says, AsItWas, MarkedFailed
<1> QED
  BY <1>1, <1>6, <1>7, <1>8, <1>9, <1>11, <1>12, <1>13, <1>14, <1>15, <1>16, <1>17, <1>19,
     <1>20, <1>21, <1>22, <1>23, <1>24, <1>25, <1>26, <1>27, <1>28, <1>30, <1>31, <1>32
     DEF Next, Others, Own, Restoring, Undoing, Writing, Settling, Choosing, Ending

(* Every ending says what is.                                               *)
Told ==
  Active /\ op'.st = "over" =>
    \/ retried \/ landed'
    \/ op'.out = "done" /\ vol'.mem \in {"then", "later"} /\ vol'.conf = "ours"
    \/ op'.out = "back" /\ (vol'.mem \in {op.found, "later"} \/ MarkedFailed')
    \/ op'.out = "failed" /\ (Backup => MarkedFailed')

LEMMA ToldStep == ASSUME Inv, Says, [Next]_vars PROVE Told
<1> SUFFICES ASSUME Active, op'.st = "over", ~retried, ~landed'
             PROVE  \/ /\ op'.out = "done" /\ vol'.mem \in {"then", "later"} /\ vol'.conf = "ours"
                    \/ op'.out = "back" /\ (vol'.mem \in {op.found, "later"} \/ MarkedFailed')
                    \/ op'.out = "failed" /\ (Backup => MarkedFailed')
  BY DEF Told
<1>t. /\ op \in OpRow /\ vol \in Volume /\ tar \in TarRow /\ job \in JobRow
      /\ Kind /\ Recorded /\ WasUp /\ Contents
  BY DEF Inv, TypeOK
<1>s. /\ op.st \in {"running", "interrupted", "held"} /\ op.kind \in {"backup", "snapshot"}
      /\ op.was \in BOOLEAN
  BY <1>t, OpFields DEF Active
<1>g. ~Backup => vol.conf = "ours"
  BY <1>t DEF Contents, Good
<1> USE <1>t, <1>s, PlacesActs, IdleRow DEF None, Active, Backup, HoldsFrom, agent, past, World
<1>1. CASE Start \/ Stop \/ Break \/ Retry \/ Reconcile \/ BackupBegin \/ SnapshotBegin
  BY <1>1, FreeRow DEF Start, Stop, Break, Retry, Reconcile, BackupBegin, SnapshotBegin
<1>2. CASE UNCHANGED op
  BY <1>2
<1>3. CASE \E step \in {"stopped", "safety-taken", "replaced", "reapplied"} : Step(step)
  BY <1>3, StepRow
<1>4. CASE Hold
  BY <1>4, HoldRow
<1>5. CASE Boot
  BY <1>5, BootRow
<1>6. CASE GiveUp
  <2>1. op'.out = "failed" /\ state' = "FAILED" /\ Backup
    BY <1>6, OverOut DEF GiveUp, Kind
  <2>2. kept'
    BY <1>6, <2>1 DEF GiveUp, Recorded, Inv, Copies, OwnSafe
  <2> QED BY <2>1, <2>2 DEF MarkedFailed
<1>7. CASE Back
  <2>1. op'.out = "back" /\ UNCHANGED <<vol, kept>> /\ AsItWas(vol.mem)
    BY <1>7, OverOut DEF Back, Says
  <2>2. state = "FAILED" => state' = "FAILED"
    BY <1>7 DEF Back, Restarted, WasUp
  <2> QED BY <2>1, <2>2 DEF AsItWas, MarkedFailed
<1>8. CASE CompleteRestore
  BY <1>8, OverOut DEF CompleteRestore, Says
<1>9. CASE SnapshotSave /\ Over("back")
  <2>1. op'.out = "back" /\ UNCHANGED <<vol, kept, state>> /\ AsItWas(vol.mem)
    BY <1>9, OverOut DEF SnapshotSave, Says, Recorded
  <2> QED BY <2>1 DEF AsItWas, MarkedFailed
<1>10. CASE WriteFile
  <2>1. Over(IF job.act = "revert" THEN "back" ELSE "done") /\ job.left = 1 /\ Wrote(Goal)
    BY <1>10 DEF WriteFile
  <2>2. vol'.mem \in {Goal, "later"} /\ vol'.conf = "ours"
    <3>1. PICK now \in Reached(Goal) : vol' = [vol EXCEPT !.mem = now]
      BY <2>1 DEF Wrote
    <3>2. now \in {Goal, "later"}
      BY <2>1, <3>1 DEF Reached
    <3> QED BY <1>10, <1>g, <3>1, <3>2 DEF WriteFile, Kind, Volume
  <2>3. CASE job.act = "revert"
    BY <2>1, <2>2, <2>3, OverOut DEF Goal
  <2>4. CASE job.act # "revert"
    BY <2>1, <2>2, <2>4, OverOut DEF Goal
  <2> QED BY <2>3, <2>4
<1>11. CASE WriteFails
  <2>1. /\ ~Backup /\ UNCHANGED <<vol, kept, state>> /\ job.act = "restore"
        /\ Over(IF job.left = Files THEN "back" ELSE "failed")
    BY <1>11 DEF WriteFails, Kind
  <2>2. CASE job.left = Files
    <3>1. AsItWas(vol.mem)
      BY <1>11, <2>1, <2>2 DEF WriteFails, Says
    <3> QED BY <2>1, <2>2, <3>1, OverOut DEF AsItWas, MarkedFailed
  <2>3. CASE job.left # Files
    BY <2>1, <2>3, OverOut
  <2> QED BY <2>2, <2>3
<1>12. CASE Resume /\ ~Backup /\ op.step = None /\ Over("back")
  <2>1. op'.out = "back" /\ UNCHANGED <<vol, kept, state>> /\ AsItWas(vol.mem)
    BY <1>12, OverOut DEF Resume, Says
  <2> QED BY <2>1 DEF AsItWas, MarkedFailed
<1>13. CASE ReadFiles
  <2>1. UNCHANGED <<vol, kept, state>> /\ ~Backup
    BY <1>13 DEF ReadFiles, Kind
  <2>2. CASE vol.mem = "then" /\ Over("done")
    BY <1>g, <2>1, <2>2, OverOut
  <2>3. CASE safe # Nothing /\ vol.mem = safe.mem /\ Over("back")
    <3>1. AsItWas(vol.mem)
      BY <2>3 DEF Says
    <3> QED BY <2>1, <2>3, <3>1, OverOut DEF AsItWas, MarkedFailed
  <2> QED BY <1>13, <1>4, <2>2, <2>3 DEF ReadFiles
<1>14. CASE TidySnapshots \/ OwnWrites \/ Unpack \/ Choose \/ Crash
  BY <1>14, <1>2 DEF TidySnapshots, Tidy, OwnWrites, Unpack, Choose, Crash
<1>15. CASE Restoring
  BY <1>15, <1>2, <1>3 DEF Restoring, BackupDown, BackupSave, BackupUnpack, BackupApply
<1>16. CASE Undoing \/ Ending
  BY <1>16, <1>2, <1>6, <1>7, <1>8 DEF Undoing, Ending, UndoDown, UndoUnpack
<1>17. CASE Writing
  BY <1>17, <1>3, <1>9, <1>10, <1>11 DEF Writing, SnapshotSave
<1>18. CASE Settling
  BY <1>18, <1>2, <1>4, <1>12, <1>13 DEF Settling, Resume, HoldDown
<1>19. CASE Choosing
  BY <1>19, <1>2, <1>3 DEF Choosing, ChoiceDown, ChoiceUnpack, ChoiceApply
<1>20. CASE UNCHANGED vars
  BY <1>20, <1>2 DEF vars
<1> QED
  BY <1>1, <1>5, <1>14, <1>15, <1>16, <1>17, <1>18, <1>19, <1>20 DEF Next, Others, Own

(* An outcome is what happened: "restored" is that night's memory or the     *)
(* snapshot's under today's settings, "as it was" is the memory the restore  *)
(* found, or the agent is marked failed for an earlier one, and "failed" is   *)
(* marked so with its copy kept (backups.ts, rollBack and the restart rules;  *)
(* snapshots.ts, restoreSnapshot), for any number of files, deaths, events.  *)
THEOREM OutcomesAreTrue == Spec => SaysWhatIs
<1>1. Init => Says
  BY DEF Init, Says, Active
<1>2. Inv /\ Says /\ [Next]_vars => Told
  BY ToldStep
<1> QED BY <1>1, <1>2, InvAlways, SaysStep, PTL DEF Spec, SaysWhatIs, Told
=============================================================================
