------------------------------ MODULE Restore -------------------------------
(***************************************************************************)
(* Two restores of one agent: its whole volume from a night's backup        *)
(* (orchestrator/backups.ts) and its core files from a snapshot             *)
(* (orchestrator/snapshots.ts).  Both first take a copy of how it is, both  *)
(* record how far they are (operations.ts), and after a restart both are    *)
(* settled by a rule that may leave the choice to the owner.                *)
(*                                                                          *)
(* One agent on one machine, whose calls may fail, take effect without an   *)
(* answer, or go on after the process that made them died: an import is a   *)
(* container of its own, a one-shot that unpacks on.  A step is what runs    *)
(* between two awaits.  A memory is one of four values, all the properties   *)
(* tell apart.                                                              *)
(***************************************************************************)
EXTENDS Naturals

CONSTANTS Files,       \* core files a snapshot restore writes or removes
          MaxCrashes,  \* bound: deaths of the process
          MaxEvents    \* bound: restores, choices and what others do

ASSUME BoundsAssumption == Files \in Nat \ {0} /\ {MaxCrashes, MaxEvents} \subseteq Nat

VARIABLES
  state,    \* the row: RUNNING, STOPPED or FAILED
  up,       \* is its container running
  vol,      \* its volume: its memory, and whose settings are in its config
  tar,      \* a one-shot that unpacks into the volume: what, and has it begun
  op,       \* the operation's row
  safe,     \* the copy of how it was: on disk, or a snapshot of the agent
  kept,     \* the copy of an earlier restore, kept because its undo failed
  snap,     \* is the snapshot being restored still in the table
  job,      \* the running request or restart rule: its place, why, files to go
  retried,  \* history: Retry was tapped on a half-restored memory
  landed,   \* history: a write that failed had landed
  crashes, events

agent == <<state, up>>
past  == <<retried, landed>>
vars  == <<agent, vol, tar, op, safe, kept, snap, job, past, crashes, events>>

-----------------------------------------------------------------------------
(* own: the agent's memory as the restore found it.  later: written to by   *)
(* the agent since.  then: that night's or the snapshot's.  half: a mix.    *)
Memories == {"own", "later", "then", "half"}
Volume   == [mem : Memories, conf : {"ours", "theirs"}]
None     == "none"
Nothing  == [mem |-> None, conf |-> "ours"]
OneShot(v) == [src |-> v, begun |-> FALSE]
NoTar    == OneShot(Nothing)
Ended    == [tar EXCEPT !.src = Nothing]
Idle     == [pc |-> "idle", act |-> None, left |-> 0]
At(pc, act) == job' = [pc |-> pc, act |-> act, left |-> 0]
Event    == events < MaxEvents /\ events' = events + 1
World    == <<past, crashes, events>>

Active == op.st \in {"running", "interrupted", "held"}   \* activeOperationFor
Free   == ~Active /\ job = Idle                         \* busyNow lets it through
Backup == op.kind = "backup"

(* Half-restored, and nobody said to run it as it is.                      *)
Ruined == vol.mem = "half" /\ Backup /\ ~retried

Over(out)  == op' = [op EXCEPT !.st = "over", !.out = out]
Step(step) == op' = [op EXCEPT !.step = step]
HoldLater  == UNCHANGED op                                        \* a mutant
Hold       == op' = [op EXCEPT !.st = "held"]

(* The snapshots the operation that is not over names.                     *)
NothingInUse   == {}                                              \* a mutant
SnapshotsInUse == IF Active THEN {"target", "safety"} ELSE {}

-----------------------------------------------------------------------------
(* The machine.  The one-shot empties the volume, then fills it; it may die  *)
(* at any point, and it does not know whether anyone still waits for it.    *)
Unpack ==
  /\ tar.src # Nothing
  /\ \/ /\ ~tar.begun /\ tar' = [tar EXCEPT !.begun = TRUE]
        /\ vol' = [mem |-> "half", conf |-> "theirs"]
     \/ tar.begun /\ tar' = Ended /\ vol' = tar.src
     \/ tar' = Ended /\ UNCHANGED vol
  /\ UNCHANGED <<agent, op, safe, kept, snap, job, World>>

(* The agent writes its memory.                                            *)
OwnWrites ==
  /\ up /\ safe # Nothing /\ Active
  /\ vol' = [vol EXCEPT !.mem = "later"]
  /\ UNCHANGED <<agent, tar, op, safe, kept, snap, job, World>>

(* confirmStopped: stop, look, and remove whatever else writes the volume.  *)
(* Unanswered, each of these may have happened all the same.               *)
ConfirmedDown == up' = FALSE /\ tar' = NoTar
NotConfirmed  == up' \in {up, FALSE} /\ tar' \in {tar, NoTar}

(* restartAfterRestore: a failed start is said, and may have started it.   *)
Restarted ==
  \/ ~op.was /\ UNCHANGED agent
  \/ op.was /\ up' = TRUE /\ state' = "RUNNING"
  \/ op.was /\ up' \in {up, TRUE} /\ UNCHANGED state

-----------------------------------------------------------------------------
(* What else its owner, its machine and the sweep do, while no operation is *)
(* under way or waits for a choice.                                        *)
Start ==
  /\ Free /\ Event /\ state = "STOPPED"
  /\ \/ up' = TRUE /\ state' = "RUNNING"
     \/ up' \in {up, TRUE} /\ UNCHANGED state
  /\ UNCHANGED <<vol, tar, op, safe, kept, snap, job, past, crashes>>

Stop ==
  /\ Free /\ Event /\ state = "RUNNING"
  /\ state' = "STOPPED" /\ up' = FALSE
  /\ UNCHANGED <<vol, tar, op, safe, kept, snap, job, past, crashes>>

(* A rebuild or a start that came to nothing may leave the container up.    *)
Break ==
  /\ Free /\ Event /\ state = "RUNNING"
  /\ state' = "FAILED" /\ up' \in BOOLEAN
  /\ UNCHANGED <<vol, tar, op, safe, kept, snap, job, past, crashes>>

(* Retry provisions again, over whatever the volume holds.                  *)
Retry ==
  /\ Free /\ Event /\ state = "FAILED"
  /\ \/ state' = "RUNNING" /\ up' = TRUE
     \/ up' \in {up, TRUE} /\ UNCHANGED state
  /\ vol' = [vol EXCEPT !.conf = "ours"]
  /\ retried' = (retried \/ vol.mem = "half" \/ tar.src # Nothing)
  /\ UNCHANGED <<tar, op, safe, kept, snap, job, landed, crashes>>

Reconcile ==
  /\ Free
  /\ \/ state = "STOPPED" /\ up /\ state' = "RUNNING"
     \/ state = "RUNNING" /\ ~up /\ state' = "STOPPED"
  /\ UNCHANGED <<up, vol, tar, op, safe, kept, snap, job, World>>

(* Snapshots go: deleted by hand, or pruned as a new one is taken.          *)
Tidy(inUse) ==
  /\ \/ "target" \notin inUse /\ snap /\ snap' = FALSE /\ UNCHANGED safe
     \/ /\ "safety" \notin inUse /\ ~Backup /\ safe # Nothing
        /\ safe' = Nothing /\ UNCHANGED snap
  /\ UNCHANGED <<agent, vol, tar, op, kept, job, World>>
TidySnapshots == Tidy(SnapshotsInUse)

Others == Start \/ Stop \/ Break \/ Retry \/ Reconcile \/ TidySnapshots \/ OwnWrites \/ Unpack

-----------------------------------------------------------------------------
(* What a restore finds is the agent's own from here on, a completed        *)
(* restore's or a mix its owner runs included; a ruined one stays ruined.   *)
Found == [vol EXCEPT !.mem = IF Ruined THEN "half" ELSE "own"]
Begin(kind) ==
  /\ op' = [kind |-> kind, st |-> "running", step |-> None,
            was |-> state = "RUNNING", found |-> Found.mem, out |-> None]
  /\ vol' = Found /\ safe' = Nothing
  /\ retried' = (retried /\ (tar # NoTar \/ vol.conf = "theirs")) /\ landed' = FALSE
  /\ UNCHANGED <<agent, tar, kept, crashes>>

(* restoreAgentFromBackup, restoreSteps.                                   *)
BackupBegin ==
  /\ Free /\ Event
  /\ Begin("backup") /\ At("down", "restore") /\ UNCHANGED snap

StoppedRow  == IF op.was THEN state' = "STOPPED" ELSE UNCHANGED state
BackupDown ==
  /\ job.pc = "down" /\ job.act = "restore"
  /\ \/ ConfirmedDown /\ StoppedRow /\ Step("stopped") /\ At("save", "restore")
     \/ NotConfirmed /\ At("back", "restore") /\ UNCHANGED <<state, op>>
  /\ UNCHANGED <<vol, safe, kept, snap, World>>

ThatNight == [mem |-> "then", conf |-> "theirs"]

(* exportStateToFile: whole on disk or not at all, then the import's        *)
(* one-shot is made.                                                       *)
BackupSave ==
  /\ job.pc = "save" /\ Backup
  /\ \/ /\ safe' = vol /\ Step("safety-taken") /\ At("unpack", "restore")
        /\ tar' = OneShot(ThatNight)
     \/ At("back", "restore") /\ UNCHANGED <<safe, op, tar>>
  /\ UNCHANGED <<agent, vol, kept, snap, World>>

(* How an import ends for whoever waits for it: unpacked; refused before it *)
(* emptied anything (VolumeUntouchedError); failed; failed and perhaps       *)
(* still there (OneShotNotGoneError).                                      *)
Unpacked(m) == tar.src = Nothing /\ tar.begun /\ vol.mem = m /\ UNCHANGED tar
AnyFailure  == tar' = NoTar                                       \* a mutant
Untouched   == ~tar.begun /\ tar' = NoTar
Failed      == tar' = NoTar
NotGone     == tar.src # Nothing /\ UNCHANGED tar

BackupUnpack ==
  /\ job.pc = "unpack" /\ job.act = "restore"
  /\ \/ Unpacked("then") /\ Step("replaced") /\ At("apply", "restore")
     \/ Untouched /\ At("back", "restore") /\ UNCHANGED op
     \/ Failed /\ At("down", "undo") /\ UNCHANGED op
     \/ NotGone /\ At("stop", "undo") /\ UNCHANGED op
  /\ UNCHANGED <<agent, vol, safe, kept, snap, World>>

(* applyCurrentSettingsOver: today's bot, members and model, or it throws.  *)
AppliedOver == vol' = [vol EXCEPT !.conf = "ours"]
BackupApply ==
  /\ job.pc = "apply" /\ job.act = "restore"
  /\ \/ AppliedOver /\ Step("reapplied") /\ At("finish", "restore")
     \/ At("down", "undo") /\ UNCHANGED <<vol, op>>
  /\ UNCHANGED <<agent, tar, safe, kept, snap, World>>

(* rollBack: the copy goes back only into a volume nothing else writes.     *)
UndoDown ==
  /\ job.pc = "down" /\ job.act = "undo"
  /\ \/ up' = FALSE /\ tar' = OneShot(safe) /\ At("unpack", "undo")
     \/ NotConfirmed /\ At("stop", "undo")
  /\ UNCHANGED <<state, vol, op, safe, kept, snap, World>>

UndoUnpack ==
  /\ job.pc = "unpack" /\ job.act = "undo"
  /\ \/ Unpacked(safe.mem) /\ At("back", "undo")
     \/ (Failed \/ NotGone) /\ At("stop", "undo")
  /\ UNCHANGED <<agent, vol, op, safe, kept, snap, World>>

GiveUp ==
  /\ job.pc = "stop" /\ up' \in {up, FALSE}
  /\ state' = "FAILED" /\ Over("failed") /\ job' = Idle
  /\ kept' = (kept \/ op.found = "own") /\ safe' = Nothing
  /\ UNCHANGED <<vol, tar, snap, World>>

(* The last of it: started again if it ran, the copy dropped, and said.     *)
Back ==
  /\ job.pc = "back" /\ Restarted
  /\ safe' = Nothing /\ Over("back") /\ job' = Idle
  /\ UNCHANGED <<vol, tar, kept, snap, World>>

CompleteRestore ==
  /\ job.pc = "finish" /\ Restarted
  /\ safe' = Nothing /\ Over("done") /\ job' = Idle
  /\ UNCHANGED <<vol, tar, kept, snap, World>>

-----------------------------------------------------------------------------
(* restoreSnapshot: its files are written one by one into the running agent. *)
SnapshotBegin ==
  /\ Free /\ Event /\ state = "RUNNING"
  /\ Begin("snapshot") /\ At("save", "restore") /\ snap' = TRUE

(* captureSnapshot: the safety copy, and automatic ones beyond the limit go. *)
Pruned(inUse) == snap' \in IF "target" \in inUse THEN {snap} ELSE {snap, FALSE}
SnapshotSave ==
  /\ job.pc = "save" /\ ~Backup
  /\ \/ /\ up /\ safe' = vol /\ Step("safety-taken") /\ Pruned(SnapshotsInUse)
        /\ job' = [pc |-> "write", act |-> "restore", left |-> Files]
     \/ Over("back") /\ job' = Idle /\ UNCHANGED <<safe, snap>>
  /\ UNCHANGED <<agent, vol, tar, kept, World>>

(* What the files are once one more of them is m's.  What the agent wrote   *)
(* meanwhile may be in a file still to be written, or in one that was.      *)
Reached(m) ==
  IF vol.mem = m THEN {m}
  ELSE IF job.left = 1 THEN {m} \cup ({vol.mem} \cap {"later"})
  ELSE {IF vol.mem = "later" THEN "later" ELSE "half"}
Wrote(m) == \E now \in Reached(m) : vol' = [vol EXCEPT !.mem = now]
Goal     == IF job.act = "revert" THEN op.found ELSE "then"

WriteFile ==
  /\ job.pc = "write" /\ (up \/ state = "STOPPED") /\ Wrote(Goal)
  /\ \/ job.left > 1 /\ job' = [job EXCEPT !.left = @ - 1] /\ UNCHANGED op
     \/ /\ job.left = 1 /\ job' = Idle
        /\ Over(IF job.act = "revert" THEN "back" ELSE "done")
  /\ UNCHANGED <<agent, tar, safe, kept, snap, World>>

(* A write that fails; its connection may have been lost once it had landed. *)
WriteFails ==
  /\ job.pc = "write" /\ job' = Idle
  /\ \/ UNCHANGED <<vol, landed>>
     \/ Wrote(Goal) /\ landed' = TRUE
  /\ IF job.act = "restore" THEN Over(IF job.left = Files THEN "back" ELSE "failed")
                            ELSE UNCHANGED op
  /\ UNCHANGED <<agent, tar, safe, kept, snap, retried, crashes, events>>

-----------------------------------------------------------------------------
(* After a restart: resumeBackupRestore and resumeSnapshotRestore.          *)
OnceReplaced == {"replaced"}                                      \* a mutant
HoldsFrom    == {"safety-taken", "replaced"}
Resume ==
  /\ op.st = "interrupted" /\ job = Idle
  /\ \/ Backup /\ op.step \notin HoldsFrom \cup {"reapplied"} /\ At("back", "resume") /\ UNCHANGED op
     \/ Backup /\ op.step = "reapplied" /\ At("finish", "resume") /\ UNCHANGED op
     \/ Backup /\ op.step \in HoldsFrom /\ At("down", "hold") /\ UNCHANGED op
     \/ ~Backup /\ op.step = None /\ Over("back") /\ UNCHANGED job
     \/ ~Backup /\ op.step # None /\ At("read", "resume") /\ UNCHANGED op
  /\ UNCHANGED <<agent, vol, tar, safe, kept, snap, World>>

(* What may be half-restored must not run: held, confirmed down or not.     *)
HoldDown ==
  /\ job.pc = "down" /\ job.act = "hold"
  /\ \/ ConfirmedDown /\ state' = IF state = "RUNNING" THEN "STOPPED" ELSE state
     \/ NotConfirmed /\ UNCHANGED state
  /\ Hold /\ job' = Idle
  /\ UNCHANGED <<vol, safe, kept, snap, World>>

(* What the files hold now decides; a mix, or no answer, is held.           *)
ReadFiles ==
  /\ job.pc = "read" /\ job' = Idle
  /\ \/ snap /\ vol.mem = "then" /\ Over("done")
     \/ safe # Nothing /\ vol.mem = safe.mem /\ Over("back")
     \/ Hold
  /\ UNCHANGED <<agent, vol, tar, safe, kept, snap, World>>

(* The owner's choice (recoverBackupRestore, recoverSnapshotRestore).  While *)
(* it is carried out the operation stays held, and so it does if it fails.  *)
Choices == {"finish", "put-back"}
Choose ==
  /\ op.st = "held" /\ job = Idle /\ Event
  /\ \/ Backup /\ \E act \in Choices : At("down", act)
     \/ ~Backup /\ snap /\ job' = [pc |-> "write", act |-> "finish", left |-> Files]
     \/ ~Backup /\ safe # Nothing /\ job' = [pc |-> "write", act |-> "revert", left |-> Files]
  /\ UNCHANGED <<agent, vol, tar, op, safe, kept, snap, past, crashes>>

(* The copy may be days old: whose settings it holds is not asked of it.    *)
Chosen(act) == IF act = "finish" THEN ThatNight ELSE [safe EXCEPT !.conf = "theirs"]
ChoiceDown ==
  /\ job.pc = "down" /\ job.act \in Choices
  /\ \/ /\ up' = FALSE /\ tar' = OneShot(Chosen(job.act))
        /\ At("unpack", job.act)
     \/ NotConfirmed /\ job' = Idle
  /\ UNCHANGED <<state, vol, op, safe, kept, snap, World>>

ChoiceUnpack ==
  /\ job.pc = "unpack" /\ job.act \in Choices
  /\ \/ /\ Unpacked(Chosen(job.act).mem) /\ At("apply", job.act)
        /\ IF job.act = "finish" THEN Step("replaced") ELSE UNCHANGED op
     \/ (Failed \/ NotGone) /\ job' = Idle /\ UNCHANGED op
  /\ UNCHANGED <<agent, vol, safe, kept, snap, World>>

ChoiceApply ==
  /\ job.pc = "apply" /\ job.act \in Choices
  /\ \/ /\ AppliedOver
        /\ \/ job.act = "finish" /\ Step("reapplied") /\ At("finish", "finish")
           \/ job.act = "put-back" /\ At("back", "put-back") /\ UNCHANGED op
     \/ job' = Idle /\ UNCHANGED <<vol, op>>
  /\ UNCHANGED <<agent, tar, safe, kept, snap, World>>

-----------------------------------------------------------------------------
(* The process dies; the call it was in may still take effect.              *)
Crash ==
  /\ crashes < MaxCrashes /\ crashes' = crashes + 1
  /\ job.pc # "dead" /\ job' = [Idle EXCEPT !.pc = "dead"]
  /\ \/ UNCHANGED <<up, vol>>
     \/ job.pc \in {"down", "stop"} /\ up' = FALSE /\ UNCHANGED vol
     \/ job.pc \in {"back", "finish"} /\ op.was /\ up' = TRUE /\ UNCHANGED vol
     \/ job.pc = "write" /\ Wrote(Goal) /\ UNCHANGED up
     \/ job.pc = "apply" /\ AppliedOver /\ UNCHANGED up
  /\ UNCHANGED <<state, tar, op, safe, kept, snap, past, events>>

(* markInterrupted: before anything else reads the rows.                    *)
Boot ==
  /\ job.pc = "dead" /\ job' = Idle
  /\ op' = [op EXCEPT !.st = IF @ = "running" THEN "interrupted" ELSE @]
  /\ UNCHANGED <<agent, vol, tar, safe, kept, snap, World>>

Restoring == BackupDown \/ BackupSave \/ BackupUnpack \/ BackupApply
Undoing   == UndoDown \/ UndoUnpack \/ GiveUp
Writing   == SnapshotSave \/ WriteFile \/ WriteFails
Settling  == Resume \/ HoldDown \/ ReadFiles
Choosing  == ChoiceDown \/ ChoiceUnpack \/ ChoiceApply
Ending    == Back \/ CompleteRestore
Own       == Restoring \/ Undoing \/ Writing \/ Settling \/ Choosing \/ Ending

Init ==
  /\ state \in {"RUNNING", "STOPPED", "FAILED"}
  /\ up \in BOOLEAN /\ (state # "FAILED" => (up <=> state = "RUNNING"))
  /\ vol = [mem |-> "own", conf |-> "ours"] /\ tar = NoTar
  /\ op = [kind |-> "backup", st |-> "over", step |-> None, was |-> FALSE,
           found |-> "own", out |-> None]
  /\ safe = Nothing /\ kept = FALSE /\ snap = TRUE /\ job = Idle
  /\ retried = FALSE /\ landed = FALSE /\ crashes = 0 /\ events = 0

Next == Others \/ BackupBegin \/ SnapshotBegin \/ Choose \/ Own \/ Crash \/ Boot

(* A call the process waits for ends, by its time limit at the latest; what *)
(* is interrupted is settled at boot or by the ten-minute pass.             *)
Spec == Init /\ [][Next]_vars /\ WF_vars(Own)
-----------------------------------------------------------------------------
Places == {"dead", "idle", "down", "save", "unpack", "apply", "stop", "back", "finish",
           "write", "read"}
Acts   == {None, "restore", "undo", "resume", "hold", "revert"} \cup Choices
TarRow == [src : Volume \cup {Nothing}, begun : BOOLEAN]
OpRow  == [kind : {"backup", "snapshot"}, st : {"over", "running", "interrupted", "held"},
           step : {None, "stopped", "safety-taken", "replaced", "reapplied"},
           was : BOOLEAN, found : {"own", "half"}, out : {None, "back", "done", "failed"}]
JobRow == [pc : Places, act : Acts, left : 0..Files]
TypeOK ==
  /\ state \in {"RUNNING", "STOPPED", "FAILED"} /\ up \in BOOLEAN
  /\ vol \in Volume /\ tar \in TarRow /\ op \in OpRow /\ job \in JobRow
  /\ safe \in Volume \cup {Nothing} /\ kept \in BOOLEAN /\ snap \in BOOLEAN
  /\ retried \in BOOLEAN /\ landed \in BOOLEAN
  /\ crashes \in 0..MaxCrashes /\ events \in 0..MaxEvents

(* "Booting it would run a half-written (and possibly too-open) config":    *)
(* whatever fails, dies or unpacks on, the agent runs on no half-restored   *)
(* memory and under no other night's access, unless its owner tapped Retry   *)
(* on one that is marked failed for it.                                    *)
RunsWhole == up /\ ~retried => ~Ruined /\ vol.conf = "ours"

(* While a memory is half-restored a copy of how it was exists, and a held  *)
(* restore has the copies its choices need.                                *)
WayBack ==
  /\ Ruined => kept \/ (safe # Nothing /\ safe.mem = "own")
  /\ Active /\ ~Backup /\ vol.mem = "half" /\ ~retried => safe # Nothing
  /\ op.st = "held" => safe # Nothing /\ (Backup \/ snap)

MarkedFailed == state = "FAILED" /\ kept

(* The outcome is what happened: "restored" is that night's memory under    *)
(* today's settings, "as it was" is as it was, "failed" is marked so and     *)
(* its copy kept.  The agent may have written since.  A write of a snapshot's *)
(* file that failed after it had landed is reported as nothing changed.     *)
SaysWhatIs ==
  [][Active /\ op'.st = "over" =>
      \/ retried \/ landed'
      \/ op'.out = "done" /\ vol'.mem \in {"then", "later"} /\ vol'.conf = "ours"
      \/ op'.out = "back" /\ (vol'.mem \in {op.found, "later"} \/ MarkedFailed')
      \/ op'.out = "failed" /\ (Backup => MarkedFailed')]_vars

(* Once the process stays up, a restore that runs or was cut off ends or is  *)
(* held for its owner.                                                     *)
RestoreEnds ==
  <>[](job.pc # "dead") =>
    (op.st \in {"running", "interrupted"} ~> op.st \in {"over", "held"})
=============================================================================
