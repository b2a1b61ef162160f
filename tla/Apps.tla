-------------------------------- MODULE Apps --------------------------------
(***************************************************************************)
(* The app in an agent (orchestrator/apps.ts): installed, updated or rolled *)
(* back as an operation on disk (orchestrator/appOperations.ts), stopped    *)
(* without one.  An app is right when four things agree: Hatchabot's record *)
(* of its release, the `current` link on the agent's volume, the            *)
(* configuration beside it, and the scheduled tasks that run its commands.  *)
(* A change touches them one call at a time, any of which may fail, or land *)
(* and answer an error, and the process may die between any two.            *)
(*                                                                         *)
(* A step is what runs between two awaits; what is done before the switch   *)
(* touches nothing live and is one step.                                    *)
(***************************************************************************)
EXTENDS Naturals, FiniteSets

CONSTANTS
  Releases,    \* the commits an app may be at
  AppOf,       \* the app a release is of
  TasksOf,     \* the scheduled tasks of its manifest, by job name
  Configured,  \* the releases whose manifest has a configuration
  Installed,   \* bound: the releases an agent may begin with, and those before
  Copies,      \* bound: tells apart jobs that are the same otherwise
  MaxRequests, \* bound: what the owner asks for
  MaxFaults,   \* bound: calls that fail, or answer an error
  MaxDeaths,   \* bound: deaths of the process
  Windows      \* the ways, of six, in which the code is known to go wrong:
  \*  "clearing"  the tasks of a replaced app do not all come off
  \*  "both"      "Use the new one" while the replaced app's tasks run
  \*  "renamed"   a death while a task the owner turned off has no job
  \*  "recorded"  a death once the release is recorded, its choices still offered
  \*  "cleared"   a death once the staging folder is gone, with no outcome yet
  \*  "twice"     a put-back that fails, or dies, with a task there twice

None == "none"

ASSUME ReleasesAssumption ==
  /\ None \notin Releases /\ Configured \subseteq Releases
  /\ \A r \in Releases : AppOf[r] # None /\ IsFiniteSet(TasksOf[r])
  /\ \A r, s \in Releases : AppOf[r] # AppOf[s] => TasksOf[r] \cap TasksOf[s] = {}
ASSUME InstalledAssumption ==
  \A i \in Installed : /\ i \in (Releases \cup {None}) \X (Releases \cup {None})
                       /\ i[2] # None => i[1] # None /\ AppOf[i[1]] = AppOf[i[2]]
ASSUME BoundsAssumption ==
  0 \in Copies /\ Copies \subseteq Nat /\ {MaxRequests, MaxFaults, MaxDeaths} \subseteq Nat
ASSUME WindowsAssumption ==
  Windows \subseteq {"clearing", "both", "renamed", "recorded", "cleared", "twice"}

VARIABLES
  record,  \* the agent_apps row: its release, and the one before
  link,    \* per app, the release its `current` link points at
  cfg,     \* per app, its live configuration
  stage,   \* the staging folder: the configuration to go in, the one kept aside
  jobs,    \* the agent's scheduled jobs
  op,      \* the newest app operation's row
  asked,   \* a request whose release is still being fetched
  proc,    \* the process: its place, and its local variables
  want,    \* history: per app, the configuration of its last change that held
  offs,    \* history: the record's tasks that the owner has turned off
  doubt,   \* history: the apps whose owner was told to look for themselves
  left     \* bounds: the requests, faults and deaths to come

live == <<link, cfg, stage>>
past == <<want, offs, doubt>>
vars == <<record, live, jobs, op, asked, proc, past, left>>

(* What a step may change beside the process and the bounds.               *)
Nothing    == UNCHANGED <<record, live, jobs, op, asked, past>>
TheRow     == UNCHANGED <<record, live, jobs, asked, past>>
TheVolume  == UNCHANGED <<record, jobs, op, asked, past>>
TheJobs    == UNCHANGED <<record, live, op, asked, past>>

-----------------------------------------------------------------------------
Apps     == {AppOf[r] : r \in Releases}
Names    == UNION {TasksOf[r] : r \in Releases}
Maybe    == Releases \cup {None}
App(r)   == IF r = None THEN None ELSE AppOf[r]
Tasks(r) == IF r = None THEN {} ELSE TasksOf[r]
Named(N) == {j \in jobs : j.name \in N}
Times(n) == Cardinality(Named({n}))

(* A configuration is one of two; a change stages the other one.           *)
Configs  == {"c0", "c1"}
OtherConfig(c) == IF c = "c0" THEN "c1" ELSE "c0"
NoStage  == [new |-> None, prev |-> None]
Noted(c) == IF c = None THEN "nofile" ELSE c      \* prev, or a note of no file
File(c)  == IF c = "nofile" THEN None ELSE c

(* operations.ts: the step of the app kinds that the restart rule asks for, *)
(* the row of the agent's newest one, and what keeps all else off it.      *)
Switching == 1
Kinds     == {None, "install", "update", "rollback"}
Callers   == {None, "install", "rollback", "use", "goback", "undo", "early", "choice"}
Points    == {"idle", "clear", "stopping", "goclear", "prepare", "switch", "back", "drop",
              "outcome", "list", "sync", "undo", "readd", "check", "clean", "record",
              "landed", "gone", "done", "rolled", "rollback", "swap", "pointback",
              "use", "uselink", "go", "golink"}
Running   == op.st = "running"
Active    == op.st # "over"                               \* activeOperationFor
Idle      == [pc |-> "idle", ret |-> None, was |-> None, old |-> {}, err |-> None]
Free      == ~Active /\ proc = Idle                                 \* busyNow

To       == AppOf[op.to]
Same(r)  == App(r) = To
Held(c)  == op' = [op EXCEPT !.st = "held", !.choices = c]
Over     == op' = [op EXCEPT !.st = "over", !.choices = None]
At(pc)   == proc' = [proc EXCEPT !.pc = pc]
Ends(e)  == proc' = [proc EXCEPT !.pc = "outcome", !.err = e]
Request  == left.requests > 0 /\ left' = [left EXCEPT !.requests = @ - 1]
Fine     == UNCHANGED left
Fault    == left.faults > 0 /\ left' = [left EXCEPT !.faults = @ - 1]
FaultIf(c) == (c /\ Fault) \/ (~c /\ Fine)
Told(r)  == doubt \cup ({App(r)} \ {None})

-----------------------------------------------------------------------------
(* The requests.  A release is fetched first, which may take minutes; what  *)
(* was there when it was asked is compared once the agent is the request's  *)
(* (appStillAsWas).  One slow fetch is followed; the others are at once.    *)
NotAsked == [kind |-> None, to |-> None, had |-> None, fresh |-> FALSE]
Stale    == asked' = [asked EXCEPT !.fresh = FALSE]

Ask(kind, to) ==
  /\ Free /\ asked.kind = None /\ Request
  /\ kind = "update" => App(record.rel) = AppOf[to]
  /\ asked' = [kind |-> kind, to |-> to, had |-> record.rel, fresh |-> TRUE]
  /\ UNCHANGED <<record, live, jobs, op, proc, past>>

Refused ==
  /\ asked.kind # None /\ (Free => ~asked.fresh)
  /\ asked' = NotAsked
  /\ UNCHANGED <<record, live, jobs, op, proc, past, left>>

Begin(kind, to, had) ==
  LET same == App(had) = AppOf[to]
      repl == IF same THEN None ELSE had
  IN  /\ op' = [kind |-> kind, to |-> to, from |-> IF same THEN had ELSE None,
                repl |-> repl, step |-> 0, st |-> "running", choices |-> None,
                off |-> {j.name : j \in {i \in Named(Tasks(repl)) : ~i.on}},
                conf |-> OtherConfig(cfg[AppOf[to]])]
      /\ proc' = [Idle EXCEPT !.pc = IF kind = "rollback" THEN "rollback"
                                     ELSE IF repl = None THEN "prepare" ELSE "clear"]

Anyway  == TRUE                                                   \* a mutant
AsItWas == asked.fresh

Fetched ==
  /\ asked.kind # None /\ Free /\ AsItWas
  /\ Begin(asked.kind, asked.to, asked.had)
  /\ asked' = NotAsked /\ UNCHANGED <<record, live, jobs, past, left>>

Change(kind, to) ==
  /\ Free /\ Request
  /\ kind = "update" => App(record.rel) = AppOf[to]
  /\ Begin(kind, to, record.rel)
  /\ UNCHANGED <<record, live, jobs, asked, past>>

RollBack == record.prev # None /\ Change("rollback", record.prev)

(* Stop app: no operation, only the busy flag.                             *)
StopApp ==
  /\ Free /\ record.rel # None /\ Request
  /\ At("stopping") /\ Nothing

Stopped ==
  /\ proc.pc = "stopping" /\ Named(Tasks(record.rel)) = {}
  /\ record' = [rel |-> None, prev |-> None] /\ Stale
  /\ offs' = {} /\ proc' = Idle
  /\ UNCHANGED <<live, jobs, op, want, doubt, left>>

(* The owner turns one of the app's tasks off, or on again.                *)
Toggle(j) ==
  /\ Free /\ Request /\ j.name \in Tasks(record.rel)
  /\ jobs' = (jobs \ {j}) \cup {[j EXCEPT !.on = ~@]}
  /\ offs' = IF j.on THEN offs \cup {j.name} ELSE offs \ {j.name}
  /\ UNCHANGED <<record, live, op, asked, proc, want, doubt>>

-----------------------------------------------------------------------------
(* removeTasks: of the app another one replaces, of the one being stopped,  *)
(* of the one gone back from.  Each job is tried; a fresh list decides.     *)
OnceLeft == CASE proc.pc = "clear" -> op.repl                     \* a mutant
              [] proc.pc = "stopping" -> record.rel [] OTHER -> None
Leaving == CASE proc.pc = "clear"    -> op.repl
             [] proc.pc = "stopping" -> record.rel
             [] proc.pc = "goclear"  -> op.to
             [] OTHER                -> None

TakeOff(j) ==
  /\ j \in Named(Tasks(Leaving))
  /\ jobs' = jobs \ {j}
  /\ UNCHANGED proc /\ Fine /\ TheJobs

Cleared ==
  /\ Named(Tasks(Leaving)) = {} /\ Fine /\ Nothing
  /\ \/ proc.pc = "clear" /\ At("prepare")
     \/ proc.pc = "goclear" /\ proc' = [proc EXCEPT !.ret = "goback",
                                        !.pc = IF record.rel = None THEN "gone" ELSE "list"]

NotCleared ==
  /\ proc.pc = "clear" => "clearing" \in Windows
  /\ Fault
  /\ \/ proc.pc = "clear" /\ Ends("failed") /\ Nothing
     \/ proc.pc = "goclear" /\ proc' = Idle /\ Nothing
     \/ /\ proc.pc = "stopping" /\ proc' = Idle /\ doubt' = Told(record.rel)
        /\ UNCHANGED <<record, live, jobs, op, asked, want, offs>>

-----------------------------------------------------------------------------
(* installRelease.  The code and the configuration are staged and tested.  *)
Staged == [NoStage EXCEPT !.new = IF op.to \in Configured THEN op.conf ELSE None]

Prepare ==
  /\ proc.pc = "prepare"
  /\ stage' = Staged /\ op' = [op EXCEPT !.step = Switching]
  /\ proc' = [proc EXCEPT !.pc = "switch", !.was = link[To]]
  /\ UNCHANGED <<record, link, cfg, jobs, asked, past, left>>

NotPrepared ==
  /\ proc.pc = "prepare"
  /\ stage' \in {stage, NoStage, Staged} /\ UNCHANGED <<link, cfg>>
  /\ proc' = [proc EXCEPT !.pc = "drop", !.err = "failed"]
  /\ Fine /\ TheVolume

(* The switch is one shell command, which may stop after any of its parts:  *)
(* the old configuration kept aside, the new one moved in, the link moved.  *)
LinkTo(r)  == link' = [link EXCEPT ![To] = r]
KeepAside  == stage' = [stage EXCEPT !.prev = Noted(cfg[To])] /\ UNCHANGED cfg
MoveIn     == /\ stage' = [new |-> None, prev |-> Noted(cfg[To])]
              /\ cfg' = [cfg EXCEPT ![To] = stage.new]
ConfigIn   == IF op.to \in Configured THEN MoveIn ELSE UNCHANGED <<cfg, stage>>

Switch ==
  /\ proc.pc = "switch"
  /\ ConfigIn /\ LinkTo(op.to)
  /\ proc' = [proc EXCEPT !.pc = "list", !.ret = "install"]
  /\ Fine /\ TheVolume

NotSwitched ==
  /\ proc.pc = "switch" /\ Fault
  /\ \/ UNCHANGED live
     \/ op.to \in Configured /\ KeepAside /\ UNCHANGED link
     \/ ConfigIn /\ (LinkTo(op.to) \/ UNCHANGED link)
  /\ proc' = [proc EXCEPT !.pc = "back", !.err = "failed"] /\ TheVolume

(* The put back of a switch that failed, or whose tasks could not be set.   *)
MovedIn   == stage.new = None /\ stage.prev # None
LinkOnly  == UNCHANGED <<cfg, stage>>                             \* a mutant
ConfigOut == IF MovedIn
             THEN /\ cfg' = [cfg EXCEPT ![To] = File(stage.prev)]
                  /\ stage' = [new |-> cfg[To], prev |-> IF stage.prev = "nofile"
                                                         THEN "nofile" ELSE None]
             ELSE UNCHANGED <<cfg, stage>>
CopyOut   == MovedIn /\ stage' = [stage EXCEPT !.new = cfg[To]] /\ UNCHANGED cfg

(* The route's catch: the replaced app's tasks go back on.                 *)
Catch(err) == IF op.repl = None THEN Ends(err)
              ELSE proc' = [proc EXCEPT !.pc = "list", !.ret = "undo", !.err = err]

PutBack ==
  /\ proc.pc = "back"
  /\ ConfigOut /\ LinkTo(proc.was)
  /\ At("drop") /\ Fine /\ TheVolume

NotPutBack ==
  /\ proc.pc = "back" /\ Fault
  /\ ConfigOut \/ CopyOut \/ UNCHANGED <<cfg, stage>>
  /\ LinkTo(proc.was) \/ UNCHANGED link
  /\ Catch("held") /\ TheVolume

(* clearStaging, which never throws: it may have removed nothing.          *)
ClearStaging == UNCHANGED <<link, cfg>> /\ (\/ stage' = NoStage /\ Fine
                                            \/ UNCHANGED stage /\ Fault)

Drop == proc.pc = "drop" /\ ClearStaging /\ Catch(proc.err) /\ TheVolume

(* appOpFailed: held when it could not be put back, failed otherwise.      *)
Outcome ==
  /\ proc.pc = "outcome"
  /\ IF proc.err = "held" THEN Held("switch") ELSE Over
  /\ proc' = Idle /\ Fine /\ TheRow

-----------------------------------------------------------------------------
(* syncTasks: the manifest's jobs go in first, the old ones come off after; *)
(* a failure puts the old ones back.  It serves six callers.                *)
Sync ==
  CASE proc.ret = "install"  -> [m |-> op.to, prev |-> proc.was, off |-> {}]
    [] proc.ret = "rollback" -> [m |-> op.to, prev |-> record.rel, off |-> {}]
    [] proc.ret = "use"      -> [m |-> op.to, off |-> {},
                                 prev |-> IF Same(record.rel) THEN record.rel ELSE None]
    [] proc.ret = "goback" /\ Same(record.rel)
                             -> [m |-> record.rel, prev |-> op.to, off |-> {}]
    [] OTHER                 -> [m |-> record.rel, prev |-> None, off |-> op.off]

Ours     == Named(Tasks(Sync.m) \cup Tasks(Sync.prev))
New      == Ours \ proc.old
Gone     == proc.old \ jobs
Added    == {j.name : j \in New}
AllAdded == Tasks(Sync.m) \subseteq Added

(* Off when every old job of its name was; with none, when it is named.     *)
OffBefore(n) ==
  LET was == {j \in proc.old : j.name = n}
  IN  IF was = {} THEN n \in Sync.off ELSE \A j \in was : ~j.on

Job(n, r, o, k) == [name |-> n, rel |-> r, on |-> o, k |-> k]
Room(n, r, o) == \E k \in Copies : Job(n, r, o, k) \notin jobs \cup proc.old
Another(n, r, o) ==
  Job(n, r, o, CHOOSE k \in Copies : Job(n, r, o, k) \notin jobs \cup proc.old)

List ==
  /\ proc.pc = "list"
  /\ proc' = [proc EXCEPT !.pc = "sync", !.old = Ours] /\ Fine /\ Nothing

(* A call that answers an error may have done what it was asked to.        *)
Answered == (UNCHANGED proc /\ Fine) \/ (At("undo") /\ Fault)

Add(n) ==
  /\ proc.pc = "sync" /\ n \in Tasks(Sync.m) \ Added /\ Room(n, Sync.m, ~OffBefore(n))
  /\ jobs' = jobs \cup {Another(n, Sync.m, ~OffBefore(n))}
  /\ Answered /\ TheJobs

Remove(j) ==
  /\ proc.pc = "sync" /\ AllAdded /\ j \in proc.old \cap jobs
  /\ jobs' = jobs \ {j}
  /\ Answered /\ TheJobs

NotSynced ==
  /\ proc.pc = "sync" /\ (AllAdded => proc.old \cap jobs # {})
  /\ At("undo") /\ Fault /\ Nothing

Synced ==
  /\ proc.pc = "sync" /\ AllAdded /\ proc.old \cap jobs = {}
  /\ proc' = [proc EXCEPT !.old = {},
                !.pc = CASE proc.ret = "install"              -> "clean"
                         [] proc.ret \in {"rollback", "use"} -> "record"
                         [] proc.ret = "goback"               -> "gone"
                         [] OTHER                             -> "check"]
  /\ Fine /\ Nothing

(* Where each caller goes on when its sync failed.  It says what it could   *)
(* not confirm; putTasksBack does not pass that on, it looks again itself.  *)
Quiet == {"undo", "early", "choice"}
SyncFails(unconfirmed) ==
  /\ doubt' = IF unconfirmed /\ proc.ret \notin Quiet THEN Told(Sync.m) ELSE doubt
  /\ IF proc.ret \in {"use", "goback"} THEN proc' = Idle             \* still held
     ELSE proc' = CASE proc.ret = "install"  ->
                         [proc EXCEPT !.old = {}, !.pc = "back", !.err = "failed"]
                    [] proc.ret = "rollback" -> [proc EXCEPT !.old = {}, !.pc = "pointback"]
                    [] OTHER                 -> [proc EXCEPT !.old = {}, !.pc = "check"]
  /\ UNCHANGED <<record, live, jobs, op, asked, want, offs>>

(* Of a put-back, whose look asks for names only.                          *)
LeftTwice == proc.ret \in Quiet /\ \E i, j \in Ours : i # j /\ i.name = j.name

NotListed ==
  /\ proc.pc \in {"list", "undo", "readd"} /\ Fault
  /\ LeftTwice => "twice" \in Windows
  /\ SyncFails(proc.pc # "list")

UndoAdd(j) ==
  /\ proc.pc = "undo" /\ j \in New
  /\ jobs' = jobs \ {j}
  /\ UNCHANGED proc /\ Fine /\ TheJobs

Undone ==       \* a job that would not come off is left, and said
  /\ proc.pc = "undo" /\ FaultIf(New # {})
  /\ New # {} /\ LeftTwice => "twice" \in Windows
  /\ At("readd") /\ Nothing

ToReadd == {j \in Gone : j.name \in Tasks(Sync.prev)}
AllOn(j) == TRUE                                                  \* a mutant
WasOn(j) == j.on

Readd(j) ==
  /\ proc.pc = "readd" /\ j \in ToReadd /\ Room(j.name, Sync.prev, WasOn(j))
  /\ LET again == Another(j.name, Sync.prev, WasOn(j))
     IN  /\ jobs' = jobs \cup {again}
         /\ proc' = [proc EXCEPT !.old = (@ \ {j}) \cup {again}]
  /\ Fine /\ TheJobs

Readded ==
  /\ proc.pc = "readd" /\ FaultIf(ToReadd # {})
  /\ SyncFails(New # {} \/ Gone # {})

(* putTasksBack: a fresh list says whether the record's tasks are on again, *)
(* and those the owner had turned off are off.                             *)
BackOn == /\ \A n \in Tasks(record.rel) : Named({n}) # {}
          /\ \A j \in Named(op.off) : ~j.on

Check ==
  /\ proc.pc = "check"
  /\ \E back \in {BackOn, FALSE} :
       /\ IF back = BackOn THEN Fine ELSE Fault
       /\ CASE proc.ret = "undo"  -> /\ At("outcome") /\ UNCHANGED op
                                     /\ doubt' = IF back THEN doubt ELSE Told(record.rel)
            [] proc.ret = "early" -> /\ UNCHANGED doubt
                                     /\ IF back THEN At("gone") /\ UNCHANGED op
                                        ELSE proc' = Idle /\ Held("tasks")
            [] OTHER              -> /\ UNCHANGED <<op, doubt>>
                                     /\ IF back THEN At("gone") ELSE proc' = Idle
  /\ UNCHANGED <<record, live, jobs, asked, want, offs>>

-----------------------------------------------------------------------------
(* switchTo: a switch that answers an error may have landed; the link, read *)
(* again, decides, and one that cannot be read holds the operation.         *)
Landed(r, then, else) ==                                          \* a mutant
  /\ LinkTo(r) \/ UNCHANGED link
  /\ then /\ (Fine \/ Fault) /\ UNCHANGED <<cfg, stage>> /\ TheVolume
Pointed(r, then, else) ==
  /\ \/ LinkTo(r) /\ then /\ Fine
     \/ (LinkTo(r) \/ UNCHANGED link) /\ else /\ Fault
  /\ UNCHANGED <<cfg, stage>> /\ TheVolume

Sets(caller) == proc' = [proc EXCEPT !.pc = "list", !.ret = caller]

Rollback ==
  /\ proc.pc = "rollback"
  /\ op' = [op EXCEPT !.step = Switching]
  /\ proc' = [proc EXCEPT !.pc = "swap", !.was = link[To]]
  /\ Fine /\ TheRow

Swap ==
  /\ proc.pc = "swap"
  /\ \/ Pointed(op.to, Sets("rollback"), Ends("held"))
     \/ Ends("failed") /\ Fault /\ Nothing

PointBack == proc.pc = "pointback" /\ Pointed(proc.was, Ends("failed"), Ends("held"))

-----------------------------------------------------------------------------
(* The record, once everything else is in place, and the outcome.          *)
Clean ==
  /\ proc.pc \in {"clean", "landed", "gone"} /\ ClearStaging
  /\ At(CASE proc.pc = "clean" -> "record" [] proc.pc = "landed" -> "done"
          [] OTHER -> "rolled")
  /\ TheVolume

Before ==     \* a change of values on the commit it had keeps the one before it
  IF record.rel = op.to /\ (op.kind = "update" \/ (op.kind = "install" /\ proc.ret = "use"))
  THEN record.prev
  ELSE IF Same(record.rel) THEN record.rel ELSE None

Record ==
  /\ proc.pc = "record"
  /\ record' = [rel |-> op.to, prev |-> Before] /\ Stale
  /\ At(IF proc.ret = "use" THEN "landed" ELSE "done")
  /\ Fine /\ UNCHANGED <<live, jobs, op, past>>

Done ==
  /\ proc.pc = "done" /\ Over /\ proc' = Idle
  /\ want' = IF op.kind # "rollback" /\ op.to \in Configured
             THEN [want EXCEPT ![To] = op.conf] ELSE want
  /\ offs' = offs \cap Tasks(record.rel)
  /\ Fine /\ UNCHANGED <<record, live, jobs, asked, doubt>>

RolledBack == proc.pc = "rolled" /\ Over /\ proc' = Idle /\ Fine /\ TheRow

-----------------------------------------------------------------------------
(* The restart rule (resumeAppOperation).  Before the switch nothing live   *)
(* changed; from it on, the volume, the tasks and the record decide.        *)
HasConfig    == op.kind # "rollback" /\ op.to \in Configured
ConfigMoved  == HasConfig /\ stage.prev # None
ConfigStaged == HasConfig /\ stage.new # None
Recorded     == IF Same(record.rel) THEN record.rel ELSE None

(* tasksAre: each of the record's tasks once, and none of the others that a *)
(* sync cut off part way may have left.                                     *)
TasksAre ==
  LET mine   == Tasks(Recorded)
      others == Tasks(record.prev) \cup (IF op.kind = "rollback" THEN {} ELSE Tasks(op.to))
  IN  \A n \in mine \cup others : Times(n) = (IF n \in mine THEN 1 ELSE 0)
TasksOk == Recorded # None => TasksAre

AllIn  == /\ Recorded = op.to /\ link[To] = op.to
          /\ ~ConfigStaged /\ ~ConfigMoved /\ TasksOk
NotYet == link[To] = op.from /\ Recorded = link[To] /\ ~ConfigMoved /\ TasksOk

(* The replaced app's tasks go back on before the staging folder goes.      *)
Undo(caller) == IF op.repl # None /\ record.rel = op.repl
                THEN proc' = [Idle EXCEPT !.pc = "list", !.ret = caller]
                ELSE proc' = [Idle EXCEPT !.pc = "gone"]

Decide ==
  \/ /\ CASE op.step = Switching /\ AllIn -> proc' = [Idle EXCEPT !.pc = "landed"] /\ UNCHANGED op
          [] op.step = Switching /\ ~AllIn /\ ~NotYet -> Held("switch") /\ UNCHANGED proc
          [] OTHER -> Undo("early") /\ UNCHANGED op
     /\ Fine
  \/ Held("retry") /\ UNCHANGED proc /\ Fault

Resume == proc = Idle /\ op.st = "interrupted" /\ Decide /\ TheRow

(* A death, outside the windows that are closed.                           *)
StillOffered == AllIn => op.choices = "switch"
ClearedEarly ==     \* the staging folder is gone, and the row does not say why
  /\ HasConfig /\ stage = NoStage /\ op.step = Switching
  /\ \/ proc.pc = "record" /\ proc.ret = "install"
     \/ proc.err = "failed" /\ (op.from = op.to \/ ~NotYet)
     \/ proc.pc = "rolled" /\ (proc.ret = "goback" \/ op.from = op.to)
     \/ proc.pc = "done" /\ op.from = op.to /\ StillOffered
OffTaskGone ==      \* a task the owner had turned off is between two jobs
  /\ op.repl = None /\ App(record.rel) \notin doubt /\ proc.pc # "stopping"
  /\ \E n \in offs \cap Tasks(record.rel) : Named({n}) = {}
PastRecord ==       \* recorded, and its choices would still be on offer
  /\ Active /\ record.rel = op.to /\ op.from # op.to
  /\ StillOffered

AsRunning == op                                                   \* a mutant
CutOff == [op EXCEPT !.st = IF Running THEN "interrupted" ELSE @]   \* markInterrupted

Die ==
  /\ left.deaths > 0 /\ left' = [left EXCEPT !.deaths = @ - 1]
  /\ proc # Idle
  /\ ClearedEarly => "cleared"  \in Windows
  /\ OffTaskGone  => "renamed"  \in Windows
  /\ PastRecord   => "recorded" \in Windows
  /\ LeftTwice    => "twice"    \in Windows
  /\ op' = CutOff /\ proc' = Idle /\ asked' = NotAsked
  /\ doubt' = IF proc.pc = "stopping" THEN Told(record.rel) ELSE doubt
  /\ UNCHANGED <<record, live, jobs, want, offs>>

-----------------------------------------------------------------------------
(* The owner's choice on a held change (recoverAppOperation).  It stays     *)
(* held, with its choices, until the one made is through.                   *)
BothRun == op.repl # None /\ Named(Tasks(op.repl)) # {}

UseNew       == /\ BothRun => "both" \in Windows
                /\ proc' = [Idle EXCEPT !.pc = "use"] /\ UNCHANGED op /\ Fine
GoBack       == proc' = [Idle EXCEPT !.pc = "go"] /\ UNCHANGED op /\ Fine
PutTasksBack == Undo("choice") /\ UNCHANGED op /\ Fine

Choose ==
  /\ proc = Idle /\ op.st = "held"
  /\ \/ op.choices = "switch" /\ (UseNew \/ GoBack)
     \/ op.choices = "tasks" /\ PutTasksBack
     \/ op.choices = "retry" /\ Decide
  /\ TheRow

(* useNew: the configuration that is still staged, the link, the tasks.     *)
UseConfig ==
  /\ proc.pc = "use" /\ UNCHANGED link /\ TheVolume
  /\ LET aside == IF stage.prev = None THEN Noted(cfg[To]) ELSE stage.prev
         in    == /\ cfg' = [cfg EXCEPT ![To] = stage.new]
                  /\ stage' = [new |-> None, prev |-> aside]
     IN  \/ /\ IF ConfigStaged THEN in ELSE UNCHANGED <<cfg, stage>>
            /\ At("uselink") /\ Fine
         \/ /\ ConfigStaged /\ proc' = Idle /\ Fault
            /\ in \/ (stage' = [stage EXCEPT !.prev = aside] /\ UNCHANGED cfg)

UseLink == proc.pc = "uselink" /\ Pointed(op.to, Sets("use"), proc' = Idle)

(* goBack: the configuration kept aside (it stays there), the link, and the *)
(* tasks the record says.                                                   *)
GoConfig ==
  /\ proc.pc = "go" /\ UNCHANGED link /\ TheVolume
  /\ LET copy == stage' = [stage EXCEPT !.new = IF @ = None THEN cfg[To] ELSE @]
         out  == copy /\ cfg' = [cfg EXCEPT ![To] = File(stage.prev)]
     IN  \/ /\ IF ConfigMoved THEN out ELSE UNCHANGED <<cfg, stage>>
            /\ At("golink") /\ Fine
         \/ /\ ConfigMoved /\ proc' = Idle /\ Fault
            /\ out \/ (copy /\ UNCHANGED cfg)

GoLink == proc.pc = "golink" /\ Pointed(op.from,
            IF Same(record.rel) THEN Sets("goback") ELSE At("goclear"), proc' = Idle)

-----------------------------------------------------------------------------
(* An agent with no app, or with one that was installed and perhaps updated. *)
Init ==
  /\ \E i \in Installed : record = [rel |-> i[1], prev |-> i[2]]
  /\ link = [a \in Apps |-> IF a = App(record.rel) THEN record.rel ELSE None]
  /\ cfg = [a \in Apps |-> IF link[a] \in Configured THEN "c0" ELSE None]
  /\ stage = NoStage /\ jobs = {Job(n, record.rel, TRUE, 0) : n \in Tasks(record.rel)}
  /\ op = [kind |-> None, to |-> None, from |-> None, repl |-> None, step |-> 0,
           st |-> "over", choices |-> None, off |-> {}, conf |-> None]
  /\ asked = NotAsked /\ proc = Idle
  /\ want = cfg /\ offs = {} /\ doubt = {}
  /\ left = [requests |-> MaxRequests, faults |-> MaxFaults, deaths |-> MaxDeaths]

Owner ==
  \/ \E kind \in {"install", "update"}, r \in Releases : Ask(kind, r) \/ Change(kind, r)
  \/ RollBack \/ StopApp \/ Choose \/ \E j \in jobs : Toggle(j)

Removing   == Cleared \/ NotCleared \/ Stopped \/ \E j \in jobs : TakeOff(j)
Installing == Prepare \/ NotPrepared \/ Switch \/ NotSwitched \/ PutBack \/ NotPutBack
              \/ Drop \/ Outcome
Syncing    == \/ List \/ NotListed \/ NotSynced \/ Synced \/ Undone \/ Readded \/ Check
              \/ \E n \in Names : Add(n)
              \/ \E j \in jobs : Remove(j) \/ UndoAdd(j)
              \/ \E j \in proc.old : Readd(j)
Choosing == Rollback \/ Swap \/ PointBack \/ UseConfig \/ UseLink \/ GoConfig \/ GoLink
Ending     == Clean \/ Record \/ Done \/ RolledBack

Step == Removing \/ Installing \/ Syncing \/ Choosing \/ Ending

(* The owner may ask for nothing more.                                     *)
Rest ==
  /\ proc = Idle /\ ~Active /\ asked.kind = None /\ left.requests = 0
  /\ UNCHANGED vars

Next == Owner \/ Fetched \/ Refused \/ Step \/ Resume \/ Die \/ Rest

(* Every call to a machine has a timeout, and the restart rule runs at boot *)
(* and every ten minutes after.  Nothing is promised of the owner.          *)
Fairness == WF_vars(Step) /\ WF_vars(Resume)
Spec == Init /\ [][Next]_vars /\ Fairness

-----------------------------------------------------------------------------
(* Every variable stays in its type.                                       *)
Task     == [name : Names, rel : Releases, on : BOOLEAN, k : Copies]
Config   == Configs \cup {None}
OpRow    == [kind : Kinds, to : Maybe, from : Maybe, repl : Maybe, step : 0..Switching,
             st : {"running", "interrupted", "held", "over"},
             choices : {None, "switch", "tasks", "retry"}, off : SUBSET Names, conf : Config]
TypeOK ==
  /\ record \in [rel : Maybe, prev : Maybe]
  /\ link \in [Apps -> Maybe] /\ cfg \in [Apps -> Config]
  /\ stage \in [new : Config, prev : Config \cup {"nofile"}]
  /\ jobs \subseteq Task
  /\ op \in OpRow
  /\ asked \in [kind : Kinds, to : Maybe, had : Maybe, fresh : BOOLEAN]
  /\ proc \in [pc : Points, ret : Callers, was : Maybe, old : SUBSET Task,
               err : {None, "failed", "held"}]
  /\ want \in [Apps -> Config] /\ offs \subseteq Names /\ doubt \subseteq Apps
  /\ left \in [faults : Nat, deaths : Nat, requests : Nat]

Settled == proc = Idle /\ ~Active

(* Once a change is over, with its owner told that all is well, the link is *)
(* at the recorded release, each of its tasks runs once, and nothing else   *)
(* of any app does, whatever call failed and wherever the process died.     *)
Agrees ==
  LET a == App(record.rel) IN
  Settled /\ a \notin doubt =>
    /\ record.rel # None => link[a] = record.rel
    /\ \A n \in Tasks(record.rel) : Times(n) = 1
    /\ \A j \in jobs : j.rel = record.rel \/ App(j.rel) \in doubt

(* "Never two apps on one mailbox": the tasks of two apps never run at      *)
(* once, not even while one takes the other's place or gives it back.       *)
OneApp ==
  \A i, j \in jobs :
    App(i.rel) # App(j.rel) => {App(i.rel), App(j.rel)} \cap doubt # {}

(* A change that failed, was rolled back by a restart or was gone back from *)
(* leaves the configuration as the last change that held wrote it.          *)
ConfigKept == Settled => cfg = want

(* A task the owner has turned off is never on again by itself: not by an   *)
(* update that schedules it anew, nor by the put-back of one that failed.   *)
AsTheOwnerLeftIt ==
  Settled /\ App(record.rel) \notin doubt =>
    \A j \in Named(Tasks(record.rel)) : j.on <=> j.name \notin offs

(* The record names a release only once the link is at it and every one of  *)
(* its tasks is on the agent, so that the restart rule may go by it.        *)
RecordIsTrue ==
  [][record'.rel # record.rel /\ record'.rel # None =>
       /\ link[App(record'.rel)] = record'.rel
       /\ \A n \in Tasks(record'.rel) : \E j \in jobs : j.name = n]_vars

(* "Until the switch nothing live changes": the link and the configuration  *)
(* change only under an operation that says it is switching, or a restart   *)
(* would tell its owner that nothing had.                                   *)
NothingBefore ==
  [][link' # link \/ cfg' # cfg => Active /\ op.step = Switching]_vars

(* A change ends, or is held for its owner's choice, whatever fails.       *)
ChangeSettles == Active ~> ~Active \/ (op.st = "held" /\ proc = Idle)
=============================================================================
