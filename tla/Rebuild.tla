------------------------------ MODULE Rebuild -------------------------------
(***************************************************************************)
(* A change that only a new container picks up: the rebuild queue           *)
(* (kickRebuild), the rebuild itself (rebuildAgent), the handover of a bot, *)
(* the change that waits for a stopped agent's next start (rebuildOnStart), *)
(* the retry of a failed setup, and what a restart makes of each            *)
(* (operationsResume.ts, reconcile.ts).                                     *)
(*                                                                          *)
(* One agent.  Its settings and its bot are numbered as they change, and    *)
(* the container remembers which ones it was made from.  A step is what     *)
(* runs between two awaits; lock is the busy flag and says who holds it.    *)
(***************************************************************************)
EXTENDS Naturals

CONSTANTS MaxSwaps,    \* bound: bots given back
          MaxChanges,  \* bound: settings changed
          MaxCrashes,  \* bound: deaths of the process
          MaxEvents    \* bound: all that comes from outside, these included

ASSUME BoundsAssumption == {MaxSwaps, MaxChanges, MaxCrashes, MaxEvents} \subseteq Nat

VARIABLES
  state, bot, conf, owed,  \* the rows: its state, its bot, its settings, rebuildOnStart
  up, made,                \* its container: running, and what it was made from
  lock,                    \* who holds the busy flag
  task,                    \* the build in flight: its place, kind, the state it was asked in, its spec
  follow,                  \* a rebuild follows the one in flight
  hand,                    \* a bot's handover: its place, the agent's state before it
  old,                     \* operations of a process that died, not settled yet
  refused,                 \* renderRefusedRecently
  told,                    \* history: the last change was said not to have landed
  order,                   \* history: its owner's last order, "up" or "down"
  slip,                    \* history: the gaps met (GapIf)
  crashes, events

row  == <<state, bot, conf, owed>>
box  == <<up, made>>
hist == <<told, order, slip>>
vars == <<row, box, lock, task, follow, hand, old, refused, hist, crashes, events>>
-----------------------------------------------------------------------------
Settled == {"RUNNING", "STOPPED"}
Row     == [bot |-> bot, conf |-> conf]
NoTask  == [pc |-> "none", kind |-> "rebuild", was |-> "RUNNING", spec |-> [bot |-> 0, conf |-> 0]]
Idle    == [pc |-> "idle", was |-> "RUNNING"]
Inflight    == task # NoTask
Interrupted == \E o \in old : o.st # "queued"        \* activeOperationFor
Free        == lock = "free"
Event       == events < MaxEvents /\ events' = events + 1

(* Of a dead process: a rebuild that had not touched its container.  It is  *)
(* queued again at boot, after the boot's reconcile has put the row right and *)
(* before any request is served (index.ts: bootReconcile, app.listen).      *)
Untouched(o) == o.kind = "rebuild" /\ (o.st = "queued" \/ (o.st = "cut" /\ state \in Settled))
Drift   == Free /\ ~Interrupted /\ state \in Settled /\ up # (state = "RUNNING")
Request == Event /\ ~Drift /\ \A o \in old : ~Untouched(o)
Queued(was) == [NoTask EXCEPT !.pc = "queued", !.was = was]

(* The task is over, the agent in state s; the rebuild that follows it is   *)
(* kicked (rebuildAfterHandover).                                           *)
Over(s) == task' = (IF follow THEN Queued(s) ELSE NoTask) /\ follow' = FALSE

GivenBack == up /\ made.bot # bot
GapIf(b, why) == slip' = IF b THEN slip \cup {why} ELSE slip
-----------------------------------------------------------------------------
(* A setting that only a rebuild writes: PATCH /v1/agents/:id (browser).   *)
OweNot(s) == FALSE                                                 \* a mutant
Owe(s)    == s = "STOPPED"

Change ==
  /\ Request /\ conf < MaxChanges /\ conf' = conf + 1
  /\ owed' = (owed \/ (Owe(state) /\ ~Interrupted))
  /\ IF state = "RUNNING" /\ ~Interrupted /\ ~Inflight
     THEN task' = Queued(state) /\ told' = FALSE
     ELSE task' = task /\ told' = (Interrupted \/ state \in {"RUNNING", "REBUILDING"})
  /\ GapIf(state = "PROVISIONING", "setup")
  /\ UNCHANGED <<state, bot, box, lock, follow, hand, old, refused, order, crashes>>

(* Rebuild by name: starts a stopped agent too.                            *)
Rebuild ==
  /\ Request /\ Free /\ ~Interrupted /\ ~Inflight /\ state \in Settled
  /\ task' = Queued(state) /\ order' = "up"
  /\ UNCHANGED <<row, box, lock, follow, hand, old, refused, told, slip, crashes>>

(* Retry of a failed setup: kickProvision.                                 *)
Retry ==
  /\ Request /\ Free /\ ~Interrupted /\ ~Inflight /\ state = "FAILED"
  /\ state' = "PROVISIONING" /\ lock' = "build" /\ order' = "up"
  /\ task' = [NoTask EXCEPT !.pc = "render", !.kind = "provision"]
  /\ UNCHANGED <<bot, conf, owed, box, follow, hand, old, refused, told, slip, crashes>>

StopBegin ==
  /\ Request /\ Free /\ ~Interrupted /\ state = "RUNNING" /\ lock' = "stop"
  /\ UNCHANGED <<row, box, task, follow, hand, old, refused, hist, crashes>>

Stopped ==
  /\ lock = "stop" /\ lock' = "free"
  /\ up' = FALSE /\ state' = "STOPPED" /\ order' = "down"
  /\ UNCHANGED <<bot, conf, owed, made, task, follow, hand, old, refused, told, slip, crashes, events>>

(* Start: one that owes a rebuild comes up rebuilt, as does one that needs  *)
(* it unless a render was refused a moment ago.                             *)
MayStart == Free /\ ~Interrupted /\ ~Inflight /\ state = "STOPPED"
StartRebuilds ==
  /\ Request /\ MayStart /\ (owed \/ ~refused)
  /\ task' = Queued(state) /\ order' = "up"
  /\ UNCHANGED <<row, box, lock, follow, hand, old, refused, told, slip, crashes>>

OldWillDo   == TRUE                                                \* a mutant
PlainStart  == ~owed
StartBegin ==
  /\ Request /\ MayStart /\ PlainStart
  /\ lock' = "start" /\ order' = "up"
  /\ GapIf(hand.pc = "row", "window")
  /\ UNCHANGED <<row, box, task, follow, hand, old, refused, told, crashes>>

Started ==
  /\ lock = "start" /\ lock' = "free"
  /\ up' = TRUE /\ state' = "RUNNING"
  /\ UNCHANGED <<bot, conf, owed, made, task, follow, hand, old, refused, hist, crashes, events>>

DockerRefuses ==
  /\ Event /\ lock \in {"start", "stop"} /\ lock' = "free"
  /\ UNCHANGED <<row, box, task, follow, hand, old, refused, hist, crashes>>

Ages ==          \* renderRefusedRecently: six hours
  /\ refused /\ refused' = FALSE
  /\ UNCHANGED <<row, box, lock, task, follow, hand, old, hist, crashes, events>>

Owner == Change \/ Rebuild \/ Retry \/ StopBegin \/ Stopped \/ StartRebuilds
         \/ StartBegin \/ Started \/ DockerRefuses \/ Ages
-----------------------------------------------------------------------------
(* Its bot is changed or given back (swap, detach): stopped first, under    *)
(* the lock; then a rebuild, or one owed when its owner had it stopped.     *)
HandsOver == state \in Settled
HandBegin ==
  /\ Request /\ bot < MaxSwaps
  /\ Free /\ ~Interrupted /\ HandsOver /\ hand = Idle
  /\ lock' = "hand" /\ hand' = [pc |-> "stop", was |-> state]
  /\ UNCHANGED <<row, box, task, follow, old, refused, hist, crashes>>

HandStopped ==
  /\ hand.pc = "stop" /\ hand' = [hand EXCEPT !.pc = "release"]
  /\ up' = FALSE /\ state' = "STOPPED"
  /\ UNCHANGED <<bot, conf, owed, made, lock, task, follow, old, refused, hist, crashes, events>>

(* It would not stop: nothing changes.                                     *)
HandRefused ==
  /\ Event /\ hand.pc = "stop" /\ hand' = Idle /\ lock' = "free"
  /\ UNCHANGED <<row, box, task, follow, old, refused, hist, crashes>>

HandRow ==
  /\ hand.pc = "release" /\ hand' = [hand EXCEPT !.pc = "row"]
  /\ bot' = bot + 1 /\ lock' = "free"
  /\ UNCHANGED <<state, conf, owed, box, task, follow, old, refused, hist, crashes, events>>

HandRebuild ==
  /\ hand.pc = "row" /\ hand' = Idle
  /\ owed' = (owed \/ Owe(hand.was))
  /\ task' = IF hand.was = "RUNNING" /\ ~Inflight THEN Queued(state) ELSE task
  /\ follow' = (follow \/ (hand.was = "RUNNING" /\ Inflight))
  /\ GapIf(hand.was = "RUNNING" /\ (~Free \/ state # "STOPPED" \/ order = "down"), "window")
  /\ UNCHANGED <<state, bot, conf, box, lock, old, refused, told, order, crashes, events>>

Handover == HandBegin \/ HandStopped \/ HandRefused \/ HandRow \/ HandRebuild
-----------------------------------------------------------------------------
(* The build in flight, at its turn and after: staleRebuild, rebuildAgent,  *)
(* runProvisionSteps.                                                       *)
AtTurn == task.pc = "queued"
NeverStale == FALSE                                                \* a mutant
Stale      == task.was = "RUNNING" /\ state = "STOPPED"

TurnStale ==
  /\ AtTurn /\ ~Interrupted /\ Stale
  /\ owed' = TRUE /\ Over(state)
  /\ UNCHANGED <<state, bot, conf, box, lock, hand, old, refused, hist, crashes, events>>

(* Another operation, the lock held, no state to rebuild from.             *)
TurnFails ==
  /\ AtTurn
  /\ Interrupted \/ (~Stale /\ (~Free \/ state \notin Settled))
  /\ Over(state) /\ told' = TRUE
  /\ GapIf(made.bot # bot /\ ~owed, "refused")
  /\ UNCHANGED <<row, box, lock, hand, old, refused, order, crashes, events>>

TurnTaken ==
  /\ AtTurn /\ ~Interrupted /\ ~Stale /\ Free /\ state \in Settled
  /\ lock' = "build" /\ refused' = FALSE
  /\ task' = [task EXCEPT !.pc = IF state = "RUNNING" THEN "snap" ELSE "render"]
  /\ UNCHANGED <<row, box, follow, hand, old, hist, crashes, events>>

(* The snapshot and the checkpoint turn, then the flip to REBUILDING.      *)
Snapped ==
  /\ task.pc = "snap" /\ task' = [task EXCEPT !.pc = "render"]
  /\ state' = "REBUILDING"
  /\ UNCHANGED <<bot, conf, owed, box, lock, follow, hand, old, refused, hist, crashes, events>>

Rendered ==
  /\ task.pc = "render"
  /\ task' = [task EXCEPT !.pc = IF task.kind = "rebuild" THEN "stop" ELSE "make",
                          !.spec = Row]
  /\ state' = IF task.kind = "rebuild" THEN "REBUILDING" ELSE state
  /\ UNCHANGED <<bot, conf, owed, box, lock, follow, hand, old, refused, hist, crashes, events>>

KeptAs       == IF state = "REBUILDING" THEN "RUNNING" ELSE state
RenderRefused ==
  /\ Event /\ task.pc = "render" /\ task.kind = "rebuild"
  /\ state' = KeptAs
  /\ lock' = "free" /\ Over(state') /\ refused' = TRUE /\ told' = TRUE
  /\ GapIf(made.bot # bot /\ ~owed, "refused")
  /\ UNCHANGED <<bot, conf, owed, box, hand, old, order, crashes>>

(* The stop's own failure is swallowed: what is made next replaces it.     *)
OldStopped ==
  /\ task.pc = "stop" /\ task' = [task EXCEPT !.pc = "make"]
  /\ up' \in {up, FALSE}
  /\ UNCHANGED <<row, made, lock, follow, hand, old, refused, hist, crashes, events>>

(* provider.provision, then recordApplied: nothing is owed any more.       *)
Made ==
  /\ task.pc = "make" /\ task' = [task EXCEPT !.pc = "start"]
  /\ up' = FALSE /\ made' = task.spec
  /\ owed' = FALSE /\ GapIf(owed /\ task.spec # Row, "overtaken")
  /\ UNCHANGED <<state, bot, conf, lock, follow, hand, old, refused, told, order, crashes, events>>

NewStarted ==
  /\ task.pc = "start" /\ task' = [task EXCEPT !.pc = "health"]
  /\ up' = TRUE
  /\ UNCHANGED <<row, made, lock, follow, hand, old, refused, hist, crashes, events>>

Built ==
  /\ task.pc = "health" /\ state' = "RUNNING"
  /\ lock' = "free" /\ Over("RUNNING")
  /\ UNCHANGED <<bot, conf, owed, box, hand, old, refused, hist, crashes, events>>

BuildFails ==
  /\ Event
  /\ task.pc \in {"make", "start", "health"} \/ (task.pc = "render" /\ task.kind = "provision")
  /\ up' \in {up, FALSE} /\ state' = "FAILED"
  /\ lock' = "free" /\ Over("FAILED") /\ told' = TRUE
  /\ UNCHANGED <<bot, conf, owed, made, hand, old, refused, order, slip, crashes>>

Building == TurnStale \/ TurnFails \/ TurnTaken \/ Snapped \/ Rendered \/ RenderRefused
            \/ OldStopped \/ Made \/ NewStarted \/ Built \/ BuildFails
-----------------------------------------------------------------------------
(* The process dies.  A call to Docker may have taken effect; what was in   *)
(* flight is left on disk as an operation: queued, or cut off.              *)
Leftover == IF ~Inflight THEN {}
            ELSE {[kind |-> task.kind, was |-> task.was,
                   st |-> IF task.pc = "queued" THEN "queued" ELSE "cut"]}
Doing == IF lock = "build" THEN task.pc ELSE IF lock = "hand" THEN hand.pc ELSE lock
Crash ==
  /\ Event /\ crashes < MaxCrashes /\ crashes' = crashes + 1
  /\ \/ UNCHANGED box
     \/ Doing = "stop" /\ up' = FALSE /\ UNCHANGED made
     \/ Doing = "start" /\ up' = TRUE /\ UNCHANGED made
     \/ Doing = "make" /\ up' = FALSE /\ made' = task.spec
  /\ old' = {[o EXCEPT !.st = IF @ = "queued" THEN @ ELSE "cut"] : o \in old} \cup Leftover
  /\ lock' = "free" /\ task' = NoTask /\ follow' = FALSE /\ hand' = Idle /\ refused' = FALSE
  /\ GapIf(hand.pc = "row" \/ follow, "cut")
  /\ UNCHANGED <<row, told, order>>

(* resumeBackground, one operation: put back in the queue ...              *)
CutByOther(o) == \E p \in old \ {o} : p.st # "queued"
AskedIn(o)  == o.was
Requeue(o) ==
  /\ Untouched(o) /\ ~Drift /\ old' = old \ {o}
  /\ IF Inflight \/ CutByOther(o)
     THEN task' = task /\ told' = TRUE
     ELSE task' = Queued(AskedIn(o)) /\ told' = told
  /\ UNCHANGED <<row, box, lock, follow, hand, refused, order, slip, crashes, events>>

(* ... over before the restart ...                                         *)
BusyState(o) == IF o.kind = "rebuild" THEN "REBUILDING" ELSE "PROVISIONING"
NothingLeft(o) ==
  /\ o.st = "cut" /\ ~Untouched(o) /\ state # BusyState(o)
  /\ old' = old \ {o} /\ told' = (told \/ state # "RUNNING")
  /\ UNCHANGED <<row, box, lock, task, follow, hand, refused, order, slip, crashes, events>>

(* ... up and answering: its last steps again (a setup: all of them) ...   *)
Recover(o) ==
  /\ o.st = "cut" /\ state = BusyState(o) /\ up /\ Free
  /\ lock' = "recover" /\ old' = (old \ {o}) \cup {[o EXCEPT !.st = "recovering"]}
  /\ UNCHANGED <<row, box, task, follow, hand, refused, hist, crashes, events>>

Recovered(o) ==
  /\ o.st = "recovering" /\ old' = old \ {o} /\ lock' = "free"
  /\ state' = "RUNNING"
  /\ made' = IF o.kind = "provision" THEN Row ELSE made
  /\ owed' = (owed /\ o.kind # "provision")
  /\ GapIf(o.kind = "rebuild" /\ made # Row, "mistaken")
  /\ UNCHANGED <<bot, conf, up, task, follow, hand, refused, told, order, crashes, events>>

RecoverFails(o) ==
  /\ Event /\ o.st = "recovering" /\ old' = old \ {o} /\ lock' = "free"
  /\ state' = "FAILED" /\ up' \in {up, FALSE} /\ told' = TRUE
  /\ UNCHANGED <<bot, conf, owed, made, task, follow, hand, refused, order, slip, crashes>>

(* ... or judged by reconcile's rule: down, or up and not answering.       *)
JudgedRunning(o) == state                                          \* a mutant
Judged(o)        == "FAILED"
JudgeCut(o) ==
  /\ o.st = "cut" /\ state = BusyState(o)
  /\ ~up \/ events < MaxEvents
  /\ events' = IF up THEN events + 1 ELSE events
  /\ old' = old \ {o} /\ state' = Judged(o) /\ told' = TRUE
  /\ UNCHANGED <<bot, conf, owed, box, lock, task, follow, hand, refused, order, slip, crashes>>

Resume == \E o \in old : Requeue(o) \/ NothingLeft(o) \/ Recover(o) \/ Recovered(o)
                         \/ RecoverFails(o) \/ JudgeCut(o)

Reconcile ==
  /\ Drift /\ state' = IF up THEN "RUNNING" ELSE "STOPPED"
  /\ UNCHANGED <<bot, conf, owed, box, lock, task, follow, hand, old, refused, hist, crashes, events>>
-----------------------------------------------------------------------------
Init ==
  /\ state = "RUNNING" /\ bot = 0 /\ conf = 0 /\ owed = FALSE
  /\ up = TRUE /\ made = Row /\ lock = "free"
  /\ task = NoTask /\ follow = FALSE /\ hand = Idle /\ old = {} /\ refused = FALSE
  /\ told = FALSE /\ order = "up" /\ slip = {} /\ crashes = 0 /\ events = 0

Next == Owner \/ Handover \/ Building \/ Crash \/ Resume \/ Reconcile

(* The queue moves on, Docker answers one way or the other, and what a      *)
(* restart cut off is looked at again (at boot, then every ten minutes).    *)
Fairness ==
  /\ WF_vars(Stopped) /\ WF_vars(Started) /\ WF_vars(Resume) /\ WF_vars(Reconcile)
  /\ WF_vars(HandStopped) /\ WF_vars(HandRow) /\ WF_vars(HandRebuild)
  /\ WF_vars(TurnStale \/ TurnFails \/ TurnTaken) /\ WF_vars(Snapped) /\ WF_vars(Rendered)
  /\ WF_vars(OldStopped) /\ WF_vars(Made) /\ WF_vars(NewStarted) /\ WF_vars(Built)

Spec == Init /\ [][Next]_vars /\ Fairness
-----------------------------------------------------------------------------
States == Settled \cup {"REBUILDING", "PROVISIONING", "FAILED"}
Specs  == [bot : 0..MaxSwaps, conf : 0..MaxChanges]
TypeOK ==
  /\ state \in States /\ owed \in BOOLEAN /\ up \in BOOLEAN
  /\ {Row, made} \subseteq Specs
  /\ lock \in {"free", "stop", "start", "hand", "build", "recover"}
  /\ task \in [pc : {"none", "queued", "snap", "render", "stop", "make", "start", "health"},
               kind : {"rebuild", "provision"}, was : States, spec : Specs]
  /\ hand \in [pc : {"idle", "stop", "release", "row"}, was : Settled]
  /\ old \subseteq [kind : {"rebuild", "provision"}, was : States,
                    st : {"queued", "cut", "recovering"}]
  /\ follow \in BOOLEAN /\ refused \in BOOLEAN /\ told \in BOOLEAN /\ order \in {"up", "down"}
  /\ slip \subseteq {"setup", "window", "refused", "overtaken", "cut", "mistaken"}
  /\ crashes \in 0..MaxCrashes /\ events \in 0..MaxEvents

(* A container never runs on a bot its agent gave back: another agent may   *)
(* have it by then (routes.ts, startRefusal; CHANGELOG).  The code breaks    *)
(* it; the run says how.                                                    *)
NeverGivenBack == ~GivenBack

(* It runs on one in three cases only: started between the new row and the  *)
(* rebuild that is then asked for, or after that rebuild was refused or     *)
(* failed at its turn, or was lost to a restart before it was on disk.      *)
GivenBackOnlyInAGap == GivenBack => slip \cap {"window", "refused", "cut"} # {}

(* A change is in the container, owed to its next start, or was said not to *)
(* have landed, once nothing is in flight; the gaps are a change overtaken   *)
(* by a build that clears what is owed, one during a setup, and a restart   *)
(* that takes the old container for the new one.                            *)
Quiet == Free /\ ~Inflight /\ hand = Idle /\ old = {}
ChangeLands ==
  Quiet /\ conf # made.conf =>
    owed \/ told \/ state = "FAILED" \/ slip \cap {"overtaken", "setup", "mistaken"} # {}

(* No queued, requeued or following rebuild starts an agent its owner has   *)
(* stopped since it was asked for; the gap is a Stop pressed between a      *)
(* handover's new row and its rebuild, which knows the state before both.   *)
StopStands == [][~up /\ up' => order' = "up" \/ "window" \in slip]_vars

(* Every move is in the table of domain/stateMachine.ts: one that is not    *)
(* throws in the middle of a build, with the container already replaced.    *)
Moves == {<<"PROVISIONING", "RUNNING">>, <<"PROVISIONING", "FAILED">>,
          <<"RUNNING", "STOPPED">>, <<"RUNNING", "REBUILDING">>, <<"RUNNING", "FAILED">>,
          <<"STOPPED", "RUNNING">>, <<"STOPPED", "REBUILDING">>, <<"STOPPED", "FAILED">>,
          <<"REBUILDING", "RUNNING">>, <<"REBUILDING", "FAILED">>, <<"FAILED", "PROVISIONING">>}
LegalMoves == [][state' # state => <<state, state'>> \in Moves]_state

(* An agent does not stay REBUILDING or PROVISIONING, whatever dies under   *)
(* it.                                                                      *)
NeverStuck == state \in {"REBUILDING", "PROVISIONING"} ~> state \notin {"REBUILDING", "PROVISIONING"}

=============================================================================
