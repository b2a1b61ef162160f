----------------------------- MODULE Hibernate ------------------------------
(***************************************************************************)
(* An idle agent is put to sleep and a message wakes it                     *)
(* (orchestrator/hibernate.ts); a budget that is used up pauses it, and a   *)
(* raise or a new month starts it again (orchestrator/budgets.ts).  Both    *)
(* stop and start the same container, both by themselves, beside an owner   *)
(* who presses Start and Stop, a gateway that handles messages up to the    *)
(* moment it is stopped, and a process that may die between any two steps.  *)
(*                                                                          *)
(* One agent on this machine, on one Telegram bot.  A step is what runs     *)
(* between two awaits.  busy is the agent's lock (whileBusy) and says who   *)
(* holds it: every holder but a sleeper that still judges is waiting for    *)
(* Docker.                                                                  *)
(***************************************************************************)
EXTENDS Naturals, FiniteSets

CONSTANTS After,      \* HATCHABOT_HIBERNATE_AFTER, in ticks
          Page,       \* getUpdates' page size (PAGE)
          Batch,      \* MARK_BATCH
          GiveUp,     \* WAKE_GIVE_UP
          MaxTime,    \* bound: the last tick
          MaxEvents   \* bound: messages, orders, limits, refusals and deaths

ASSUME BoundsAssumption ==
  /\ {After, Page, GiveUp} \subseteq Nat \ {0}
  /\ {Batch, MaxTime, MaxEvents} \subseteq Nat

VARIABLES
  state, bed, mark, woken,  \* the row: state, hibernatedAt, hibernateMark, wokenAt
  stay,                     \* why it may not sleep: nothing, its settings, its tasks
  up,                       \* is its container running
  busy,                     \* who holds the agent's lock
  queue, got, active,       \* Telegram: waiting updates; handled, unconfirmed; last activity
  next, now,                \* the next update id, the clock
  sleeper,                  \* per caller of hibernateAgent: its place and what it read
  poll,                     \* the wake sweep: its place, the mark it listed, the page it read
  fails,                    \* wakeFailures
  limit,                    \* its budget: under it, or reached and quiet, mid-turn, waited out
  pause,                    \* the month's budget_pauses row
  hand,                     \* history: is it down because its owner stopped it
  events                    \* what came from outside so far

row    == <<state, bed, mark, woken>>
chat   == <<queue, got, active, next>>
budget == <<limit, pause>>
vars   == <<row, stay, up, busy, chat, now, sleeper, poll, fails, budget, hand, events>>

-----------------------------------------------------------------------------
None        == 0                          \* no time: NULL in the row
First       == Batch + 3                  \* the first update id in these runs
Placeholder == First + MaxEvents + 1       \* Number.MAX_SAFE_INTEGER
Event       == events < MaxEvents /\ events' = events + 1
Callers     == {"sweep", "hand"}
Awake       == [pc |-> "idle", seen |-> None, bed |-> None, page |-> {}]
PollIdle    == [pc |-> "idle", mark |-> None, page |-> {}]
over        == limit # "under"
Open        == pause \in {"paused", "stopped"}  \* the second: alreadyStopped
Later(a, b) == IF a > b THEN a ELSE b
Free        == busy = "free"
MarkPending == \E c \in Callers : sleeper[c].pc \in {"marking", "read"}

(* getUpdates with no offset: the oldest page, and it confirms nothing.    *)
FirstPage(q) == {u \in q : Cardinality({v \in q : v.id < u.id}) < Page}
Newest(us)   == IF us = {} THEN 0 ELSE CHOOSE i \in {u.id : u \in us} :
                                         \A u \in us : u.id <= i
MarkEverything(us, t) == Newest(us)                                \* a mutant
MarkBefore(us, t)    == Newest({u \in us : u.at < t})
HasMail(us, m) ==
  \/ Cardinality(us) >= Page
  \/ \E u \in us : u.id > m \/ u.id + Batch < m

-----------------------------------------------------------------------------
(* What the row says after setAgentState RUNNING, and after STOPPED by a    *)
(* Start, a wake or a budget that clears the mark.                          *)
RowRunning ==
  /\ state' = "RUNNING" /\ bed' = None /\ mark' = None
  /\ woken' = now
RowAsleep(t, m) == bed' = t /\ mark' = m /\ UNCHANGED woken
RowStopped == state' = "STOPPED" /\ bed' = None /\ mark' = None /\ woken' = now
Release == busy' = "free"

-----------------------------------------------------------------------------
(* The world: time, messages, the gateway, settings, spending.             *)
Tick == now < MaxTime /\ now' = now + 1
        /\ UNCHANGED <<row, stay, up, busy, chat, sleeper, poll, fails, budget, hand, events>>

Send ==
  /\ Event
  /\ queue' = queue \cup {[id |-> next, at |-> now]}
  /\ next' = next + 1
  /\ UNCHANGED <<row, stay, up, busy, got, active, now, sleeper, poll, fails, budget, hand>>

(* A week with no update: what still waited has expired, and Telegram       *)
(* starts the next id at random, not among the Batch below the last one.    *)
QuietWeek ==
  /\ Event
  /\ \A u \in queue : u.id \in got
  /\ next >= First /\ next' = 1 /\ queue' = {} /\ got' = {}
  /\ UNCHANGED <<row, stay, up, busy, active, now, sleeper, poll, fails, budget, hand>>

(* The gateway's poll: it confirms what it has and handles the rest.       *)
Gateway ==
  /\ up
  /\ \E u \in queue : u.id \notin got
  /\ queue' = {u \in queue : u.id \notin got}
  /\ got' = {u.id : u \in queue'}
  /\ active' = now
  /\ UNCHANGED <<row, stay, up, busy, next, now, sleeper, poll, fails, budget, hand, events>>

Confirm ==
  /\ up /\ queue # {} /\ \A u \in queue : u.id \in got
  /\ queue' = {} /\ got' = {}
  /\ UNCHANGED <<row, stay, up, busy, active, next, now, sleeper, poll, fails, budget, hand, events>>

Settings ==
  /\ Event
  /\ \/ stay' \in {"no", "settings"}
     \/ stay' = "tasks" /\ Free                     \* adding a task takes the lock
  /\ stay' # stay
  /\ UNCHANGED <<row, up, busy, chat, now, sleeper, poll, fails, budget, hand>>

(* The budget is reached; a turn begins or ends; PAUSE_WAIT_MS goes by.    *)
Spend ==
  /\ Event
  /\ limit = "under" /\ limit' = "quiet"
  /\ UNCHANGED <<row, stay, up, busy, chat, now, sleeper, poll, fails, pause, hand>>

Turn ==
  /\ \/ limit = "quiet" /\ limit' = "loud"
     \/ limit = "loud" /\ limit' = "quiet"
  /\ UNCHANGED <<row, stay, up, busy, chat, now, sleeper, poll, fails, pause, hand, events>>

Wait ==
  /\ limit \in {"quiet", "loud"} /\ limit' = "waited"
  /\ UNCHANGED <<row, stay, up, busy, chat, now, sleeper, poll, fails, pause, hand, events>>

(* The budget is raised; or a month begins with no pause left open.        *)
Raise ==
  /\ Event
  /\ over /\ limit' = "under"
  /\ \/ pause' = pause
     \/ ~Open /\ pause' = "none"
  /\ UNCHANGED <<row, stay, up, busy, chat, now, sleeper, poll, fails, hand>>

World == Tick \/ Send \/ QuietWeek \/ Gateway \/ Confirm \/ Settings \/ Turn
         \/ Spend \/ Wait \/ Raise

-----------------------------------------------------------------------------
(* Going to sleep: hibernateSweep and POST /hibernate, both hibernateAgent. *)
Settled(c)  == stay = "no" \/ (c = "hand" /\ stay = "settings")
Rested      == now >= Later(active, woken) + After
QuietAsJudged(c) == TRUE                                           \* a mutant
StillQuiet(c)   == c = "hand" \/ active <= sleeper[c].seen

SleepJudge(c) ==
  /\ sleeper[c].pc = "idle"
  /\ state = "RUNNING" /\ Free
  /\ IF c = "sweep"
     THEN stay = "no" /\ Rested /\ UNCHANGED <<busy, events>>
          /\ sleeper' = [sleeper EXCEPT ![c] = [Awake EXCEPT !.pc = "judged", !.seen = active]]
     ELSE Event /\ busy' = c /\ sleeper' = [sleeper EXCEPT ![c] = [Awake EXCEPT !.pc = "locked"]]
  /\ UNCHANGED <<row, stay, up, chat, now, poll, fails, budget, hand>>

SleepLock(c) ==
  /\ sleeper[c].pc = "judged"
  /\ IF state = "RUNNING" /\ Free
     THEN busy' = c /\ sleeper' = [sleeper EXCEPT ![c].pc = "locked"]
     ELSE busy' = busy /\ sleeper' = [sleeper EXCEPT ![c] = Awake]
  /\ UNCHANGED <<row, stay, up, chat, now, poll, fails, budget, hand, events>>

SleepRecord(c) ==
  /\ sleeper[c].pc = "locked"
  /\ IF Settled(c) /\ StillQuiet(c)
     THEN /\ state' = "STOPPED" /\ RowAsleep(now, Placeholder)
          /\ sleeper' = [sleeper EXCEPT ![c].pc = "stopping", ![c].bed = now]
          /\ busy' = busy
     ELSE /\ Release /\ sleeper' = [sleeper EXCEPT ![c] = Awake]
          /\ UNCHANGED row
  /\ UNCHANGED <<stay, up, chat, now, poll, fails, budget, hand, events>>

SleepStopped(c) ==
  /\ sleeper[c].pc = "stopping"
  /\ up' = FALSE /\ Release
  /\ sleeper' = [sleeper EXCEPT ![c].pc = "marking"]
  /\ UNCHANGED <<row, stay, chat, now, poll, fails, budget, hand, events>>

SleepStopFails(c) ==
  /\ Event
  /\ sleeper[c].pc = "stopping"
  /\ RowRunning /\ Release
  /\ sleeper' = [sleeper EXCEPT ![c] = Awake]
  /\ UNCHANGED <<stay, up, chat, now, poll, fails, budget, hand>>

(* Unreadable is no update, as undefined is to markBefore.                 *)
SleepRead(c) ==
  /\ sleeper[c].pc = "marking"
  /\ \E page \in {FirstPage(queue), {}} :
       sleeper' = [sleeper EXCEPT ![c].pc = "read", ![c].page = page]
  /\ UNCHANGED <<row, stay, up, busy, chat, now, poll, fails, budget, hand, events>>

StillAsleep == state = "STOPPED" /\ bed # None
MarksAny    == TRUE                                                \* a mutant
MarksSleeper == StillAsleep
SleepMark(c) ==
  /\ sleeper[c].pc = "read"
  /\ IF MarksSleeper
     THEN RowAsleep(sleeper[c].bed, MarkBefore(sleeper[c].page, sleeper[c].bed))
     ELSE UNCHANGED <<bed, mark, woken>>
  /\ sleeper' = [sleeper EXCEPT ![c] = Awake]
  /\ UNCHANGED <<state, stay, up, busy, chat, now, poll, fails, budget, hand, events>>

Sleeping(c) == SleepJudge(c) \/ SleepLock(c) \/ SleepRecord(c) \/ SleepStopped(c)
               \/ SleepStopFails(c) \/ SleepRead(c) \/ SleepMark(c)

-----------------------------------------------------------------------------
(* Waking: the wake sweep, and a wake by hand or by the console.           *)
MayWake == Free /\ state = "STOPPED" /\ bed # None

PollList ==
  /\ poll.pc = "idle"
  /\ StillAsleep /\ Free
  /\ ~(mark = Placeholder /\ MarkPending)
  /\ poll' = [poll EXCEPT !.pc = "listed", !.mark = mark]
  /\ UNCHANGED <<row, stay, up, busy, chat, now, sleeper, fails, budget, hand, events>>

PollRead ==
  /\ poll.pc = "listed"
  /\ poll' = [poll EXCEPT !.pc = "read", !.page = FirstPage(queue)]
  /\ UNCHANGED <<row, stay, up, busy, chat, now, sleeper, fails, budget, hand, events>>

(* A placeholder that outlived its sleep: its mark is found now.           *)
PollRecovers == poll.mark = Placeholder /\ bed # None /\ mark = Placeholder
PollMail ==
  IF poll.mark = Placeholder
  THEN PollRecovers /\ \E u \in poll.page : u.at >= bed
  ELSE poll.page # {} /\ HasMail(poll.page, poll.mark)

PollJudge ==
  /\ poll.pc = "read"
  /\ busy' = IF PollMail /\ MayWake THEN "wake" ELSE busy
  /\ mark' = IF PollRecovers THEN MarkBefore(poll.page, bed) ELSE mark
  /\ poll' = PollIdle
  /\ UNCHANGED <<state, bed, woken, stay, up, chat, now, sleeper, fails, budget, hand, events>>

WakeByHand ==
  /\ Event
  /\ MayWake /\ bed # None /\ busy' = "wake"
  /\ UNCHANGED <<row, stay, up, chat, now, sleeper, poll, fails, budget, hand>>

Woken ==
  /\ busy = "wake" /\ Release
  /\ up' = TRUE /\ RowRunning /\ fails' = 0 /\ hand' = FALSE
  /\ UNCHANGED <<stay, chat, now, sleeper, poll, budget, events>>

GivesUp == fails + 1 >= GiveUp
WakeFails ==
  /\ Event
  /\ busy = "wake" /\ Release
  /\ IF GivesUp
     THEN RowStopped /\ fails' = 0
     ELSE UNCHANGED row /\ fails' = fails + 1
  /\ UNCHANGED <<stay, up, chat, now, sleeper, poll, budget, hand>>

Waking == PollList \/ PollRead \/ PollJudge \/ WakeByHand \/ Woken \/ WakeFails

-----------------------------------------------------------------------------
(* The owner's Start, Stop and Rebuild.                                    *)
StopBegin ==
  /\ Event
  /\ state = "RUNNING" /\ Free /\ busy' = "stop"
  /\ UNCHANGED <<row, stay, up, chat, now, sleeper, poll, fails, budget, hand>>

KeepPause   == pause                                               \* a mutant
DisownPause == IF Open THEN "stopped" ELSE pause
Stopped ==
  /\ busy = "stop" /\ Release
  /\ up' = FALSE /\ state' = "STOPPED" /\ hand' = TRUE
  /\ pause' = DisownPause
  /\ UNCHANGED <<bed, mark, woken, stay, chat, now, sleeper, poll, fails, limit, events>>

StartBegin ==
  /\ Event
  /\ state = "STOPPED" /\ Free /\ busy' = "start"
  /\ UNCHANGED <<row, stay, up, chat, now, sleeper, poll, fails, budget, hand>>

Started ==
  /\ busy = "start" /\ Release
  /\ up' = TRUE /\ RowRunning /\ hand' = FALSE
  /\ pause' = IF Open THEN "taken" ELSE pause
  /\ UNCHANGED <<stay, chat, now, sleeper, poll, fails, limit, events>>

(* A stopped agent rebuilt by name comes up without Start (module Rebuild   *)
(* has the rebuild itself).                                                *)
Rebuilt ==
  /\ Event
  /\ state = "STOPPED" /\ Free
  /\ up' = TRUE /\ RowRunning /\ hand' = FALSE
  /\ UNCHANGED <<stay, busy, chat, now, sleeper, poll, fails, budget>>

(* Docker refuses a start or a stop: nothing is recorded.                  *)
DockerFails ==
  /\ Event
  /\ busy \in {"stop", "start", "unpause", "pause"} /\ Release
  /\ UNCHANGED <<row, stay, up, chat, now, sleeper, poll, fails, budget, hand>>

Owner == StopBegin \/ Stopped \/ StartBegin \/ Started \/ Rebuilt \/ DockerFails

-----------------------------------------------------------------------------
(* The budget pass: runBudgets for this agent.                             *)
InPass == busy \in {"pause", "unpause"}     \* one pass at a time

PauseEnds == Open /\ ~over

(* Up already, or not the budget's to start: the row is closed.            *)
OwnersToStart == pause = "stopped" \/ bed # None
ClosesWhenUp  == state = "RUNNING"                                 \* a mutant
Closes        == state = "RUNNING" \/ OwnersToStart
ClosePause ==
  /\ PauseEnds /\ ~InPass /\ Closes
  /\ pause' = "ended"
  /\ UNCHANGED <<row, stay, up, busy, chat, now, sleeper, poll, fails, limit, hand, events>>

Unpause ==
  /\ PauseEnds /\ state = "STOPPED" /\ ~OwnersToStart
  /\ Free /\ busy' = "unpause"
  /\ UNCHANGED <<row, stay, up, chat, now, sleeper, poll, fails, budget, hand, events>>

Unpaused ==
  /\ busy = "unpause" /\ Release
  /\ up' = TRUE /\ RowRunning /\ hand' = FALSE /\ pause' = "ended"
  /\ UNCHANGED <<stay, chat, now, sleeper, poll, fails, limit, events>>

(* Started by hand after a pause: it runs on until the 1st.                *)
Takeover == pause = "taken"
Due      == over /\ ~Takeover /\ ~InPass
RipeWhenQuiet == limit = "quiet"                                        \* a mutant
Ripe     == limit \in {"quiet", "waited"}

PauseRunning ==
  /\ Due /\ state = "RUNNING" /\ Free /\ Ripe
  /\ busy' = "pause"
  /\ UNCHANGED <<row, stay, up, chat, now, sleeper, poll, fails, budget, hand, events>>

Paused ==
  /\ busy = "pause" /\ Release
  /\ up' = FALSE /\ RowStopped /\ pause' = "paused"
  /\ UNCHANGED <<stay, chat, now, sleeper, poll, fails, limit, hand, events>>

PauseSleeper ==
  /\ Due /\ ~Open /\ StillAsleep /\ Free
  /\ RowStopped /\ pause' = "paused"
  /\ UNCHANGED <<stay, up, busy, chat, now, sleeper, poll, fails, limit, hand, events>>

RecordStopped ==
  /\ Due /\ ~Open /\ state = "STOPPED" /\ bed = None
  /\ pause' = "stopped"
  /\ UNCHANGED <<row, stay, up, busy, chat, now, sleeper, poll, fails, limit, hand, events>>

Pass == ClosePause \/ Unpause \/ Unpaused \/ PauseRunning \/ Paused
        \/ PauseSleeper \/ RecordStopped

-----------------------------------------------------------------------------
(* The process dies: the row stays, a call to Docker may have taken effect. *)
Crash ==
  /\ Event
  /\ \E u \in CASE busy \in {"wake", "start", "unpause"} -> {up, TRUE}
                [] busy \in {"stop", "pause"} -> {up, FALSE}
                [] busy \in Callers /\ sleeper[busy].pc = "stopping" -> {up, FALSE}
                [] OTHER -> {up} : up' = u
  /\ Release /\ fails' = 0 /\ poll' = PollIdle
  /\ sleeper' = [c \in Callers |-> Awake]
  /\ UNCHANGED <<row, stay, chat, now, budget, hand>>

Reconcile ==
  /\ Free /\ up = (state = "STOPPED")
  /\ IF up THEN RowRunning ELSE state' = "STOPPED" /\ UNCHANGED <<bed, mark, woken>>
  /\ hand' = (hand /\ ~up)
  /\ UNCHANGED <<stay, up, busy, chat, now, sleeper, poll, fails, budget, events>>

-----------------------------------------------------------------------------
Init ==
  /\ state = "RUNNING" /\ bed = None /\ mark = None /\ woken = 1
  /\ stay = "no" /\ up = TRUE /\ busy = "free"
  /\ queue = {} /\ got = {} /\ active = 1 /\ next = First /\ now = 1
  /\ sleeper = [c \in Callers |-> Awake] /\ poll = PollIdle /\ fails = 0
  /\ limit = "under" /\ pause = "none"
  /\ hand = FALSE /\ events = 0

Next == World \/ (\E c \in Callers : Sleeping(c)) \/ Waking \/ Owner \/ Pass
        \/ Crash \/ Reconcile

(* The loops run for ever (setInterval) and Docker answers, one way or the  *)
(* other; nothing is asked of the owner, of the world or of spending.       *)
Fairness ==
  /\ \A c \in Callers : WF_vars(SleepLock(c)) /\ WF_vars(SleepRecord(c))
       /\ WF_vars(SleepStopped(c)) /\ WF_vars(SleepRead(c)) /\ WF_vars(SleepMark(c))
  /\ WF_vars(PollList) /\ WF_vars(PollRead) /\ WF_vars(PollJudge)
  /\ WF_vars(Woken \/ WakeFails) /\ WF_vars(Stopped) /\ WF_vars(Started)
  /\ WF_vars(Unpaused) /\ WF_vars(Paused) /\ WF_vars(Wait) /\ WF_vars(Reconcile)
  /\ WF_vars(ClosePause) /\ WF_vars(Unpause) /\ WF_vars(PauseRunning)

Spec == Init /\ [][Next]_vars /\ Fairness
-----------------------------------------------------------------------------
TypeOK ==
  /\ state \in {"RUNNING", "STOPPED"} /\ up \in BOOLEAN /\ hand \in BOOLEAN
  /\ {bed, woken, active, now} \subseteq 0..(MaxTime + 1)
  /\ {mark, next, poll.mark} \subseteq 0..Placeholder
  /\ stay \in {"no", "settings", "tasks"}
  /\ busy \in {"free", "wake", "stop", "start", "pause", "unpause"} \cup Callers
  /\ queue \subseteq [id : 1..Placeholder, at : 1..(MaxTime + 1)]
  /\ got \subseteq {u.id : u \in queue}
  /\ \A c \in Callers : sleeper[c].page \subseteq [id : 1..Placeholder, at : 1..(MaxTime + 1)]
  /\ pause \in {"none", "paused", "stopped", "ended", "taken"}
  /\ limit \in {"under", "quiet", "loud", "waited"}
  /\ fails \in 0..GiveUp /\ events \in 0..MaxEvents

(* A sleeper's mark never stays on a running agent, however the two or      *)
(* three calls that read and write it overlap: it would show as asleep and  *)
(* be stopped again by the next sweep.                                      *)
AwakeHasNoMark == state = "RUNNING" => bed = None

(* The idle sweep judges with what it read before several awaits; what it   *)
(* then stops is still idle, allowed to sleep and has nothing scheduled.    *)
SleepOnlyIdle ==
  [][\A c \in Callers : sleeper[c].pc = "locked" /\ sleeper'[c].pc = "stopping" =>
       /\ stay # "tasks"
       /\ c = "sweep" => stay = "no" /\ now >= active + After]_vars

(* Whatever was sent from bedtime on wakes the agent: sent before or after  *)
(* the mark is read, behind a full page, below the mark after a quiet week, *)
(* with the mark lost in a restart.                                         *)
MailWaits == StillAsleep /\ \E u \in queue : u.at >= bed /\ u.id \notin got
MailWakes == MailWaits ~> ~MailWaits

(* Nothing that starts an agent by itself starts one its owner stopped: not  *)
(* the wake sweep, which acts on a listing and an answer from Telegram that   *)
(* are old by then, and not the end of a pause, though the stop came before   *)
(* the limit or while a rebuild had the paused agent up.                      *)
OwnerStopStands ==
  [][busy = "free" /\ busy' \in {"wake", "unpause"} => ~hand]_vars

(* An agent that is never quiet is paused all the same, unless its owner    *)
(* took over.                                                               *)
LimitStops ==
  over /\ state = "RUNNING" ~> ~over \/ state = "STOPPED" \/ Takeover

(* A pause whose reason is gone does not stay open: the next month would    *)
(* begin with the agent still down, or with the pause still counted.        *)
PauseIsOver == PauseEnds ~> ~PauseEnds

=============================================================================
