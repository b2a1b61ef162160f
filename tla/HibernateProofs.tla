--------------------------- MODULE HibernateProofs ---------------------------
(***************************************************************************)
(* That a running agent bears no sleeper's mark, that only what is still    *)
(* idle is put to sleep, and that nothing starts by itself what its owner   *)
(* stopped: for every setting of the code (After, Page, Batch, GiveUp) and  *)
(* any number of messages, orders, limits and deaths.                       *)
(*                                                                         *)
(* The three lean on one invariant.  What a sleeper judged stays true of    *)
(* what it read (Judged); a lock held for a stop, a pause or a sleep means  *)
(* the agent ran when it was taken and nobody has moved it since (Held);    *)
(* and an owner's stop left neither a bedtime nor a pause of the budget's   *)
(* that something could wake it by (ByOwner).                               *)
(***************************************************************************)
EXTENDS Hibernate, TLAPS

Update  == [id : Nat, at : Nat]
Sleeper == [pc : {"idle", "judged", "locked", "stopping", "marking", "read"},
            seen : Nat, bed : Nat, page : SUBSET Update]
Shape ==
  /\ state \in {"RUNNING", "STOPPED"}
  /\ {now, active, woken, next} \subseteq Nat
  /\ queue \subseteq Update
  /\ sleeper \in [Callers -> Sleeper]

Held ==
  /\ busy \in {"stop", "pause"} => state = "RUNNING"
  /\ \A c \in Callers : /\ sleeper[c].pc = "locked" => busy = c /\ state = "RUNNING"
                        /\ sleeper[c].pc = "stopping" => busy = c /\ ~hand
ByOwner == hand => state = "STOPPED" /\ bed = None /\ pause # "paused"
Judged  == sleeper["sweep"].pc \in {"judged", "locked"} => now >= sleeper["sweep"].seen + After
Inv     == Shape /\ AwakeHasNoMark /\ Held /\ ByOwner /\ Judged
-----------------------------------------------------------------------------
(* A step of sleeper c that leaves it at k.                                *)
LEMMA SleeperMoved ==
  ASSUME Shape, NEW c \in Callers, NEW k \in Sleeper, sleeper' = [sleeper EXCEPT ![c] = k]
  PROVE  /\ sleeper' \in [Callers -> Sleeper] /\ sleeper'[c] = k
         /\ \A d \in Callers \ {c} : sleeper'[d] = sleeper[d]
BY DEF Shape

LEMMA AwakeIs == Awake \in Sleeper /\ Awake.pc = "idle"
BY DEF Awake, Sleeper, None

LEMMA NewPc ==
  ASSUME NEW k \in Sleeper, NEW p \in {"idle", "judged", "locked", "stopping", "marking", "read"}
  PROVE  /\ [k EXCEPT !.pc = p] \in Sleeper /\ [k EXCEPT !.pc = p].pc = p
         /\ [k EXCEPT !.pc = p].seen = k.seen
BY DEF Sleeper

LEMMA PageOf == FirstPage(queue) \subseteq queue
BY DEF FirstPage

(* Nothing of what Inv speaks of: the world outside, and the wake sweep.    *)
LEMMA WorldStep == ASSUME Inv, World PROVE Inv'
<1>1. CASE Tick
  <2>1. now' = now + 1 /\ now \in Nat /\ UNCHANGED <<row, busy, chat, sleeper, budget, hand>>
    BY <1>1 DEF Tick, Inv, Shape
  <2>2. Judged'
    <3>1. sleeper["sweep"].seen \in Nat /\ After \in Nat
      BY BoundsAssumption DEF Inv, Shape, Callers, Sleeper
    <3> QED BY <2>1, <3>1 DEF Inv, Judged
  <2> QED BY <2>1, <2>2 DEF Inv, Shape, AwakeHasNoMark, Held, ByOwner, row, chat, budget
<1>2. CASE Send
  BY <1>2 DEF Send, Inv, Shape, AwakeHasNoMark, Held, ByOwner, Judged, Callers, row, budget, Update
<1>3. CASE QuietWeek \/ Gateway \/ Confirm
  BY <1>3 DEF QuietWeek, Gateway, Confirm, Inv, Shape, AwakeHasNoMark, Held, ByOwner, Judged, Callers, row, budget
<1>4. CASE Settings \/ Turn \/ Spend \/ Wait
  BY <1>4 DEF Settings, Turn, Spend, Wait, Inv, Shape, AwakeHasNoMark, Held, ByOwner, Judged, Callers, row, chat, budget
<1>5. CASE Raise
  BY <1>5 DEF Raise, Inv, Shape, AwakeHasNoMark, Held, ByOwner, Judged, Callers, row, chat
<1> QED BY <1>1, <1>2, <1>3, <1>4, <1>5 DEF World

LEMMA WakingStep == ASSUME Inv, Waking PROVE Inv'
<1>1. CASE PollList \/ PollRead \/ WakeByHand
  BY <1>1 DEF PollList, PollRead, WakeByHand, MayWake, Free, Inv, Shape, AwakeHasNoMark, Held, ByOwner,
     Judged, Callers, row, chat, budget
<1>2. CASE PollJudge
  BY <1>2 DEF PollJudge, MayWake, Free, Inv, Shape, AwakeHasNoMark, Held, ByOwner, Judged, Callers, chat, budget
<1>3. CASE Woken
  BY <1>3 DEF Woken, RowRunning, Release, Inv, Shape, AwakeHasNoMark, Held, ByOwner, Judged, Callers, chat, budget
<1>4. CASE WakeFails
  BY <1>4 DEF WakeFails, RowStopped, Release, Inv, Shape, AwakeHasNoMark, Held, ByOwner, Judged, Callers, row, chat, budget
<1> QED BY <1>1, <1>2, <1>3, <1>4 DEF Waking

LEMMA OwnerStep == ASSUME Inv, Owner PROVE Inv'
<1>1. CASE StopBegin \/ StartBegin \/ DockerFails
  BY <1>1 DEF StopBegin, StartBegin, DockerFails, Release, Free, Inv, Shape, AwakeHasNoMark, Held, ByOwner,
     Judged, Callers, row, chat, budget
<1>2. CASE Stopped
  BY <1>2 DEF Stopped, DisownPause, Open, Release, Inv, Shape, AwakeHasNoMark, Held, ByOwner, Judged, chat, Callers
<1>3. CASE Started
  BY <1>3 DEF Started, RowRunning, Release, Inv, Shape, AwakeHasNoMark, Held, ByOwner, Judged, chat, Callers
<1>4. CASE Rebuilt
  BY <1>4 DEF Rebuilt, RowRunning, Free, Inv, Shape, AwakeHasNoMark, Held, ByOwner, Judged, Callers, chat, budget
<1> QED BY <1>1, <1>2, <1>3, <1>4 DEF Owner

LEMMA PassStep == ASSUME Inv, Pass PROVE Inv'
<1>1. CASE ClosePause
  BY <1>1 DEF ClosePause, Inv, Shape, AwakeHasNoMark, Held, ByOwner, Judged, Callers, row, chat
<1>2. CASE Unpause \/ PauseRunning
  BY <1>2 DEF Unpause, PauseRunning, Free, Inv, Shape, AwakeHasNoMark, Held, ByOwner, Judged, Callers, row, chat, budget
<1>3. CASE Unpaused
  BY <1>3 DEF Unpaused, RowRunning, Release, Inv, Shape, AwakeHasNoMark, Held, ByOwner, Judged, chat, Callers
<1>4. CASE Paused
  BY <1>4 DEF Paused, RowStopped, Release, Inv, Shape, AwakeHasNoMark, Held, ByOwner, Judged, chat, Callers
<1>5. CASE PauseSleeper
  BY <1>5 DEF PauseSleeper, StillAsleep, RowStopped, Free, Inv, Shape, AwakeHasNoMark, Held, ByOwner, Judged, chat, Callers
<1>6. CASE RecordStopped
  BY <1>6 DEF RecordStopped, Inv, Shape, AwakeHasNoMark, Held, ByOwner, Judged, Callers, row, chat
<1> QED BY <1>1, <1>2, <1>3, <1>4, <1>5, <1>6 DEF Pass

LEMMA ReconcileStep == ASSUME Inv, Reconcile PROVE Inv'
BY DEF Reconcile, RowRunning, Free, Inv, Shape, AwakeHasNoMark, Held, ByOwner, Judged, Callers, chat, budget

LEMMA CrashStep == ASSUME Inv, Crash PROVE Inv'
<1>1. sleeper' = [c \in Callers |-> Awake] /\ busy' = "free"
      /\ UNCHANGED <<state, bed, woken, now, active, next, queue, hand, pause>>
  BY DEF Crash, Release, row, chat, budget
<1>2. Shape'
  BY <1>1, AwakeIs DEF Inv, Shape
<1>3. Held' /\ Judged'
  BY <1>1, AwakeIs DEF Inv, Held, Judged, Callers
<1> QED BY <1>1, <1>2, <1>3 DEF Inv, AwakeHasNoMark, ByOwner
-----------------------------------------------------------------------------
(* The two sleepers.  A sleeper that locks the agent, or records that it     *)
(* sleeps, is the only one that moves it until the stop has been answered.   *)
LEMMA SleepStep == ASSUME Inv, NEW c \in Callers, Sleeping(c) PROVE Inv'
<1>0. Shape /\ sleeper[c] \in Sleeper /\ {now, active} \subseteq Nat
  BY DEF Inv, Shape
<1>1. CASE SleepJudge(c) /\ c = "sweep"
  <2> DEFINE k == [Awake EXCEPT !.pc = "judged", !.seen = active]
  <2>1. k \in Sleeper /\ k.pc = "judged" /\ k.seen = active
    BY <1>0 DEF Awake, Sleeper, None
  <2>2. sleeper' = [sleeper EXCEPT ![c] = k] /\ Rested
        /\ UNCHANGED <<row, busy, chat, now, budget, hand>>
    BY <1>1 DEF SleepJudge
  <2> HIDE DEF k
  <2>3. sleeper' \in [Callers -> Sleeper] /\ sleeper'[c] = k
        /\ \A d \in Callers \ {c} : sleeper'[d] = sleeper[d]
    BY <1>0, <2>1, <2>2, SleeperMoved
  <2>4. now >= active + After
    BY <1>0, <2>2, BoundsAssumption DEF Rested, Later, Inv, Shape
  <2>5. Judged'
    BY <1>1, <2>1, <2>2, <2>3, <2>4 DEF Judged
  <2>6. Held'
    BY <2>1, <2>2, <2>3 DEF Inv, Held, row
  <2> QED BY <2>2, <2>3, <2>5, <2>6 DEF Inv, Shape, AwakeHasNoMark, ByOwner, row, chat, budget
<1>2. CASE SleepJudge(c) /\ c # "sweep"
  <2> DEFINE k == [Awake EXCEPT !.pc = "locked"]
  <2>1. k \in Sleeper /\ k.pc = "locked"
    BY DEF Awake, Sleeper, None
  <2>2. sleeper' = [sleeper EXCEPT ![c] = k] /\ state = "RUNNING" /\ busy = "free" /\ busy' = c
        /\ UNCHANGED <<row, chat, now, budget, hand>>
    BY <1>2 DEF SleepJudge, Free
  <2> HIDE DEF k
  <2>3. sleeper' \in [Callers -> Sleeper] /\ sleeper'[c] = k
        /\ \A d \in Callers \ {c} : sleeper'[d] = sleeper[d]
    BY <1>0, <2>1, <2>2, SleeperMoved
  <2>5. Judged'
    BY <1>2, <2>2, <2>3 DEF Inv, Judged, Callers
  <2>6. Held'
    BY <2>1, <2>2, <2>3 DEF Inv, Held, row, Callers
  <2> QED BY <2>2, <2>3, <2>5, <2>6 DEF Inv, Shape, AwakeHasNoMark, ByOwner, row, chat, budget
<1>3. CASE SleepLock(c)
  <2>1. PICK k \in {[sleeper[c] EXCEPT !.pc = "locked"], Awake} :
          /\ sleeper' = [sleeper EXCEPT ![c] = k] /\ UNCHANGED <<row, chat, now, budget, hand>>
          /\ \/ k = Awake /\ busy' = busy
             \/ k = [sleeper[c] EXCEPT !.pc = "locked"] /\ state = "RUNNING" /\ busy = "free" /\ busy' = c
    BY <1>3 DEF SleepLock, Free
  <2>2. /\ k \in Sleeper /\ k.pc \in {"locked", "idle"} /\ sleeper[c].pc = "judged"
        /\ k.pc = "locked" => k.seen = sleeper[c].seen /\ state = "RUNNING" /\ busy = "free" /\ busy' = c
        /\ k.pc = "idle" => busy' = busy
    <3>1. /\ [sleeper[c] EXCEPT !.pc = "locked"] \in Sleeper
          /\ [sleeper[c] EXCEPT !.pc = "locked"].pc = "locked"
          /\ [sleeper[c] EXCEPT !.pc = "locked"].seen = sleeper[c].seen
      BY <1>0, NewPc
    <3>2. sleeper[c].pc = "judged"
      BY <1>3 DEF SleepLock
    <3>3. CASE k = Awake /\ busy' = busy
      BY <3>2, <3>3, AwakeIs
    <3>4. CASE k = [sleeper[c] EXCEPT !.pc = "locked"] /\ state = "RUNNING" /\ busy = "free" /\ busy' = c
      BY <3>1, <3>2, <3>4
    <3> QED BY <2>1, <3>3, <3>4
  <2>3. sleeper' \in [Callers -> Sleeper] /\ sleeper'[c] = k
        /\ \A d \in Callers \ {c} : sleeper'[d] = sleeper[d]
    BY <1>0, <2>1, <2>2, SleeperMoved
  <2>5. Judged'
    BY <2>1, <2>2, <2>3 DEF Inv, Judged, Callers
  <2>6. Held'
    BY <2>1, <2>2, <2>3 DEF Inv, Held, row, Callers
  <2> QED BY <2>1, <2>3, <2>5, <2>6 DEF Inv, Shape, AwakeHasNoMark, ByOwner, row, chat, budget
<1>4. CASE SleepRecord(c) /\ Settled(c) /\ StillQuiet(c)
  <2> DEFINE k == [sleeper[c] EXCEPT !.pc = "stopping", !.bed = now]
  <2>1. k \in Sleeper /\ k.pc = "stopping"
    BY <1>0 DEF Sleeper
  <2>2. /\ sleeper' = [sleeper EXCEPT ![c] = k] /\ busy' = busy /\ sleeper[c].pc = "locked"
        /\ state' = "STOPPED" /\ UNCHANGED <<woken, chat, now, budget, hand>>
    BY <1>4 DEF SleepRecord, RowAsleep
  <2> HIDE DEF k
  <2>3. sleeper' \in [Callers -> Sleeper] /\ sleeper'[c] = k
        /\ \A d \in Callers \ {c} : sleeper'[d] = sleeper[d]
    BY <1>0, <2>1, <2>2, SleeperMoved
  <2>4. busy = c /\ state = "RUNNING" /\ ~hand
    BY <2>2 DEF Inv, Held, ByOwner
  <2>5. Judged'
    BY <2>1, <2>2, <2>3 DEF Inv, Judged, Callers
  <2>6. Held'
    BY <2>1, <2>2, <2>3, <2>4 DEF Inv, Held, Callers
  <2> QED BY <2>2, <2>3, <2>4, <2>5, <2>6 DEF Inv, Shape, AwakeHasNoMark, ByOwner, chat, budget
<1>5. CASE \/ SleepRecord(c) /\ ~(Settled(c) /\ StillQuiet(c))
           \/ SleepStopFails(c)
  <2>1. /\ sleeper' = [sleeper EXCEPT ![c] = Awake] /\ busy' = "free" /\ UNCHANGED <<chat, now, budget, hand>>
        /\ \/ UNCHANGED row
           \/ RowRunning /\ sleeper[c].pc = "stopping"
    BY <1>5 DEF SleepRecord, SleepStopFails, Release
  <2>2. sleeper' \in [Callers -> Sleeper] /\ sleeper'[c] = Awake
        /\ \A d \in Callers \ {c} : sleeper'[d] = sleeper[d]
    BY <1>0, <2>1, AwakeIs, SleeperMoved
  <2>3. busy = c
    BY <1>5 DEF SleepRecord, SleepStopFails, Inv, Held
  <2>4. Judged'
    BY <2>1, <2>2, AwakeIs DEF Inv, Judged, Callers
  <2>5. Held'
    BY <2>1, <2>2, <2>3, AwakeIs DEF Inv, Held, Callers
  <2>6. AwakeHasNoMark' /\ ByOwner'
    BY <2>1 DEF Inv, AwakeHasNoMark, ByOwner, Held, RowRunning, row, budget
  <2> QED BY <2>1, <2>2, <2>4, <2>5, <2>6 DEF Inv, Shape, RowRunning, row, chat
<1>6. CASE SleepStopped(c) \/ SleepRead(c) \/ SleepMark(c)
  <2>1. PICK k \in Sleeper : sleeper' = [sleeper EXCEPT ![c] = k] /\ k.pc \in {"marking", "read", "idle"}
    <3>1. CASE SleepStopped(c)
      BY <1>0, <3>1, NewPc DEF SleepStopped
    <3>2. CASE SleepRead(c)
      <4>1. PICK page \in {FirstPage(queue), {}} :
               sleeper' = [sleeper EXCEPT ![c].pc = "read", ![c].page = page]
        BY <3>2 DEF SleepRead
      <4> DEFINE k == [sleeper[c] EXCEPT !.pc = "read", !.page = page]
      <4>2. page \subseteq Update
        BY PageOf DEF Inv, Shape
      <4>3. k \in Sleeper /\ k.pc = "read"
        BY <1>0, <4>2 DEF Sleeper
      <4>4. sleeper' = [sleeper EXCEPT ![c] = k]
        BY <1>0, <4>1 DEF Shape
      <4> QED BY <4>3, <4>4
    <3>3. CASE SleepMark(c)
      BY <3>3, AwakeIs DEF SleepMark
    <3> QED BY <1>6, <3>1, <3>2, <3>3
  <2>2. sleeper' \in [Callers -> Sleeper] /\ sleeper'[c] = k
        /\ \A d \in Callers \ {c} : sleeper'[d] = sleeper[d]
    BY <1>0, <2>1, SleeperMoved
  <2>3. /\ UNCHANGED <<state, chat, now, budget, hand, woken>>
        /\ \/ bed' = bed
           \/ state = "STOPPED" /\ bed # None
        /\ \/ busy' = busy
           \/ busy' = "free" /\ sleeper[c].pc = "stopping"
    BY <1>6 DEF SleepStopped, SleepRead, SleepMark, RowAsleep, MarksSleeper, StillAsleep, Release, row
  <2>4. Judged'
    BY <2>1, <2>2, <2>3 DEF Inv, Judged, Callers
  <2>5. Held'
    BY <2>1, <2>2, <2>3 DEF Inv, Held, Callers
  <2> QED BY <2>2, <2>3, <2>4, <2>5 DEF Inv, Shape, AwakeHasNoMark, ByOwner, chat, budget
<1> QED BY <1>1, <1>2, <1>3, <1>4, <1>5, <1>6 DEF Sleeping
-----------------------------------------------------------------------------
LEMMA InvInit == ASSUME Init PROVE Inv
<1>1. sleeper = [c \in Callers |-> Awake] /\ state = "RUNNING" /\ bed = None /\ busy = "free"
      /\ queue = {} /\ active = 1 /\ next = First /\ now = 1 /\ woken = 1 /\ hand = FALSE
  BY DEF Init
<1>2. First \in Nat
  BY BoundsAssumption DEF First
<1> QED BY <1>1, <1>2, AwakeIs DEF Inv, Shape, AwakeHasNoMark, Held, ByOwner, Judged, Callers

LEMMA InvNext == ASSUME Inv, [Next]_vars PROVE Inv'
<1>1. CASE UNCHANGED vars
  BY <1>1 DEF vars, row, chat, budget, Inv, Shape, AwakeHasNoMark, Held, ByOwner, Judged
<1> QED BY <1>1, WorldStep, SleepStep, WakingStep, OwnerStep, PassStep, ReconcileStep, CrashStep DEF Next

(* A sleeper's mark never stays on a running agent.                        *)
THEOREM MarkOnlyAsleep == Spec => []AwakeHasNoMark
<1>1. Init => Inv
  BY InvInit
<1>2. Inv /\ [Next]_vars => Inv'
  BY InvNext
<1>3. Inv => AwakeHasNoMark
  BY DEF Inv
<1> QED BY <1>1, <1>2, <1>3, PTL DEF Spec

(* The idle sweep stops what is idle now, not what was when it looked.     *)
THEOREM OnlyIdleSleeps == Spec => SleepOnlyIdle
<1> DEFINE A == \A c \in Callers : sleeper[c].pc = "locked" /\ sleeper'[c].pc = "stopping" =>
                  /\ stay # "tasks"
                  /\ c = "sweep" => stay = "no" /\ now >= active + After
<1>1. Init => Inv
  BY InvInit
<1>2. Inv /\ [Next]_vars => Inv'
  BY InvNext
<1>3. Inv /\ [Next]_vars => [A]_vars
  <2> SUFFICES ASSUME Inv, Next, NEW c \in Callers,
                      sleeper[c].pc = "locked", sleeper'[c].pc = "stopping"
               PROVE  /\ stay # "tasks"
                      /\ c = "sweep" => stay = "no" /\ now >= active + After
    OBVIOUS
  <2>1. PICK d \in Callers : Sleeping(d)
    <3>1. CASE World \/ Waking \/ Owner \/ Pass \/ Reconcile
      <4>1. sleeper' = sleeper
        BY <3>1 DEF World, Tick, Send, QuietWeek, Gateway, Confirm, Settings, Turn, Spend, Wait, Raise,
           Waking, PollList, PollRead, PollJudge, WakeByHand, Woken, WakeFails,
           Owner, StopBegin, Stopped, StartBegin, Started, Rebuilt, DockerFails,
           Pass, ClosePause, Unpause, Unpaused, PauseRunning, Paused, PauseSleeper, RecordStopped, Reconcile
      <4> QED BY <4>1
    <3>2. CASE Crash
      BY <3>2, AwakeIs DEF Crash
    <3> QED BY <3>1, <3>2 DEF Next
  <2>2. sleeper \in [Callers -> Sleeper]
    BY DEF Inv, Shape
  <2>3. PICK k \in Sleeper \cup {sleeper'[d]} : sleeper' = [sleeper EXCEPT ![d] = k]
    BY <2>1, <2>2 DEF Sleeping, SleepJudge, SleepLock, SleepRecord, SleepStopped, SleepStopFails, SleepRead, SleepMark
  <2>4. d = c
    BY <2>2, <2>3
  <2>5. SleepRecord(c) /\ Settled(c) /\ StillQuiet(c)
    BY <2>1, <2>2, <2>4, AwakeIs DEF Sleeping, SleepJudge, SleepLock, SleepRecord, SleepStopped, SleepStopFails,
       SleepRead, SleepMark
  <2>6. c = "sweep" => now >= sleeper[c].seen + After /\ sleeper[c].seen \in Nat /\ active \in Nat /\ now \in Nat
    BY <2>2 DEF Inv, Judged, Shape, Sleeper
  <2> QED BY <2>5, <2>6, BoundsAssumption DEF Settled, StillQuiet, Callers
<1> QED BY <1>1, <1>2, <1>3, PTL DEF Spec, SleepOnlyIdle

(* Neither the wake sweep nor the end of a pause starts what its owner      *)
(* stopped, before the limit or after it.                                   *)
THEOREM NobodyElseStarts == Spec => OwnerStopStands
<1> DEFINE A == busy = "free" /\ busy' \in {"wake", "unpause"} => ~hand
<1>1. Init => Inv
  BY InvInit
<1>2. Inv /\ [Next]_vars => Inv'
  BY InvNext
<1>3. Inv /\ [Next]_vars => [A]_vars
  <2> SUFFICES ASSUME Inv, Next, busy = "free", busy' \in {"wake", "unpause"} PROVE ~hand
    OBVIOUS
  <2>1. hand => bed = None /\ pause # "paused"
    BY DEF Inv, ByOwner
  <2>2. CASE World \/ Reconcile \/ Crash \/ Owner
    BY <2>2 DEF World, Tick, Send, QuietWeek, Gateway, Confirm, Settings, Turn, Spend, Wait, Raise, Reconcile,
       Crash, Release, Owner, StopBegin, Stopped, StartBegin, Started, Rebuilt, DockerFails
  <2>3. CASE Waking
    BY <2>1, <2>3 DEF Waking, PollList, PollRead, PollJudge, WakeByHand, Woken, WakeFails, MayWake, Release
  <2>4. CASE Pass
    BY <2>1, <2>4 DEF Pass, ClosePause, Unpause, Unpaused, PauseRunning, Paused, PauseSleeper, RecordStopped,
       Release, PauseEnds, Open, OwnersToStart
  <2>5. CASE \E c \in Callers : Sleeping(c)
    BY <2>5 DEF Sleeping, SleepJudge, SleepLock, SleepRecord, SleepStopped, SleepStopFails, SleepRead, SleepMark,
       Release, Callers
  <2> QED BY <2>2, <2>3, <2>4, <2>5 DEF Next
<1> QED BY <1>1, <1>2, <1>3, PTL DEF Spec, OwnerStopStands
=============================================================================
