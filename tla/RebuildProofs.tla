---------------------------- MODULE RebuildProofs ----------------------------
(***************************************************************************)
(* That every move of an agent's state is in the table the code checks it    *)
(* against, that no change of its settings is lost, that a container is not  *)
(* left on a bot given back and that nothing undoes its owner's Stop, for    *)
(* any number of changes, bots, deaths and orders.                          *)
(*                                                                         *)
(* The table of the moves says nothing of why they are made.  Inv does: who  *)
(* holds the busy flag holds the agent's state with it (Holder), and of what *)
(* died with a process at most one operation had touched the agent, and      *)
(* nothing builds beside it (OneCut).  The other three need what the         *)
(* container was ordered and made from: More, in the second half.            *)
(***************************************************************************)
EXTENDS Rebuild, TLAPS

Kinds   == {"rebuild", "provision"}
Places  == {"none", "queued", "snap", "render", "stop", "make", "start", "health"}
Builds  == Places \ {"none", "queued"}
TaskRec == [pc : Places, kind : Kinds, was : States, spec : [bot : Nat, conf : Nat]]
OldRec  == [kind : Kinds, was : States, st : {"queued", "cut", "recovering"}]
Shape ==
  /\ state \in States
  /\ {bot, conf} \subseteq Nat
  /\ task \in TaskRec
  /\ hand \in [pc : {"idle", "stop", "release", "row"}, was : Settled]
  /\ old \subseteq OldRec

Busy(kind) == IF kind = "rebuild" THEN "REBUILDING" ELSE "PROVISIONING"
(* The state an agent is in while its build is at a place.                  *)
Fits(pc, kind, s) ==
  /\ pc = "snap" => s = "RUNNING" /\ kind = "rebuild"
  /\ pc = "render" /\ kind = "rebuild" => s \in {"REBUILDING", "STOPPED"}
  /\ pc = "render" /\ kind = "provision" => s = "PROVISIONING"
  /\ pc \in {"stop", "make", "start", "health"} => s = Busy(kind)
AtRest(t) ==
  /\ t \in TaskRec /\ t.pc \in {"none", "queued"}
  /\ t.pc = "none" => t = NoTask
  /\ t.pc = "queued" => t.kind = "rebuild"
Holder ==
  /\ lock = "stop" => state = "RUNNING"
  /\ lock = "start" => state = "STOPPED"
  /\ hand.pc = "stop" => state \in Settled
  /\ hand.pc \in {"stop", "release"} => lock = "hand"
  /\ task.pc \in Builds => lock = "build" /\ Fits(task.pc, task.kind, state)
  /\ task.pc \notin Builds => AtRest(task)
  /\ \A o \in old : o.st = "recovering" => lock = "recover" /\ state = BusyState(o)
OneCut ==
  /\ \A o, p \in old : o.st # "queued" /\ p.st # "queued" => o = p
  /\ task.pc \in Builds => \A o \in old : o.st = "queued"
Inv == Shape /\ Holder /\ OneCut
-----------------------------------------------------------------------------
LEMMA NoTaskIs == NoTask \in TaskRec /\ NoTask.pc = "none" /\ AtRest(NoTask)
BY DEF AtRest, NoTask, TaskRec, Places, Kinds, States, Settled

LEMMA QueuedIs == ASSUME NEW s \in States PROVE AtRest(Queued(s))
BY DEF AtRest, Queued, NoTask, TaskRec, Places, Kinds, States, Settled

LEMMA OverIs ==
  ASSUME NEW s \in States, Over(s)
  PROVE  AtRest(task')
BY NoTaskIs, QueuedIs DEF Over

LEMMA NewPc ==
  ASSUME NEW k \in TaskRec, NEW p \in Places
  PROVE  /\ [k EXCEPT !.pc = p] \in TaskRec
         /\ [k EXCEPT !.pc = p].pc = p /\ [k EXCEPT !.pc = p].kind = k.kind
BY DEF TaskRec

(* A step that changes none of what Holder and OneCut speak of, or only the  *)
(* task, before its turn or after its end.                                  *)
LEMMA Beside ==
  ASSUME Inv, UNCHANGED <<state, lock, hand, old>>, {bot, conf}' \subseteq Nat,
         task' = task \/ AtRest(task')
  PROVE  Inv'
BY DEF AtRest, Inv, Shape, Holder, OneCut, Builds

(* The owner's orders.                                                     *)
LEMMA OwnerStep == ASSUME Inv, Owner PROVE Inv'
<1>0. state \in States /\ {bot, conf} \subseteq Nat
  BY DEF Inv, Shape
<1>1. CASE Change
  <2>1. task' = task \/ task' = Queued(state)
    BY <1>1 DEF Change
  <2>2. UNCHANGED <<state, lock, hand, old>> /\ {bot, conf}' \subseteq Nat
    BY <1>0, <1>1 DEF Change
  <2> QED BY <1>0, <2>1, <2>2, QueuedIs, Beside
<1>2. CASE Rebuild \/ StartRebuilds
  <2>1. task' = Queued(state)
    BY <1>2 DEF Rebuild, StartRebuilds
  <2>2. UNCHANGED <<state, lock, hand, old>> /\ {bot, conf}' \subseteq Nat
    BY <1>0, <1>2 DEF Rebuild, StartRebuilds, row
  <2> QED BY <1>0, <2>1, <2>2, QueuedIs, Beside
<1>3. CASE Retry
  <2> DEFINE k == [NoTask EXCEPT !.pc = "render", !.kind = "provision"]
  <2>1. k \in TaskRec /\ k.pc = "render" /\ k.kind = "provision"
    BY DEF NoTask, TaskRec, Places, Kinds, States, Settled
  <2>2. /\ task' = k /\ lock = "free" /\ state = "FAILED" /\ ~Interrupted /\ lock' = "build"
        /\ state' = "PROVISIONING" /\ UNCHANGED <<hand, old, bot, conf>>
    BY <1>3 DEF Retry, Free
  <2> HIDE DEF k
  <2>3. Shape'
    BY <2>1, <2>2 DEF Inv, Shape, States
  <2>4. Holder'
    BY <2>1, <2>2 DEF Inv, Holder, Fits, Interrupted, Settled, Builds, Places
  <2>5. OneCut'
    BY <2>2 DEF Inv, OneCut, Interrupted
  <2> QED BY <2>3, <2>4, <2>5 DEF Inv
<1>4. CASE StopBegin \/ StartBegin \/ DockerRefuses \/ Stopped \/ Started
  <2>1. /\ UNCHANGED <<task, hand, old, bot, conf>>
        /\ \/ lock = "free" /\ lock' = "stop" /\ state = "RUNNING" /\ state' = state
           \/ lock = "free" /\ lock' = "start" /\ state = "STOPPED" /\ state' = state
           \/ lock \in {"stop", "start"} /\ lock' = "free" /\ state' \in {state, "RUNNING", "STOPPED"}
    BY <1>4 DEF StopBegin, StartBegin, MayStart, DockerRefuses, Stopped, Started, Free, row
  <2> QED BY <2>1 DEF Inv, Shape, Holder, OneCut, States, Settled
<1>5. CASE Ages
  BY <1>0, <1>5, Beside DEF Ages, row
<1> QED BY <1>1, <1>2, <1>3, <1>4, <1>5 DEF Owner

(* A bot's handover holds the flag until the new row.                      *)
LEMMA HandoverStep == ASSUME Inv, Handover PROVE Inv'
<1> DEFINE Hands == [pc : {"idle", "stop", "release", "row"}, was : Settled]
<1>0. state \in States /\ {bot, conf} \subseteq Nat /\ hand \in Hands
  BY DEF Inv, Shape
<1>1. CASE HandBegin
  <2>1. /\ hand' = [pc |-> "stop", was |-> state] /\ state \in Settled /\ lock = "free" /\ lock' = "hand"
        /\ UNCHANGED <<state, bot, conf, task, old>>
    BY <1>1 DEF HandBegin, HandsOver, Free, row
  <2> QED BY <2>1 DEF Inv, Shape, Holder, OneCut
<1>2. CASE HandStopped
  <2>1. /\ hand' = [hand EXCEPT !.pc = "release"] /\ hand.pc = "stop" /\ state' = "STOPPED"
        /\ UNCHANGED <<lock, bot, conf, task, old>>
    BY <1>2 DEF HandStopped
  <2>2. hand' \in Hands /\ hand'.pc = "release"
    BY <1>0, <2>1
  <2>3. lock = "hand"
    BY <2>1 DEF Inv, Holder
  <2> QED BY <2>1, <2>2, <2>3 DEF Inv, Shape, Holder, OneCut, States, Settled
<1>3. CASE HandRefused \/ HandRow
  <2>1. PICK p \in {"idle", "row"} : hand' \in Hands /\ hand'.pc = p
    BY <1>0, <1>3 DEF HandRefused, HandRow, Idle, Settled
  <2>2. lock = "hand" /\ lock' = "free" /\ {bot, conf}' \subseteq Nat /\ UNCHANGED <<state, task, old>>
    BY <1>0, <1>3 DEF HandRefused, HandRow, Inv, Holder, row
  <2> QED BY <2>1, <2>2 DEF Inv, Shape, Holder, OneCut
<1>4. CASE HandRebuild
  <2>1. hand' \in Hands /\ hand'.pc = "idle"
    BY <1>4 DEF HandRebuild, Idle, Settled
  <2>2. task' = task \/ task' = Queued(state)
    BY <1>4 DEF HandRebuild
  <2>3. task' = task \/ AtRest(task')
    BY <1>0, <2>2, QueuedIs
  <2>4. UNCHANGED <<state, bot, conf, lock, old>>
    BY <1>4 DEF HandRebuild
  <2> QED BY <2>1, <2>3, <2>4 DEF AtRest, Inv, Shape, Holder, OneCut, Builds
<1> QED BY <1>1, <1>2, <1>3, <1>4 DEF Handover

(* The build's own steps; its end is a move out of the state it holds.      *)
LEMMA BuildOn ==
  ASSUME Inv, NEW p \in Builds, NEW k \in TaskRec, task' = k, k.pc = p, k.kind = task.kind,
         state' \in States, Fits(p, k.kind, state'), lock' = "build",
         ~Interrupted, lock \in {"free", "build"}, UNCHANGED <<bot, conf, hand, old>>
  PROVE  Inv'
<1>1. Shape'
  BY DEF Inv, Shape
<1>2. Holder'
  BY DEF Inv, Holder, Interrupted
<1>3. OneCut'
  BY DEF Inv, OneCut, Interrupted
<1> QED BY <1>1, <1>2, <1>3 DEF Inv

LEMMA BuildOver ==
  ASSUME Inv, task.pc \in Builds, Over(state'), lock' = "free", state' \in States,
         UNCHANGED <<bot, conf, hand, old>>
  PROVE  Inv'
<1>1. AtRest(task')
  BY OverIs
<1>2. lock = "build"
  BY DEF Inv, Holder
<1> QED BY <1>1, <1>2 DEF AtRest, Inv, Shape, Holder, OneCut, Builds

LEMMA BuildingStep == ASSUME Inv, Building PROVE Inv'
<1>0. /\ state \in States /\ {bot, conf} \subseteq Nat /\ task \in TaskRec
      /\ task.pc \in Builds => lock = "build" /\ Fits(task.pc, task.kind, state) /\ ~Interrupted
  BY DEF Inv, Shape, Holder, OneCut, Interrupted
<1>1. CASE TurnStale \/ TurnFails
  <2>1. Over(state) /\ UNCHANGED <<state, bot, conf, lock, hand, old>>
    BY <1>1 DEF TurnStale, TurnFails, row
  <2>2. AtRest(task')
    BY <1>0, <2>1, OverIs
  <2> QED BY <1>0, <2>1, <2>2, Beside
<1>2. CASE TurnTaken
  <2> DEFINE p == IF state = "RUNNING" THEN "snap" ELSE "render"
             k == [task EXCEPT !.pc = p]
  <2>1. p \in Places /\ p \in Builds
    BY DEF Places, Builds
  <2>2. k \in TaskRec /\ k.pc = p /\ k.kind = task.kind
    BY <1>0, <2>1, NewPc
  <2>3. /\ task' = k /\ lock = "free" /\ lock' = "build" /\ ~Interrupted /\ state \in Settled
        /\ task.pc = "queued" /\ UNCHANGED <<state, bot, conf, hand, old>>
    BY <1>2 DEF TurnTaken, AtTurn, Free, row
  <2>4. task.kind = "rebuild"
    BY <2>3 DEF Inv, Holder, AtRest, Builds
  <2>5. Fits(p, "rebuild", state)
    BY <2>3 DEF Fits, Settled
  <2> HIDE DEF k, p
  <2> QED BY <1>0, <2>1, <2>2, <2>3, <2>4, <2>5, BuildOn
<1>3. CASE Snapped
  <2> DEFINE k == [task EXCEPT !.pc = "render"]
  <2>1. "render" \in Places /\ "render" \in Builds
    BY DEF Places, Builds
  <2>2. k \in TaskRec /\ k.pc = "render" /\ k.kind = task.kind
    BY <1>0, <2>1, NewPc
  <2>3. /\ task' = k /\ task.pc = "snap" /\ state' = "REBUILDING" /\ UNCHANGED <<lock, bot, conf, hand, old>>
    BY <1>3 DEF Snapped
  <2>4. lock = "build" /\ ~Interrupted /\ task.kind = "rebuild"
    BY <1>0, <2>3 DEF Builds, Places, Fits
  <2>5. Fits("render", "rebuild", state') /\ state' \in States
    BY <2>3 DEF Fits, States
  <2> HIDE DEF k
  <2> QED BY <2>1, <2>2, <2>3, <2>4, <2>5, BuildOn
<1>4. CASE Rendered
  <2> DEFINE p == IF task.kind = "rebuild" THEN "stop" ELSE "make"
             k == [task EXCEPT !.pc = p, !.spec = Row]
  <2>1. p \in Builds /\ p \in Places
    BY DEF Places, Builds
  <2>2. k \in TaskRec /\ k.pc = p /\ k.kind = task.kind
    BY <1>0, <2>1 DEF TaskRec, Row
  <2>3. /\ task' = k /\ task.pc = "render" /\ UNCHANGED <<lock, bot, conf, hand, old>>
        /\ state' = IF task.kind = "rebuild" THEN "REBUILDING" ELSE state
    BY <1>4 DEF Rendered
  <2>4. lock = "build" /\ ~Interrupted /\ Fits("render", task.kind, state)
    BY <1>0, <2>3 DEF Builds, Places
  <2>5. state' \in States /\ task.kind \in Kinds
    BY <1>0, <2>3 DEF States, TaskRec
  <2>6. Fits(p, task.kind, state')
    BY <2>3, <2>4, <2>5 DEF Fits, Busy, Kinds
  <2> HIDE DEF k, p
  <2> QED BY <2>1, <2>2, <2>3, <2>4, <2>5, <2>6, BuildOn
<1>5. CASE OldStopped \/ Made \/ NewStarted
  <2>1. PICK p \in {"make", "start", "health"} : task' = [task EXCEPT !.pc = p]
    BY <1>5 DEF OldStopped, Made, NewStarted
  <2>2. task.pc \in {"stop", "make", "start"} /\ UNCHANGED <<state, lock, bot, conf, hand, old>>
    BY <1>5 DEF OldStopped, Made, NewStarted, row
  <2>3. p \in Places /\ p \in Builds
    BY DEF Places, Builds
  <2> DEFINE k == [task EXCEPT !.pc = p]
  <2>4. k \in TaskRec /\ k.pc = p /\ k.kind = task.kind
    BY <1>0, <2>3, NewPc
  <2>5. lock = "build" /\ ~Interrupted /\ Fits(p, task.kind, state)
    BY <1>0, <2>2 DEF Builds, Places, Fits
  <2> HIDE DEF k
  <2> QED BY <1>0, <2>1, <2>2, <2>3, <2>4, <2>5, BuildOn DEF k
<1>6. CASE RenderRefused \/ Built \/ BuildFails
  <2>1. task.pc \in Builds
    BY <1>6 DEF RenderRefused, Built, BuildFails, Builds, Places
  <2>2. lock' = "free" /\ Over(state') /\ UNCHANGED <<bot, conf, hand, old>>
    BY <1>6 DEF RenderRefused, Built, BuildFails
  <2>3. state' \in States
    BY <1>0, <1>6 DEF RenderRefused, Built, BuildFails, KeptAs, States, Settled
  <2> QED BY <2>1, <2>2, <2>3, BuildOver
<1> QED BY <1>1, <1>2, <1>3, <1>4, <1>5, <1>6 DEF Building
-----------------------------------------------------------------------------
(* The process dies with one build at most: it is the only operation that   *)
(* may have touched the agent.                                              *)
LEMMA CrashStep == ASSUME Inv, Crash PROVE Inv'
<1> DEFINE Cut(o) == [o EXCEPT !.st = IF @ = "queued" THEN @ ELSE "cut"]
<1>1. /\ old' = {Cut(o) : o \in old} \cup Leftover
      /\ task' = NoTask /\ hand' = Idle /\ lock' = "free" /\ UNCHANGED <<state, bot, conf>>
  BY DEF Crash, row
<1>2. ASSUME NEW o \in old
      PROVE  /\ Cut(o) \in OldRec /\ Cut(o).st \in {"queued", "cut"}
             /\ Cut(o).st = "queued" <=> o.st = "queued"
  <2>1. o \in OldRec
    BY DEF Inv, Shape
  <2> QED BY <2>1 DEF OldRec
<1>3. ASSUME NEW o \in Leftover
      PROVE  /\ o \in OldRec /\ o.st \in {"queued", "cut"}
             /\ o.st # "queued" => task.pc \in Builds /\ \A q \in Leftover : q = o
  <2>1. task \in TaskRec /\ task # NoTask
    BY <1>3 DEF Inv, Shape, Leftover, Inflight
  <2>2. /\ o = [kind |-> task.kind, was |-> task.was, st |-> IF task.pc = "queued" THEN "queued" ELSE "cut"]
        /\ \A q \in Leftover : q = o
    BY <1>3 DEF Leftover
  <2>3. task.pc # "queued" => task.pc \in Builds
    <3>1. task.pc # "none"
      BY <2>1 DEF Inv, Holder, AtRest, Builds
    <3> QED BY <2>1, <3>1 DEF TaskRec, Builds
  <2> QED BY <2>1, <2>2, <2>3 DEF TaskRec, OldRec
<1> HIDE DEF Cut
<1>4. Shape'
  BY <1>1, <1>2, <1>3, NoTaskIs DEF Inv, Shape, Idle, Settled
<1>5. Holder'
  BY <1>1, <1>2, <1>3, NoTaskIs DEF Holder, Idle, Builds
<1>6. OneCut'
  <2>1. ASSUME NEW o \in old', NEW p \in old', o.st # "queued", p.st # "queued"
        PROVE  o = p
    <3>1. CASE o \in Leftover
      <4>1. \A q \in old : q.st = "queued"
        BY <1>3, <2>1, <3>1 DEF Inv, OneCut
      <4>2. p \in Leftover
        BY <1>1, <1>2, <2>1, <4>1
      <4> QED BY <1>3, <2>1, <3>1, <4>2
    <3>2. CASE p \in Leftover
      <4>1. \A q \in old : q.st = "queued"
        BY <1>3, <2>1, <3>2 DEF Inv, OneCut
      <4>2. o \in Leftover
        BY <1>1, <1>2, <2>1, <4>1
      <4> QED BY <1>3, <2>1, <3>2, <4>2
    <3>3. CASE o \notin Leftover /\ p \notin Leftover
      <4>1. PICK q \in old, r \in old : o = Cut(q) /\ p = Cut(r)
        BY <1>1, <2>1, <3>3
      <4>2. q = r
        BY <1>2, <2>1, <4>1 DEF Inv, OneCut
      <4> QED BY <4>1, <4>2
    <3> QED BY <3>1, <3>2, <3>3
  <2> QED BY <1>1, <2>1, NoTaskIs DEF OneCut, Builds
<1> QED BY <1>4, <1>5, <1>6 DEF Inv

(* What a restart makes of what it left.                                   *)
LEMMA ResumeStep == ASSUME Inv, Resume PROVE Inv'
<1>1. PICK o \in old : Requeue(o) \/ NothingLeft(o) \/ Recover(o) \/ Recovered(o)
                       \/ RecoverFails(o) \/ JudgeCut(o)
  BY DEF Resume
<1>0. o \in OldRec /\ state \in States
  BY DEF Inv, Shape
<1>2. CASE Requeue(o)
  <2>1. /\ old' = old \ {o} /\ UNCHANGED <<state, bot, conf, lock, hand>>
        /\ task' = task \/ task' = Queued(o.was)
    BY <1>2 DEF Requeue, AskedIn, row
  <2>2. task' = task \/ AtRest(task')
    BY <1>0, <2>1, QueuedIs DEF OldRec
  <2> QED BY <2>1, <2>2 DEF AtRest, Inv, Shape, Holder, OneCut, Builds
<1>3. CASE NothingLeft(o)
  BY <1>3 DEF NothingLeft, row, Inv, Shape, Holder, OneCut
<1>4. CASE Recover(o)
  <2> DEFINE n == [o EXCEPT !.st = "recovering"]
  <2>1. n \in OldRec /\ n.st = "recovering" /\ n.kind = o.kind
    BY <1>0 DEF OldRec
  <2>2. /\ old' = (old \ {o}) \cup {n} /\ lock = "free" /\ lock' = "recover" /\ o.st = "cut"
        /\ state = BusyState(o) /\ UNCHANGED <<state, bot, conf, task, hand>>
    BY <1>4 DEF Recover, Free, row
  <2>3. task.pc \notin Builds /\ \A p \in old \ {o} : p.st = "queued"
    BY <2>2 DEF Inv, Holder, OneCut
  <2> HIDE DEF n
  <2>4. Shape'
    BY <2>1, <2>2 DEF Inv, Shape
  <2>5. Holder'
    BY <2>1, <2>2, <2>3 DEF Inv, Holder, BusyState
  <2>6. OneCut'
    BY <2>1, <2>2, <2>3 DEF OneCut
  <2> QED BY <2>4, <2>5, <2>6 DEF Inv
<1>5. CASE Recovered(o) \/ RecoverFails(o) \/ JudgeCut(o)
  <2>1. /\ old' = old \ {o} /\ state' \in {"RUNNING", "FAILED"} /\ UNCHANGED <<bot, conf, task, hand>>
        /\ \/ o.st = "recovering" /\ lock' = "free"
           \/ o.st = "cut" /\ lock' = lock /\ state = BusyState(o)
    BY <1>5 DEF Recovered, RecoverFails, JudgeCut, Judged
  <2>2. o.st # "queued" /\ task.pc \notin Builds /\ \A p \in old' : p.st = "queued"
    BY <2>1 DEF Inv, OneCut
  <2>3. Shape' /\ OneCut'
    BY <2>1, <2>2 DEF Inv, Shape, OneCut, States, Settled
  <2>4. Holder'
    <3>1. CASE o.st = "recovering" /\ lock' = "free"
      BY <2>1, <2>2, <3>1 DEF Inv, Holder
    <3>2. CASE o.st = "cut" /\ lock' = lock /\ state = BusyState(o)
      BY <2>1, <2>2, <3>2 DEF Inv, Holder, BusyState, Settled
    <3> QED BY <2>1, <3>1, <3>2
  <2> QED BY <2>3, <2>4 DEF Inv
<1> QED BY <1>1, <1>2, <1>3, <1>4, <1>5

LEMMA ReconcileStep == ASSUME Inv, Reconcile PROVE Inv'
<1>1. /\ lock = "free" /\ state' \in {"RUNNING", "STOPPED"}
      /\ UNCHANGED <<bot, conf, lock, task, hand, old>>
  BY DEF Reconcile, Drift, Free
<1> QED BY <1>1 DEF Inv, Shape, Holder, OneCut, States, Settled
-----------------------------------------------------------------------------
LEMMA InvInit == ASSUME Init PROVE Inv
BY NoTaskIs DEF Init, Inv, Shape, Holder, OneCut, Idle, States, Settled, Builds

LEMMA InvNext == ASSUME Inv, [Next]_vars PROVE Inv'
<1>1. CASE UNCHANGED vars
  BY <1>1 DEF vars, row, Inv, Shape, Holder, OneCut
<1> QED BY <1>1, OwnerStep, HandoverStep, BuildingStep, CrashStep, ResumeStep, ReconcileStep DEF Next

(* Every move of an agent's state is in the table of domain/stateMachine.ts. *)
THEOREM OnlyLegalMoves == Spec => LegalMoves
<1> DEFINE A == state' # state => <<state, state'>> \in Moves
<1>1. Init => Inv
  BY InvInit
<1>2. Inv /\ [Next]_vars => Inv'
  BY InvNext
<1>3. Inv /\ [Next]_vars => [A]_state
  <2> SUFFICES ASSUME Inv, Next, state' # state PROVE <<state, state'>> \in Moves
    BY DEF vars, row
  <2>0. /\ task \in TaskRec /\ state \in States
        /\ task.pc \in Builds => Fits(task.pc, task.kind, state)
    BY DEF Inv, Shape, Holder
  <2>1. CASE Owner
    BY <2>1 DEF Owner, Change, Rebuild, Retry, StopBegin, Stopped, StartRebuilds, StartBegin, Started,
       DockerRefuses, Ages, row, Inv, Holder, Moves
  <2>2. CASE Handover
    BY <2>2 DEF Handover, HandBegin, HandsOver, HandStopped, HandRefused, HandRow, HandRebuild, row, Inv, Holder,
       Settled, Moves
  <2>3. CASE Building
    <3>1. CASE TurnStale \/ TurnFails \/ TurnTaken \/ OldStopped \/ Made \/ NewStarted
      BY <3>1 DEF TurnStale, TurnFails, TurnTaken, OldStopped, Made, NewStarted, row
    <3>2. CASE Snapped
      BY <2>0, <3>2 DEF Snapped, Fits, Builds, Places, Moves
    <3>3. CASE Rendered
      BY <2>0, <3>3 DEF Rendered, Fits, Builds, Places, Moves
    <3>4. CASE RenderRefused
      BY <3>4 DEF RenderRefused, KeptAs, Moves
    <3>5. CASE Built
      BY <2>0, <3>5 DEF Built, Fits, Builds, Places, Busy, Moves
    <3>6. CASE BuildFails
      BY <2>0, <3>6 DEF BuildFails, Fits, Builds, Places, Busy, Moves
    <3> QED BY <2>3, <3>1, <3>2, <3>3, <3>4, <3>5, <3>6 DEF Building
  <2>4. CASE Crash
    BY <2>4 DEF Crash, row
  <2>5. CASE Resume
    BY <2>5 DEF Resume, Requeue, NothingLeft, Recover, Recovered, RecoverFails, JudgeCut, Judged, row,
       Inv, Holder, BusyState, Moves
  <2>6. CASE Reconcile
    BY <2>6 DEF Reconcile, Drift, Settled, Moves
  <2> QED BY <2>1, <2>2, <2>3, <2>4, <2>5, <2>6 DEF Next
<1> QED BY <1>1, <1>2, <1>3, PTL DEF Spec, LegalMoves
-----------------------------------------------------------------------------
(* The other three properties relate the container to what was ordered and   *)
(* changed.  What they rest on: an operation of a dead process is alone      *)
(* (Lone), what each of those may still do (Olds), why a rebuild follows     *)
(* (Follows), that who is up, or coming up, was ordered up (Ordered), and    *)
(* which bot (Bots) and which settings (Confs) the container was made from.  *)
Windowed == "window" \in slip
MayBeUp  == order = "up" \/ Windowed
Gap      == slip \cap {"window", "refused", "cut"} # {}
Missed   == slip \cap {"overtaken", "setup", "mistaken"} # {}
Lone ==
  old # {} => /\ task = NoTask /\ ~follow /\ hand = Idle /\ lock \in {"free", "recover"}
              /\ \A o, p \in old : o = p
Olds ==
  \A o \in old :
    /\ o.st = "queued" => o.kind = "rebuild"
    /\ o.st = "cut" => state \in IF o.kind = "rebuild" THEN Settled \cup {"REBUILDING"}
                                                       ELSE {"PROVISIONING"}
    /\ o.st = "recovering" => up
    /\ o.st # "recovering" /\ o.kind = "rebuild" /\ o.was # "RUNNING" =>
         Windowed \/ (order = "up" /\ state # "RUNNING")
Follows ==
  follow => /\ task # NoTask /\ MayBeUp
            /\ task.pc = "queued" => Windowed \/ state # "RUNNING"
Ordered ==
  /\ order \in {"up", "down"} /\ lock \in {"free", "stop", "start", "hand", "build", "recover"}
  /\ lock = "start" => order = "up" /\ old = {} /\ (task = NoTask \/ Windowed)
  /\ state \in {"RUNNING", "REBUILDING", "PROVISIONING"} => MayBeUp
  /\ task.pc \in Builds => MayBeUp
  /\ task.pc = "queued" /\ task.was # "RUNNING" =>
       Windowed \/ (order = "up" /\ state # "RUNNING")
  /\ task.pc = "snap" => Windowed \/ task.was = "RUNNING"
  /\ state = "STOPPED" /\ up =>
       /\ lock = "free" /\ MayBeUp /\ task = NoTask /\ hand = Idle
       /\ old = {} \/ Windowed
       /\ \A o \in old : o.st = "queued"
Bots ==
  /\ up /\ made.bot # bot => Gap
  /\ lock = "start" => made.bot = bot \/ Gap
  /\ hand.pc = "release" => ~up
  /\ task.pc \in {"stop", "make", "start", "health"} => task.spec.bot = bot
  /\ task.pc \in {"start", "health"} => made = task.spec
  /\ made.bot # bot =>
       Gap \/ owed \/ hand.pc = "row" \/ task # NoTask \/ old # {} \/ state = "FAILED"
Accounted == owed \/ told \/ state = "FAILED" \/ Missed
Confs ==
  /\ conf # made.conf =>
       Accounted \/ old # {} \/ task.pc \in {"queued", "snap", "render", "stop", "make"}
  /\ task.pc \in {"stop", "make"} /\ task.spec.conf # conf => Accounted
More == Lone /\ Olds /\ Follows /\ Ordered /\ Bots /\ Confs

(* A rebuild that is asked for.                                            *)
LEMMA AskedIs ==
  \A s : Queued(s).pc = "queued" /\ Queued(s).was = s /\ Queued(s).kind = "rebuild"
BY DEF Queued, NoTask

(* Asked for while nothing of a dead process is left.                       *)
LEMMA Alone == ASSUME Inv, Olds, Request, ~Interrupted PROVE old = {}
BY DEF Inv, Shape, OldRec, Olds, Request, Interrupted, Untouched

(* A change of the settings: a rebuild of now, owed or told of.             *)
LEMMA ChangeDoes ==
  ASSUME Change
  PROVE  /\ UNCHANGED <<up, made, bot, lock, hand, old, state>> /\ slip \subseteq slip'
         /\ owed => owed'
         /\ task' = task \/ (task' = Queued(state) /\ task = NoTask)
         /\ task' = Queued(state) \/ owed' \/ told' \/ state \notin {"RUNNING", "STOPPED", "REBUILDING"}
         /\ state = "PROVISIONING" => "setup" \in slip'
BY DEF Change, Owe, Inflight, GapIf, box

(* The old container is stopped, and only the task moves on.                *)
LEMMA OldStoppedDoes ==
  ASSUME task \in TaskRec, OldStopped
  PROVE  /\ UNCHANGED <<row, made, lock, hand, old, slip>> /\ (up' => up)
         /\ task.pc = "stop" /\ task'.pc = "make" /\ task'.spec = task.spec
<1>1. up' => up
  BY DEF OldStopped
<1>2. UNCHANGED <<row, made, lock, hand, old, slip>> /\ task.pc = "stop"
  BY DEF OldStopped, hist
<1>3. task' = [task EXCEPT !.pc = "make"]
  BY DEF OldStopped
<1> QED BY <1>1, <1>2, <1>3 DEF TaskRec

(* A build fails: the agent with it, and only a rebuild asked for stays.    *)
LEMMA BuildFailsDoes ==
  ASSUME BuildFails
  PROVE  /\ UNCHANGED <<made, bot, hand, old, owed, slip>> /\ (up' => up) /\ lock' = "free"
         /\ state' = "FAILED" /\ (task'.pc \in {"none", "queued"})
<1>1. up' => up
  BY DEF BuildFails
<1>2. UNCHANGED <<made, bot, hand, old, owed, slip>> /\ lock' = "free" /\ state' = "FAILED"
  BY DEF BuildFails
<1>3. task' = NoTask \/ task' = Queued("FAILED")
  BY DEF BuildFails, Over
<1> QED BY <1>1, <1>2, <1>3, NoTaskIs, AskedIs

(* The process dies: what it was doing is left over, and what Docker was    *)
(* told last may have been done or not.                                     *)
LEMMA CrashDoes ==
  ASSUME Crash
  PROVE  /\ UNCHANGED <<row, told, order>> /\ slip \subseteq slip'
         /\ lock' = "free" /\ task' = NoTask /\ hand' = Idle
         /\ hand.pc = "row" => "cut" \in slip'
         /\ task # NoTask \/ old # {} => old' # {}
         /\ \/ UNCHANGED box
            \/ Doing = "stop" /\ up' = FALSE /\ made' = made
            \/ Doing = "start" /\ made' = made
            \/ Doing = "make" /\ up' = FALSE /\ made' = task.spec
<1>1. /\ UNCHANGED <<row, told, order>> /\ slip \subseteq slip'
      /\ lock' = "free" /\ task' = NoTask /\ hand' = Idle
      /\ hand.pc = "row" => "cut" \in slip'
  BY DEF Crash, GapIf
<1>2. task # NoTask \/ old # {} => old' # {}
  <2>1. task # NoTask => Leftover # {}
    BY DEF Leftover, Inflight
  <2>2. old' = {[o EXCEPT !.st = IF @ = "queued" THEN @ ELSE "cut"] : o \in old} \cup Leftover
    BY DEF Crash
  <2> QED BY <2>1, <2>2
<1>3. \/ UNCHANGED box
      \/ Doing = "stop" /\ up' = FALSE /\ made' = made
      \/ Doing = "start" /\ made' = made
      \/ Doing = "make" /\ up' = FALSE /\ made' = task.spec
  BY DEF Crash
<1> QED BY <1>1, <1>2, <1>3

(* What Docker was told comes from a build or from the owner's Start.       *)
LEMMA DoingIs ==
  ASSUME Inv, Ordered
  PROVE  /\ Doing = "make" => task.pc = "make"
         /\ Doing = "start" => lock = "start" \/ task.pc = "start"
BY DEF Doing, Inv, Shape, Ordered

(* A handover ends with a rebuild asked for, or owed.                       *)
LEMMA HandRebuildDoes ==
  ASSUME HandRebuild, hand.was \in Settled
  PROVE  /\ UNCHANGED <<made, bot, lock, old, state, up>> /\ slip \subseteq slip'
         /\ hand'.pc = "idle" /\ (owed => owed')
         /\ task' = task \/ task' = Queued(state)
         /\ owed' \/ task # NoTask \/ task' = Queued(state)
BY DEF HandRebuild, Owe, Inflight, GapIf, Idle, Settled, box

(* A dead process left one operation at most, and nothing runs beside it.   *)
LEMMA LoneStep == ASSUME Inv, More, Next PROVE Lone'
<1> USE NoTaskIs, AskedIs DEF More, Inflight, Idle, Lone
<1>1. CASE Change
  BY <1>1, Alone DEF Change, Owe
<1>2. CASE Rebuild
  BY <1>2, Alone DEF Rebuild
<1>3. CASE Retry
  BY <1>3, Alone DEF Retry
<1>4. CASE StopBegin
  BY <1>4, Alone DEF StopBegin
<1>5. CASE Stopped
  BY <1>5 DEF Stopped
<1>6. CASE StartRebuilds
  BY <1>6, Alone DEF StartRebuilds, MayStart
<1>7. CASE StartBegin
  BY <1>7, Alone DEF StartBegin, MayStart, PlainStart
<1>8. CASE Started
  BY <1>8 DEF Started
<1>9. CASE DockerRefuses
  BY <1>9 DEF DockerRefuses
<1>10. CASE Ages
  BY <1>10 DEF Ages
<1>11. CASE HandBegin
  BY <1>11, Alone DEF HandBegin, HandsOver
<1>12. CASE HandStopped
  BY <1>12 DEF HandStopped
<1>13. CASE HandRefused
  BY <1>13 DEF HandRefused
<1>14. CASE HandRow
  BY <1>14 DEF HandRow
<1>15. CASE HandRebuild
  BY <1>15 DEF HandRebuild, Owe
<1>16. CASE TurnStale
  BY <1>16 DEF TurnStale, AtTurn, Stale
<1>17. CASE TurnFails
  BY <1>17 DEF TurnFails, AtTurn, Stale
<1>18. CASE TurnTaken
  BY <1>18 DEF TurnTaken, AtTurn, Stale
<1>19. CASE Snapped
  BY <1>19 DEF Snapped
<1>20. CASE Rendered
  BY <1>20 DEF Rendered
<1>21. CASE RenderRefused
  BY <1>21 DEF RenderRefused, KeptAs
<1>22. CASE OldStopped
  BY <1>22 DEF OldStopped
<1>23. CASE Made
  BY <1>23 DEF Made
<1>24. CASE NewStarted
  BY <1>24 DEF NewStarted
<1>25. CASE Built
  BY <1>25 DEF Built
<1>26. CASE BuildFails
  BY <1>26 DEF BuildFails
<1>27. CASE \E o \in old : Requeue(o)
  BY <1>27 DEF Requeue, CutByOther, AskedIn
<1>28. CASE \E o \in old : NothingLeft(o)
  BY <1>28 DEF NothingLeft
<1>29. CASE \E o \in old : Recover(o)
  BY <1>29 DEF Recover
<1>30. CASE \E o \in old : Recovered(o)
  BY <1>30 DEF Recovered
<1>31. CASE \E o \in old : RecoverFails(o)
  BY <1>31 DEF RecoverFails
<1>32. CASE \E o \in old : JudgeCut(o)
  BY <1>32 DEF JudgeCut, Judged
<1>33. CASE Crash
  BY <1>33 DEF Crash, Leftover, Doing
<1>34. CASE Reconcile
  BY <1>34 DEF Reconcile
<1> QED BY <1>1, <1>2, <1>3, <1>4, <1>5, <1>6, <1>7, <1>8, <1>9, <1>10, <1>11, <1>12, <1>13, <1>14,
   <1>15, <1>16, <1>17, <1>18, <1>19, <1>20, <1>21, <1>22, <1>23, <1>24, <1>25, <1>26, <1>27, <1>28,
   <1>29, <1>30, <1>31, <1>32, <1>33, <1>34 DEF Next, Owner, Handover, Building, Resume

(* What each of those may still do.                                        *)
LEMMA OldsStep == ASSUME Inv, More, Next PROVE Olds'
<1> USE NoTaskIs, AskedIs DEF Inv, Shape, Holder, TaskRec, OldRec, More, row, box, hist, GapIf,
       Inflight, Settled, Windowed, MayBeUp, Builds, Places, AtRest, Fits, Kinds, Drift, Busy,
       BusyState, Lone, Olds, Ordered
<1>1. CASE Change
  BY <1>1, Alone DEF Change, Owe
<1>2. CASE Rebuild
  BY <1>2 DEF Rebuild
<1>3. CASE Retry
  BY <1>3 DEF Retry
<1>4. CASE StopBegin
  BY <1>4 DEF StopBegin
<1>5. CASE Stopped
  BY <1>5 DEF Stopped
<1>6. CASE StartRebuilds
  BY <1>6 DEF StartRebuilds, MayStart
<1>7. CASE StartBegin
  BY <1>7, Alone DEF StartBegin, MayStart, PlainStart
<1>8. CASE Started
  BY <1>8 DEF Started
<1>9. CASE DockerRefuses
  BY <1>9 DEF DockerRefuses
<1>10. CASE Ages
  BY <1>10 DEF Ages
<1>11. CASE HandBegin
  BY <1>11 DEF HandBegin, HandsOver
<1>12. CASE HandStopped
  BY <1>12 DEF HandStopped
<1>13. CASE HandRefused
  BY <1>13 DEF HandRefused
<1>14. CASE HandRow
  BY <1>14 DEF HandRow
<1>15. CASE HandRebuild
  BY <1>15 DEF HandRebuild, Owe
<1>16. CASE TurnStale
  BY <1>16 DEF TurnStale, AtTurn, Stale
<1>17. CASE TurnFails
  BY <1>17 DEF TurnFails, AtTurn, Stale
<1>18. CASE TurnTaken
  BY <1>18 DEF TurnTaken, AtTurn, Stale
<1>19. CASE Snapped
  BY <1>19 DEF Snapped
<1>20. CASE Rendered
  BY <1>20 DEF Rendered
<1>21. CASE RenderRefused
  BY <1>21 DEF RenderRefused, KeptAs
<1>22. CASE OldStopped
  BY <1>22 DEF OldStopped
<1>23. CASE Made
  BY <1>23 DEF Made
<1>24. CASE NewStarted
  BY <1>24 DEF NewStarted
<1>25. CASE Built
  BY <1>25 DEF Built
<1>26. CASE BuildFails
  BY <1>26 DEF BuildFails
<1>27. CASE \E o \in old : Requeue(o)
  BY <1>27 DEF Requeue, CutByOther, AskedIn
<1>28. CASE \E o \in old : NothingLeft(o)
  BY <1>28 DEF NothingLeft
<1>29. CASE \E o \in old : Recover(o)
  BY <1>29 DEF Recover
<1>30. CASE \E o \in old : Recovered(o)
  BY <1>30 DEF Recovered
<1>31. CASE \E o \in old : RecoverFails(o)
  BY <1>31 DEF RecoverFails
<1>32. CASE \E o \in old : JudgeCut(o)
  BY <1>32 DEF JudgeCut, Judged
<1>33. CASE Crash
  BY <1>33 DEF Crash, Leftover, Doing
<1>34. CASE Reconcile
  BY <1>34 DEF Reconcile
<1> QED BY <1>1, <1>2, <1>3, <1>4, <1>5, <1>6, <1>7, <1>8, <1>9, <1>10, <1>11, <1>12, <1>13, <1>14,
   <1>15, <1>16, <1>17, <1>18, <1>19, <1>20, <1>21, <1>22, <1>23, <1>24, <1>25, <1>26, <1>27, <1>28,
   <1>29, <1>30, <1>31, <1>32, <1>33, <1>34 DEF Next, Owner, Handover, Building, Resume

(* Why a rebuild follows.                                                  *)
LEMMA FollowsStep == ASSUME Inv, More, Next PROVE Follows'
<1> USE NoTaskIs, AskedIs DEF Inv, Shape, Holder, TaskRec, More, row, hist, GapIf, Inflight, Over,
       Settled, Windowed, MayBeUp, AtRest, Drift, Lone, Follows, Ordered
<1>1. CASE Change
  BY <1>1, Alone DEF Change, Owe
<1>2. CASE Rebuild
  BY <1>2 DEF Rebuild
<1>3. CASE Retry
  BY <1>3 DEF Retry
<1>4. CASE StopBegin
  BY <1>4 DEF StopBegin
<1>5. CASE Stopped
  BY <1>5 DEF Stopped
<1>6. CASE StartRebuilds
  BY <1>6 DEF StartRebuilds, MayStart
<1>7. CASE StartBegin
  BY <1>7, Alone DEF StartBegin, MayStart, PlainStart
<1>8. CASE Started
  BY <1>8 DEF Started
<1>9. CASE DockerRefuses
  BY <1>9 DEF DockerRefuses
<1>10. CASE Ages
  BY <1>10 DEF Ages
<1>11. CASE HandBegin
  BY <1>11 DEF HandBegin, HandsOver
<1>12. CASE HandStopped
  BY <1>12 DEF HandStopped
<1>13. CASE HandRefused
  BY <1>13 DEF HandRefused
<1>14. CASE HandRow
  BY <1>14 DEF HandRow
<1>15. CASE HandRebuild
  BY <1>15 DEF HandRebuild, Owe
<1>16. CASE TurnStale
  BY <1>16 DEF TurnStale, AtTurn, Stale
<1>17. CASE TurnFails
  BY <1>17 DEF TurnFails, AtTurn, Stale
<1>18. CASE TurnTaken
  BY <1>18 DEF TurnTaken, AtTurn, Stale
<1>19. CASE Snapped
  BY <1>19 DEF Snapped
<1>20. CASE Rendered
  BY <1>20 DEF Rendered
<1>21. CASE RenderRefused
  BY <1>21 DEF RenderRefused, KeptAs
<1>22. CASE OldStopped
  BY <1>22 DEF OldStopped
<1>23. CASE Made
  BY <1>23 DEF Made
<1>24. CASE NewStarted
  BY <1>24 DEF NewStarted
<1>25. CASE Built
  BY <1>25 DEF Built
<1>26. CASE BuildFails
  BY <1>26 DEF BuildFails
<1>27. CASE \E o \in old : Requeue(o)
  BY <1>27 DEF Requeue, CutByOther, AskedIn
<1>28. CASE \E o \in old : NothingLeft(o)
  BY <1>28 DEF NothingLeft
<1>29. CASE \E o \in old : Recover(o)
  BY <1>29 DEF Recover
<1>30. CASE \E o \in old : Recovered(o)
  BY <1>30 DEF Recovered
<1>31. CASE \E o \in old : RecoverFails(o)
  BY <1>31 DEF RecoverFails
<1>32. CASE \E o \in old : JudgeCut(o)
  BY <1>32 DEF JudgeCut, Judged
<1>33. CASE Crash
  BY <1>33 DEF Crash, Leftover, Doing
<1>34. CASE Reconcile
  BY <1>34 DEF Reconcile
<1> QED BY <1>1, <1>2, <1>3, <1>4, <1>5, <1>6, <1>7, <1>8, <1>9, <1>10, <1>11, <1>12, <1>13, <1>14,
   <1>15, <1>16, <1>17, <1>18, <1>19, <1>20, <1>21, <1>22, <1>23, <1>24, <1>25, <1>26, <1>27, <1>28,
   <1>29, <1>30, <1>31, <1>32, <1>33, <1>34 DEF Next, Owner, Handover, Building, Resume

(* Whatever is up, or coming up, was ordered up.                           *)
LEMMA OrderedStep == ASSUME Inv, More, Next PROVE Ordered'
<1> USE NoTaskIs, AskedIs DEF Inv, Shape, Holder, OldRec, More, row, box, hist, GapIf, Request,
       Free, Interrupted, Inflight, Over, Idle, Settled, Untouched, Windowed, MayBeUp, Builds,
       AtRest, Fits, Drift, Busy, BusyState, Lone, Olds, Follows, Ordered
<1>1. CASE Change
  BY <1>1, Alone DEF Change, Owe
<1>2. CASE Rebuild
  BY <1>2 DEF Rebuild
<1>3. CASE Retry
  BY <1>3 DEF Retry
<1>4. CASE StopBegin
  BY <1>4 DEF StopBegin
<1>5. CASE Stopped
  BY <1>5 DEF Stopped
<1>6. CASE StartRebuilds
  BY <1>6 DEF StartRebuilds, MayStart
<1>7. CASE StartBegin
  BY <1>7, Alone DEF StartBegin, MayStart, PlainStart
<1>8. CASE Started
  BY <1>8 DEF Started
<1>9. CASE DockerRefuses
  BY <1>9 DEF DockerRefuses
<1>10. CASE Ages
  BY <1>10 DEF Ages
<1>11. CASE HandBegin
  BY <1>11 DEF HandBegin, HandsOver
<1>12. CASE HandStopped
  BY <1>12 DEF HandStopped
<1>13. CASE HandRefused
  BY <1>13 DEF HandRefused
<1>14. CASE HandRow
  BY <1>14 DEF HandRow
<1>15. CASE HandRebuild
  BY <1>15 DEF HandRebuild, Owe
<1>16. CASE TurnStale
  BY <1>16 DEF TurnStale, AtTurn, Stale
<1>17. CASE TurnFails
  BY <1>17 DEF TurnFails, AtTurn, Stale
<1>18. CASE TurnTaken
  BY <1>18 DEF TurnTaken, AtTurn, Stale
<1>19. CASE Snapped
  BY <1>19 DEF Snapped
<1>20. CASE Rendered
  BY <1>20 DEF Rendered
<1>21. CASE RenderRefused
  BY <1>21 DEF RenderRefused, KeptAs
<1>22. CASE OldStopped
  BY <1>22 DEF OldStopped
<1>23. CASE Made
  BY <1>23 DEF Made
<1>24. CASE NewStarted
  BY <1>24 DEF NewStarted
<1>25. CASE Built
  BY <1>25 DEF Built
<1>26. CASE BuildFails
  BY <1>26 DEF BuildFails
<1>27. CASE \E o \in old : Requeue(o)
  <2>1. PICK o \in old : Requeue(o)
    BY <1>27
  <2>2. old = {o} /\ task = NoTask /\ hand = Idle /\ ~Drift /\ old' = {}
    BY <2>1 DEF Requeue
  <2>3. ~(state = "STOPPED" /\ up)
    BY <2>2
  <2>4. /\ UNCHANGED <<state, up, lock, order, slip, hand>>
        /\ task' = task \/ task' = Queued(o.was)
    BY <2>1 DEF Requeue, AskedIn
  <2>5. o.st # "recovering" /\ o.kind = "rebuild"
    BY <2>1 DEF Requeue
  <2> QED BY <2>2, <2>3, <2>4, <2>5
<1>28. CASE \E o \in old : NothingLeft(o)
  BY <1>28 DEF NothingLeft
<1>29. CASE \E o \in old : Recover(o)
  BY <1>29 DEF Recover
<1>30. CASE \E o \in old : Recovered(o)
  BY <1>30 DEF Recovered
<1>31. CASE \E o \in old : RecoverFails(o)
  BY <1>31 DEF RecoverFails
<1>32. CASE \E o \in old : JudgeCut(o)
  BY <1>32 DEF JudgeCut, Judged
<1>33. CASE Crash
  BY <1>33 DEF Crash, Leftover, Doing
<1>34. CASE Reconcile
  BY <1>34 DEF Reconcile
<1> QED BY <1>1, <1>2, <1>3, <1>4, <1>5, <1>6, <1>7, <1>8, <1>9, <1>10, <1>11, <1>12, <1>13, <1>14,
   <1>15, <1>16, <1>17, <1>18, <1>19, <1>20, <1>21, <1>22, <1>23, <1>24, <1>25, <1>26, <1>27, <1>28,
   <1>29, <1>30, <1>31, <1>32, <1>33, <1>34 DEF Next, Owner, Handover, Building, Resume

(* Which bot the container was made with.                                  *)
LEMMA BotsStep == ASSUME Inv, More, Next PROVE Bots'
<1> USE NoTaskIs, AskedIs DEF Inv, Shape, Holder, OneCut, TaskRec, More, row, box, hist, GapIf,
       Request, Interrupted, Inflight, Over, Idle, Settled, Untouched, AtRest, Kinds, Row, Drift,
       BusyState, Olds, Bots, Gap
<1>1. CASE Change
  BY <1>1, ChangeDoes
<1>2. CASE Rebuild
  BY <1>2 DEF Rebuild
<1>3. CASE Retry
  BY <1>3 DEF Retry
<1>4. CASE StopBegin
  BY <1>4 DEF StopBegin
<1>5. CASE Stopped
  BY <1>5 DEF Stopped
<1>6. CASE StartRebuilds
  BY <1>6 DEF StartRebuilds, MayStart
<1>7. CASE StartBegin
  BY <1>7, Alone DEF StartBegin, MayStart, PlainStart
<1>8. CASE Started
  BY <1>8 DEF Started
<1>9. CASE DockerRefuses
  BY <1>9 DEF DockerRefuses
<1>10. CASE Ages
  BY <1>10 DEF Ages
<1>11. CASE HandBegin
  BY <1>11 DEF HandBegin, HandsOver
<1>12. CASE HandStopped
  BY <1>12 DEF HandStopped
<1>13. CASE HandRefused
  BY <1>13 DEF HandRefused
<1>14. CASE HandRow
  BY <1>14 DEF HandRow
<1>15. CASE HandRebuild
  <2>1. hand.was \in Settled
    BY DEF Inv, Shape
  <2> QED BY <1>15, <2>1, HandRebuildDoes
<1>16. CASE TurnStale
  BY <1>16 DEF TurnStale, AtTurn, Stale
<1>17. CASE TurnFails
  BY <1>17 DEF TurnFails, AtTurn, Stale
<1>18. CASE TurnTaken
  BY <1>18 DEF TurnTaken, AtTurn, Stale
<1>19. CASE Snapped
  BY <1>19 DEF Snapped
<1>20. CASE Rendered
  BY <1>20 DEF Rendered
<1>21. CASE RenderRefused
  BY <1>21 DEF RenderRefused, KeptAs
<1>22. CASE OldStopped
  BY <1>22, OldStoppedDoes
<1>23. CASE Made
  BY <1>23 DEF Made
<1>24. CASE NewStarted
  BY <1>24 DEF NewStarted
<1>25. CASE Built
  BY <1>25 DEF Built
<1>26. CASE BuildFails
  BY <1>26, BuildFailsDoes
<1>27. CASE \E o \in old : Requeue(o)
  BY <1>27 DEF Requeue, CutByOther, AskedIn
<1>28. CASE \E o \in old : NothingLeft(o)
  BY <1>28 DEF NothingLeft
<1>29. CASE \E o \in old : Recover(o)
  BY <1>29 DEF Recover
<1>30. CASE \E o \in old : Recovered(o)
  BY <1>30 DEF Recovered
<1>31. CASE \E o \in old : RecoverFails(o)
  BY <1>31 DEF RecoverFails
<1>32. CASE \E o \in old : JudgeCut(o)
  BY <1>32 DEF JudgeCut, Judged
<1>33. CASE Crash
  <2>1. ASSUME up', made'.bot # bot PROVE Gap
    <3>1. (up \/ Doing = "start") /\ made' = made
      BY <1>33, <2>1, CrashDoes
    <3> QED BY <2>1, <3>1, DoingIs
  <2>2. made'.bot = made.bot \/ made'.bot = bot
    BY <1>33, CrashDoes, DoingIs
  <2> QED BY <1>33, CrashDoes, <2>1, <2>2
<1>34. CASE Reconcile
  BY <1>34 DEF Reconcile
<1> QED BY <1>1, <1>2, <1>3, <1>4, <1>5, <1>6, <1>7, <1>8, <1>9, <1>10, <1>11, <1>12, <1>13, <1>14,
   <1>15, <1>16, <1>17, <1>18, <1>19, <1>20, <1>21, <1>22, <1>23, <1>24, <1>25, <1>26, <1>27, <1>28,
   <1>29, <1>30, <1>31, <1>32, <1>33, <1>34 DEF Next, Owner, Handover, Building, Resume

(* Which settings it was made from.                                        *)
LEMMA ConfsStep == ASSUME Inv, More, Next PROVE Confs'
<1> USE NoTaskIs, AskedIs DEF Inv, Shape, Holder, OldRec, More, row, box, hist, GapIf, Over,
       Settled, Untouched, AtRest, Fits, Kinds, States, Row, Drift, Busy, Lone, Olds, Confs,
       Accounted, Missed
<1>1. CASE Change
  <2>1. state \in States
    BY DEF Inv, Shape
  <2>2. CASE task' = Queued(state)
    BY <1>1, <2>2, ChangeDoes
  <2>3. CASE task' # Queued(state)
    BY <1>1, <2>1, <2>3, ChangeDoes
  <2> QED BY <2>2, <2>3
<1>2. CASE Rebuild
  BY <1>2 DEF Rebuild
<1>3. CASE Retry
  BY <1>3 DEF Retry
<1>4. CASE StopBegin
  BY <1>4 DEF StopBegin
<1>5. CASE Stopped
  BY <1>5 DEF Stopped
<1>6. CASE StartRebuilds
  BY <1>6 DEF StartRebuilds, MayStart
<1>7. CASE StartBegin
  BY <1>7, Alone DEF StartBegin, MayStart, PlainStart
<1>8. CASE Started
  BY <1>8 DEF Started
<1>9. CASE DockerRefuses
  BY <1>9 DEF DockerRefuses
<1>10. CASE Ages
  BY <1>10 DEF Ages
<1>11. CASE HandBegin
  BY <1>11 DEF HandBegin, HandsOver
<1>12. CASE HandStopped
  BY <1>12 DEF HandStopped
<1>13. CASE HandRefused
  BY <1>13 DEF HandRefused
<1>14. CASE HandRow
  BY <1>14 DEF HandRow
<1>15. CASE HandRebuild
  BY <1>15 DEF HandRebuild, Owe
<1>16. CASE TurnStale
  BY <1>16 DEF TurnStale, AtTurn, Stale
<1>17. CASE TurnFails
  BY <1>17 DEF TurnFails, AtTurn, Stale
<1>18. CASE TurnTaken
  BY <1>18 DEF TurnTaken, AtTurn, Stale
<1>19. CASE Snapped
  BY <1>19 DEF Snapped
<1>20. CASE Rendered
  BY <1>20 DEF Rendered
<1>21. CASE RenderRefused
  BY <1>21 DEF RenderRefused, KeptAs
<1>22. CASE OldStopped
  BY <1>22 DEF OldStopped
<1>23. CASE Made
  <2>1. /\ task.pc = "make" /\ made' = task.spec /\ UNCHANGED <<conf, told, state, old>>
        /\ slip \subseteq slip' /\ (owed /\ task.spec # Row => "overtaken" \in slip')
    BY <1>23 DEF Made
  <2>2. task.spec.conf # conf => Accounted /\ task.spec # Row
    BY <2>1
  <2>3. task' = [task EXCEPT !.pc = "start"] /\ task'.pc = "start"
    BY <1>23 DEF Made
  <2> QED BY <2>1, <2>2, <2>3
<1>24. CASE NewStarted
  BY <1>24 DEF NewStarted
<1>25. CASE Built
  BY <1>25 DEF Built
<1>26. CASE BuildFails
  BY <1>26 DEF BuildFails
<1>27. CASE \E o \in old : Requeue(o)
  BY <1>27 DEF Requeue, CutByOther, AskedIn
<1>28. CASE \E o \in old : NothingLeft(o)
  BY <1>28 DEF NothingLeft
<1>29. CASE \E o \in old : Recover(o)
  BY <1>29 DEF Recover
<1>30. CASE \E o \in old : Recovered(o)
  BY <1>30 DEF Recovered
<1>31. CASE \E o \in old : RecoverFails(o)
  BY <1>31 DEF RecoverFails
<1>32. CASE \E o \in old : JudgeCut(o)
  BY <1>32 DEF JudgeCut, Judged
<1>33. CASE Crash
  <2>1. made' = made \/ task.pc = "make"
    BY <1>33, CrashDoes, DoingIs
  <2> QED BY <1>33, CrashDoes, <2>1
<1>34. CASE Reconcile
  BY <1>34 DEF Reconcile
<1> QED BY <1>1, <1>2, <1>3, <1>4, <1>5, <1>6, <1>7, <1>8, <1>9, <1>10, <1>11, <1>12, <1>13, <1>14,
   <1>15, <1>16, <1>17, <1>18, <1>19, <1>20, <1>21, <1>22, <1>23, <1>24, <1>25, <1>26, <1>27, <1>28,
   <1>29, <1>30, <1>31, <1>32, <1>33, <1>34 DEF Next, Owner, Handover, Building, Resume

(* More holds at first, and every step keeps it.                            *)
LEMMA MoreInit == ASSUME Init PROVE More
BY NoTaskIs DEF Init, More, Lone, Olds, Follows, Ordered, Bots, Confs, MayBeUp, Windowed, Gap,
   Idle, Row, Builds, Places

LEMMA MoreNext == ASSUME Inv, More, [Next]_vars PROVE More'
<1>1. CASE Next
  BY <1>1, LoneStep, OldsStep, FollowsStep, OrderedStep, BotsStep, ConfsStep DEF More
<1>2. CASE UNCHANGED vars
  BY <1>2 DEF vars, row, box, hist, More, Lone, Olds, Follows, Ordered, Bots, Confs, Accounted,
     Missed, MayBeUp, Windowed, Gap
<1> QED BY <1>1, <1>2

LEMMA Invariant == Spec => [](Inv /\ More)
<1>1. Init => Inv /\ More
  BY InvInit, MoreInit
<1>2. Inv /\ More /\ [Next]_vars => Inv' /\ More'
  BY InvNext, MoreNext
<1> QED BY <1>1, <1>2, PTL DEF Spec

(* A container is on a bot that its agent gave back only in the gaps the     *)
(* property names, for any number of swaps, orders and deaths.              *)
THEOREM GivenBackIsAGap == Spec => []GivenBackOnlyInAGap
<1>1. Inv /\ More => GivenBackOnlyInAGap
  BY DEF More, Bots, GivenBackOnlyInAGap, GivenBack, Gap
<1> QED BY <1>1, Invariant, PTL

(* No change of an agent's settings is lost without a word, but in the gaps  *)
(* the property names.                                                      *)
THEOREM NoChangeIsLost == Spec => []ChangeLands
<1>1. Inv /\ More => ChangeLands
  <2> SUFFICES ASSUME Inv, More, Quiet, conf # made.conf PROVE Accounted
    BY DEF ChangeLands, Accounted, Missed
  <2>1. task.pc = "none" /\ old = {}
    BY NoTaskIs DEF Quiet, Inflight
  <2> QED BY <2>1 DEF More, Confs
<1> QED BY <1>1, Invariant, PTL

(* Nothing that Hatchabot does by itself starts an agent its owner stopped   *)
(* last, but a handover in whose middle the Stop came.                      *)
THEOREM NobodyUndoesAStop == Spec => StopStands
<1> DEFINE A == ~up /\ up' => order' = "up" \/ "window" \in slip
<1>1. Inv /\ More /\ [Next]_vars => [A]_vars
  <2> SUFFICES ASSUME Inv, More, Next, ~up, up' PROVE order' = "up" \/ Windowed
    BY DEF Windowed
  <2>0. Ordered
    BY DEF More
  <2>1. CASE Started
    BY <2>0, <2>1 DEF Started, hist, Ordered
  <2>2. CASE NewStarted
    <3>1. MayBeUp
      BY <2>0, <2>2 DEF NewStarted, Ordered, Builds, Places
    <3> QED BY <2>2, <3>1 DEF NewStarted, hist, MayBeUp
  <2>3. CASE Crash
    <3>1. Doing = "start" /\ UNCHANGED order
      BY <2>3, CrashDoes DEF box
    <3>2. MayBeUp
      BY <2>0, <3>1, DoingIs DEF Ordered, MayBeUp, Builds, Places
    <3> QED BY <3>1, <3>2 DEF MayBeUp
  <2>4. CASE Owner /\ ~Started
    BY <2>4 DEF Owner, Change, Rebuild, Retry, StopBegin, Stopped, StartRebuilds, StartBegin,
       DockerRefuses, Ages, box
  <2>5. CASE Handover
    BY <2>5 DEF Handover, HandBegin, HandStopped, HandRefused, HandRow, HandRebuild, box
  <2>6. CASE Building /\ ~NewStarted
    BY <2>6 DEF Building, TurnStale, TurnFails, TurnTaken, Snapped, Rendered, RenderRefused,
       OldStopped, Made, Built, BuildFails, box
  <2>7. CASE Resume \/ Reconcile
    BY <2>7 DEF Resume, Requeue, NothingLeft, Recover, Recovered, RecoverFails, JudgeCut,
       Reconcile, box
  <2> QED BY <2>1, <2>2, <2>3, <2>4, <2>5, <2>6, <2>7 DEF Next
<1> QED BY <1>1, Invariant, PTL DEF Spec, StopStands
=============================================================================
