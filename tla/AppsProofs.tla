----------------------------- MODULE AppsProofs -----------------------------
(***************************************************************************)
(* The app in an agent, for any releases, tasks, requests, failed calls and *)
(* deaths, in three layers.                                                 *)
(*                                                                         *)
(* First: a release is recorded only when it is in, and nothing live        *)
(* changes before the operation says that it will.  Neither is inductive:   *)
(* both rest on what the place of the process and the operation's row say   *)
(* of each other (Shape).  The types need it too, for a link is written for *)
(* the app of the operation's release.                                     *)
(*                                                                         *)
(* Second, ConfigKept: once a change is over, the configuration is what the *)
(* last one that held wrote.  Rows, Turns and Callings say more of the row, *)
(* the record and the place; ConfigWhere says, place by place, where the    *)
(* configuration and the staging folder can be.  What a restart decides by  *)
(* (NotYet, AllIn) must then hold or fail with where they are.              *)
(*                                                                         *)
(* Third, OneApp: the tasks of two apps never run at once.  Listed says,    *)
(* place by place, which names the agent's jobs are within, those of apps   *)
(* aside whose owner was told to look; Proper, Finite, Recording and Links  *)
(* are what it needs of the jobs, the record and the links.                 *)
(*                                                                         *)
(* The second holds outside the windows "cleared" and "recorded", the third *)
(* outside "both" and "recorded": in them the code does go wrong (README).  *)
(* How often a task is there, and whether it is on, is in AppTasksProofs.   *)
(***************************************************************************)
EXTENDS Apps, FiniteSetTheorems, TLAPS

(* A step that changes what is live is next, or may be chosen.              *)
Turning ==
  \/ proc.pc \in {"switch", "back", "swap", "pointback", "use", "uselink", "go", "golink"}
  \/ proc.pc \in {"list", "sync", "undo", "readd"} /\ proc.ret \in {"install", "rollback"}
  \/ proc.err = "held"
  \/ op.choices = "switch"

(* The link is at the release of the change.                                *)
Pointing ==
  \/ proc.pc \in {"clean", "record"}
  \/ /\ proc.pc \in {"list", "sync", "undo", "readd"}
     /\ proc.ret \in {"install", "rollback", "use"}

(* What the places and rows say of each other.                              *)
Known     == /\ Active => op.to \in Releases
             /\ asked.kind # None => asked.to \in Releases
Placed    == proc.pc \notin {"idle", "stopping"} => Active
Said      == Turning => op.step = Switching
Linked    == Pointing => link[To] = op.to
Scheduled == proc.pc \in {"clean", "record"} =>
               \A n \in Tasks(op.to) : \E j \in jobs : j.name = n
Shape     == Known /\ Placed /\ Said /\ Linked /\ Scheduled

(* The constants.                                                           *)
LEMMA AppType == \A r \in Releases : r # None /\ App(r) = AppOf[r] /\ AppOf[r] \in Apps
BY ReleasesAssumption DEF App, Apps

LEMMA TasksType == \A r \in Maybe : Tasks(r) \subseteq Names /\ (Tasks(r) # {} => r \in Releases)
BY DEF Maybe, Tasks, Names

LEMMA TaskType ==
  \A r \in Maybe : \A n \in Tasks(r), o \in BOOLEAN, k \in Copies : Job(n, r, o, k) \in Task
<1> SUFFICES ASSUME NEW r \in Maybe, NEW n \in Tasks(r), NEW o \in BOOLEAN, NEW k \in Copies
             PROVE  Job(n, r, o, k) \in Task
  OBVIOUS
<1>1. n \in Names /\ r \in Releases
  BY TasksType
<1> QED BY <1>1 DEF Job, Task


(* The type invariant, in the parts a step changes together.                *)
RecordType == record \in [rel : Maybe, prev : Maybe]
LinkType   == link \in [Apps -> Maybe]
CfgType    == cfg \in [Apps -> Config]
StageType  == stage \in [new : Config, prev : Config \cup {"nofile"}]
JobsType   == jobs \subseteq Task
OpType     == op \in OpRow
AskedType  == asked \in [kind : Kinds, to : Maybe, had : Maybe, fresh : BOOLEAN]
ProcType   == proc \in [pc : Points, ret : Callers, was : Maybe, old : SUBSET Task,
                         err : {None, "failed", "held"}]
PastType   == want \in [Apps -> Config] /\ offs \subseteq Names /\ doubt \subseteq Apps
LeftType   == left \in [faults : Nat, deaths : Nat, requests : Nat]

(* TypeOK is its parts.                                                     *)
LEMMA Parts ==
  /\ TypeOK => /\ RecordType /\ LinkType /\ CfgType /\ StageType /\ JobsType
               /\ OpType /\ AskedType /\ ProcType /\ PastType /\ LeftType
  /\ RecordType' /\ LinkType' /\ CfgType' /\ StageType' /\ JobsType' /\ OpType'
     /\ AskedType' /\ ProcType' /\ PastType' /\ LeftType' => TypeOK'
BY DEF TypeOK, RecordType, LinkType, CfgType, StageType, JobsType, OpType, AskedType,
       ProcType, PastType, LeftType

(* The bounds are only counted down.                                        *)
LEMMA LeftMoves == LeftType /\ (Fine \/ Fault \/ Request) => LeftType'
BY DEF LeftType, Fine, Fault, Request

(* The ways the process moves on, each within its type.                     *)
LEMMA ProcMoves ==
  ASSUME ProcType
  PROVE  /\ \A pc \in Points : At(pc) => ProcType'
         /\ \A pc \in Points, ret \in Callers :
              proc' = [proc EXCEPT !.pc = pc, !.ret = ret] => ProcType'
         /\ \A pc \in Points, e \in {None, "failed", "held"} :
              proc' = [proc EXCEPT !.pc = pc, !.err = e] => ProcType'
         /\ \A pc \in Points, was \in Maybe :
              proc' = [proc EXCEPT !.pc = pc, !.was = was] => ProcType'
         /\ \A pc \in Points, old \in SUBSET Task :
              proc' = [proc EXCEPT !.pc = pc, !.old = old] => ProcType'
         /\ \A pc \in Points, ret \in Callers :
              proc' = [Idle EXCEPT !.pc = pc, !.ret = ret] => ProcType'
         /\ \A pc \in Points : proc' = [Idle EXCEPT !.pc = pc] => ProcType'
         /\ proc' = Idle => ProcType'
         /\ proc' = proc => ProcType'
<1>1. "idle" \in Points /\ None \in Callers /\ None \in Maybe
  BY DEF Points, Callers, Maybe
<1>2. Idle \in [pc : Points, ret : Callers, was : Maybe, old : SUBSET Task,
                err : {None, "failed", "held"}]
  BY <1>1 DEF Idle
<1>3. /\ \A pc \in Points : At(pc) => ProcType'
      /\ \A pc \in Points, ret \in Callers :
           proc' = [proc EXCEPT !.pc = pc, !.ret = ret] => ProcType'
  BY DEF ProcType, At
<1>4. \A pc \in Points, e \in {None, "failed", "held"} :
        proc' = [proc EXCEPT !.pc = pc, !.err = e] => ProcType'
  BY DEF ProcType
<1>5. \A pc \in Points, was \in Maybe :
        proc' = [proc EXCEPT !.pc = pc, !.was = was] => ProcType'
  BY DEF ProcType
<1>6. \A pc \in Points, old \in SUBSET Task :
        proc' = [proc EXCEPT !.pc = pc, !.old = old] => ProcType'
  BY DEF ProcType
<1>7. /\ \A pc \in Points, ret \in Callers :
           proc' = [Idle EXCEPT !.pc = pc, !.ret = ret] => ProcType'
      /\ \A pc \in Points : proc' = [Idle EXCEPT !.pc = pc] => ProcType'
  BY <1>2 DEF ProcType
<1>8. (proc' = Idle => ProcType') /\ (proc' = proc => ProcType')
  BY <1>2 DEF ProcType
<1> QED BY <1>3, <1>4, <1>5, <1>6, <1>7, <1>8

(* The ways an operation's row is written.                                  *)
LEMMA OpMoves ==
  ASSUME OpType
  PROVE  /\ \A c \in {"switch", "tasks", "retry"} : Held(c) => OpType'
         /\ Over => OpType'
         /\ op' = op \/ op' = CutOff => OpType'
         /\ op' = [op EXCEPT !.step = Switching] => OpType'
<1>1. \A c \in {"switch", "tasks", "retry"} : Held(c) => OpType'
  BY DEF OpType, OpRow, Held
<1>2. Over => OpType'
  BY DEF OpType, OpRow, Over
<1>3. op' = op \/ op' = CutOff => OpType'
  BY DEF OpType, OpRow, CutOff
<1>4. op' = [op EXCEPT !.step = Switching] => OpType'
  BY DEF OpType, OpRow, Switching
<1> QED BY <1>1, <1>2, <1>3, <1>4

(* What is left alone keeps its type.                                       *)
LEMMA Kept ==
  /\ RecordType /\ UNCHANGED record => RecordType'
  /\ LinkType /\ UNCHANGED link => LinkType'
  /\ CfgType /\ UNCHANGED cfg => CfgType'
  /\ StageType /\ UNCHANGED stage => StageType'
  /\ JobsType /\ UNCHANGED jobs => JobsType'
  /\ OpType /\ UNCHANGED op => OpType'
  /\ AskedType /\ UNCHANGED asked => AskedType'
  /\ ProcType /\ UNCHANGED proc => ProcType'
  /\ PastType /\ UNCHANGED past => PastType'
  /\ LeftType /\ UNCHANGED left => LeftType'
BY DEF RecordType, LinkType, CfgType, StageType, JobsType, OpType, AskedType, ProcType,
       PastType, LeftType, past

(* Where a sync that failed goes on.                                        *)
LEMMA FailMoves == ASSUME ProcType, NEW u, SyncFails(u) PROVE ProcType'
<1>1. "back" \in Points /\ "pointback" \in Points /\ "check" \in Points
  BY DEF Points
<1>2. CASE proc.ret \in {"use", "goback"}
  BY <1>2, ProcMoves DEF SyncFails
<1>3. CASE proc.ret = "install"
  BY <1>1, <1>3 DEF SyncFails, ProcType
<1>4. CASE proc.ret = "rollback"
  BY <1>1, <1>4 DEF SyncFails, ProcType
<1>5. CASE proc.ret \notin {"use", "goback", "install", "rollback"}
  BY <1>1, <1>5 DEF SyncFails, ProcType
<1> QED BY <1>2, <1>3, <1>4, <1>5

(* Where the route's catch goes on.                                         *)
LEMMA Catches ==
  ASSUME NEW e, Catch(e)
  PROVE  \/ op.repl = None /\ Ends(e)
         \/ /\ op.repl # None
            /\ proc' = [proc EXCEPT !.pc = "list", !.ret = "undo", !.err = e]
BY DEF Catch

LEMMA CatchMoves ==
  ASSUME ProcType, NEW e \in {None, "failed", "held"}, Catch(e) PROVE ProcType'
<1>1. "list" \in Points /\ "outcome" \in Points /\ "undo" \in Callers
  BY DEF Points, Callers
<1>2. CASE Ends(e)
  BY <1>1, <1>2, ProcMoves DEF Ends
<1>3. CASE proc' = [proc EXCEPT !.pc = "list", !.ret = "undo", !.err = e]
  BY <1>1, <1>3 DEF ProcType
<1> QED BY <1>2, <1>3, Catches

(* A request that was fetched, dropped or has gone stale.                   *)
LEMMA AskedMoves == AskedType /\ (Stale \/ asked' = NotAsked) => AskedType'
<1>1. NotAsked \in [kind : Kinds, to : Maybe, had : Maybe, fresh : BOOLEAN]
  BY DEF NotAsked, Kinds, Maybe
<1>2. AskedType /\ asked' = NotAsked => AskedType'
  BY <1>1 DEF AskedType
<1>3. AskedType /\ Stale => AskedType'
  BY DEF AskedType, Stale
<1> QED BY <1>2, <1>3

(* Where the rules that end a change, or resume one, leave the process.     *)
LEMMA Decisions ==
  ASSUME Decide
  PROVE  \/ /\ proc' = [Idle EXCEPT !.pc = "landed"] /\ op' = op
            /\ op.step = Switching /\ AllIn
         \/ Held("switch") /\ proc' = proc /\ op.step = Switching /\ ~AllIn /\ ~NotYet
         \/ Undo("early") /\ op' = op /\ (op.step = Switching => NotYet /\ ~AllIn)
         \/ Held("retry") /\ proc' = proc
BY DEF Decide

LEMMA Undoings ==
  ASSUME NEW caller, Undo(caller)
  PROVE  \/ /\ op.repl # None /\ record.rel = op.repl
            /\ proc'.pc = "list" /\ proc'.ret = caller /\ proc'.err = None
         \/ /\ ~(op.repl # None /\ record.rel = op.repl)
            /\ proc'.pc = "gone" /\ proc'.ret = None /\ proc'.err = None
BY DEF Undo, Idle

LEMMA Holds ==
  ASSUME OpType, NEW c, Held(c)
  PROVE  /\ op'.st = "held" /\ op'.choices = c
         /\ op'.kind = op.kind /\ op'.to = op.to /\ op'.from = op.from /\ op'.repl = op.repl
         /\ op'.step = op.step /\ op'.off = op.off /\ op'.conf = op.conf
BY DEF OpType, OpRow, Held

LEMMA Failings ==
  ASSUME ProcType, NEW u, SyncFails(u)
  PROVE  \/ proc.ret \in {"use", "goback"} /\ proc' = Idle
         \/ proc.ret = "install" /\ proc' = [proc EXCEPT !.old = {}, !.pc = "back", !.err = "failed"]
         \/ proc.ret = "rollback" /\ proc' = [proc EXCEPT !.old = {}, !.pc = "pointback"]
         \/ /\ proc.ret \notin {"use", "goback", "install", "rollback"}
            /\ proc' = [proc EXCEPT !.old = {}, !.pc = "check"]
BY DEF SyncFails

(* The row a change begins with.                                            *)
LEMMA BeginType ==
  ASSUME NEW kind \in Kinds, NEW to \in Releases, NEW had \in Maybe, JobsType, CfgType,
         Begin(kind, to, had)
  PROVE  OpType' /\ ProcType'
<1>1. {j.name : j \in {i \in Named(Tasks(IF App(had) = AppOf[to] THEN None ELSE had)) : ~i.on}}
        \in SUBSET Names
  BY DEF JobsType, Named, Task
<1>2. OtherConfig(cfg[AppOf[to]]) \in Config
  BY DEF OtherConfig, Config, Configs
<1>3. OpType'
  BY <1>1, <1>2 DEF Begin, OpType, OpRow, Maybe, Switching
<1>4. ProcType'
  BY DEF Begin, ProcType, Idle, Points, Callers, Maybe
<1> QED BY <1>3, <1>4

(* What an owner is told of are apps.                                       *)
LEMMA ToldType == TypeOK => \A r \in Maybe : Told(r) \subseteq Apps
<1> SUFFICES ASSUME TypeOK, NEW r \in Maybe PROVE Told(r) \subseteq Apps
  OBVIOUS
<1>1. App(r) \in Apps \cup {None} /\ doubt \subseteq Apps
  BY AppType DEF TypeOK, Maybe, App
<1> QED BY <1>1 DEF Told

(* What a sync reads.                                                       *)
LEMMA SyncType ==
  TypeOK => Sync.m \in Maybe /\ Sync.prev \in Maybe /\ Sync.off \subseteq Names
BY DEF TypeOK, OpRow, Sync, Maybe

(* The invariant holds at first.                                            *)
LEMMA InitShape == Init => TypeOK /\ Shape
<1> SUFFICES ASSUME Init PROVE TypeOK /\ Shape
  OBVIOUS
<1>1. PICK i \in Installed : record = [rel |-> i[1], prev |-> i[2]]
  BY DEF Init
<1>2. record \in [rel : Maybe, prev : Maybe]
  BY <1>1, InstalledAssumption DEF Maybe
<1>3. /\ link \in [Apps -> Maybe] /\ cfg \in [Apps -> Config]
      /\ stage \in [new : Config, prev : Config \cup {"nofile"}]
  BY <1>2 DEF Init, Maybe, Config, Configs, NoStage
<1>4. jobs \subseteq Task
  BY <1>2, TaskType, BoundsAssumption DEF Init
<1>5. op \in OpRow
  BY DEF Init, OpRow, Kinds, Maybe, Config, Switching
<1>6. /\ asked \in [kind : Kinds, to : Maybe, had : Maybe, fresh : BOOLEAN]
      /\ proc \in [pc : Points, ret : Callers, was : Maybe, old : SUBSET Task,
                   err : {None, "failed", "held"}]
  BY DEF Init, NotAsked, Idle, Kinds, Maybe, Points, Callers
<1>7. /\ want \in [Apps -> Config] /\ offs \subseteq Names /\ doubt \subseteq Apps
      /\ left \in [faults : Nat, deaths : Nat, requests : Nat]
  BY <1>3, BoundsAssumption DEF Init
<1>8. Known /\ Placed
  BY DEF Init, Known, Placed, Active, Idle, NotAsked
<1>9. ~Turning
  BY DEF Init, Turning, Idle, None
<1>10. ~Pointing /\ Scheduled
  BY DEF Init, Pointing, Scheduled, Idle
<1> QED BY <1>2, <1>3, <1>4, <1>5, <1>6, <1>7, <1>8, <1>9, <1>10 DEF TypeOK, Shape, Said,
   Linked

(* A job that is scheduled anew.                                            *)
LEMMA AnotherType ==
  ASSUME TypeOK, NEW r \in Maybe, NEW n \in Tasks(r), NEW o \in BOOLEAN, Room(n, r, o)
  PROVE  Another(n, r, o) \in Task /\ Another(n, r, o).name = n
<1>1. \E k \in Copies : Another(n, r, o) = Job(n, r, o, k)
  BY DEF Another, Room
<1> QED BY <1>1, TaskType DEF Job

(* Wherever a change stands, its release is one.                            *)
LEMMA OpIsKnown ==
  Known /\ Placed /\ proc.pc \notin {"idle",
     "stopping"} => op.to \in Releases /\ To \in Apps
BY AppType DEF Known, Placed, To

(* Every step keeps the types.                                              *)
LEMMA TypeStep == TypeOK /\ Known /\ Placed /\ [Next]_vars => TypeOK'
<1> SUFFICES ASSUME TypeOK, Known, Placed, [Next]_vars PROVE TypeOK'
  OBVIOUS
<1>p. RecordType /\ LinkType /\ CfgType /\ StageType /\ JobsType
      /\ OpType /\ AskedType /\ ProcType /\ PastType /\ LeftType
  BY Parts
<1> USE <1>p
<1>1. CASE \E kind \in {"install", "update"}, r \in Releases : Ask(kind, r)
  <2>1. AskedType'
    BY <1>1 DEF Ask, AskedType, RecordType, Kinds, Maybe
  <2> QED BY <1>1, <2>1, Kept, LeftMoves, Parts
       DEF Ask, live, past
<1>2. CASE \E kind \in {"install", "update"}, r \in Releases : Change(kind, r)
  <2>1. PICK kind \in {"install", "update"}, r \in Releases : Change(kind, r)
    BY <1>2
  <2>2. kind \in Kinds /\ record.rel \in Maybe
    BY <1>2 DEF Kinds, RecordType
  <2>3. OpType' /\ ProcType'
    BY <2>1, <2>2, BeginType DEF Change
  <2> QED BY <1>2, <2>1, <2>2, <2>3, Kept, LeftMoves, Parts
       DEF Change, live, past
<1>3. CASE RollBack
  <2>1. "rollback" \in Kinds /\ record.prev \in Releases /\ record.rel \in Maybe
    BY <1>3 DEF RollBack, Kinds, Maybe, RecordType
  <2>2. OpType' /\ ProcType'
    BY <1>3, <2>1, BeginType DEF RollBack, Change
  <2> QED BY <1>3, <2>1, <2>2, Kept, LeftMoves, Parts
       DEF RollBack, Change, live, past
<1>4. CASE Fetched
  <2>1. asked.kind \in Kinds /\ asked.to \in Releases /\ asked.had \in Maybe
    BY <1>4 DEF Fetched, Known, AskedType
  <2>2. OpType' /\ ProcType'
    BY <1>4, <2>1, BeginType DEF Fetched
  <2> QED BY <1>4, <2>1, <2>2, Kept, LeftMoves, Parts, AskedMoves
       DEF Fetched, live, past
<1>5. CASE Refused
  <2> QED BY <1>5, Kept, LeftMoves, Parts, AskedMoves
       DEF Refused, live, past
<1>6. CASE StopApp
  <2> QED BY <1>6, Kept, LeftMoves, Parts, ProcMoves
       DEF StopApp, Points, Nothing, live, past
<1>7. CASE \E j \in jobs : Toggle(j)
  <2>1. JobsType'
    BY <1>7 DEF Toggle, JobsType, Task
  <2>2. PastType'
    BY <1>7 DEF Toggle, JobsType, Task, PastType
  <2> QED BY <1>7, <2>1, <2>2, Kept, LeftMoves, Parts
       DEF Toggle, live
<1>8. CASE Choose
  <2>1. OpType'
    BY <1>8, OpMoves DEF Choose, UseNew, GoBack, PutTasksBack, Undo, Decide
  <2>2. ProcType'
    BY <1>8, ProcMoves DEF Choose, UseNew, GoBack, PutTasksBack, Undo, Decide, Points,
       Callers
  <2>3. Fine \/ Fault
    BY <1>8 DEF Choose, UseNew, GoBack, PutTasksBack, Decide
  <2> QED BY <1>8, <2>1, <2>2, <2>3, Kept, LeftMoves, Parts
       DEF Choose, TheRow, live, past
<1>9. CASE Cleared
  <2>1. ProcType'
    <3>1. CASE proc.pc = "clear" /\ At("prepare")
      BY <3>1, ProcMoves DEF Points
    <3>2. CASE proc' = [proc EXCEPT !.ret = "goback",
                          !.pc = IF record.rel = None THEN "gone" ELSE "list"]
      BY <3>2 DEF ProcType, Points, Callers
    <3> QED BY <1>9, <3>1, <3>2 DEF Cleared
  <2> QED BY <1>9, <2>1, Kept, LeftMoves, Parts
       DEF Cleared, Nothing, live, past
<1>10. CASE NotCleared
  <2>1. ProcType'
    BY <1>10, ProcMoves DEF NotCleared, Ends, Points
  <2>2. PastType'
    BY <1>10, ToldType, Parts DEF NotCleared, PastType, RecordType, Nothing, past
  <2> QED BY <1>10, <2>1, <2>2, Kept, LeftMoves, Parts
       DEF NotCleared, Nothing, live, past
<1>11. CASE Stopped
  <2>1. RecordType'
    BY <1>11 DEF Stopped, RecordType, Maybe
  <2>2. PastType'
    BY <1>11 DEF Stopped, PastType
  <2> QED BY <1>11, <2>1, <2>2, Kept, LeftMoves, Parts, ProcMoves, AskedMoves
       DEF Stopped, live
<1>12. CASE \E j \in jobs : TakeOff(j)
  <2>1. JobsType'
    BY <1>12 DEF TakeOff, JobsType
  <2> QED BY <1>12, <2>1, Kept, LeftMoves, Parts
       DEF TakeOff, TheJobs, live, past
<1>13. CASE Prepare
  <2>1. StageType'
    BY <1>13 DEF Prepare, StageType, Staged, NoStage, OpType, OpRow, Config
  <2>2. ProcType'
    BY <1>13, ProcMoves, OpIsKnown DEF Prepare, LinkType, Points
  <2> QED BY <1>13, <2>1, <2>2, Kept, LeftMoves, Parts, OpMoves
       DEF Prepare, past
<1>14. CASE NotPrepared
  <2>1. StageType'
    BY <1>14 DEF NotPrepared, StageType, Staged, NoStage, OpType, OpRow, Config
  <2>2. ProcType'
    BY <1>14 DEF NotPrepared, ProcType, Points
  <2> QED BY <1>14, <2>1, <2>2, Kept, LeftMoves, Parts
       DEF NotPrepared, TheVolume, past
<1>15. CASE Switch
  <2>1. LinkType'
    BY <1>15, OpIsKnown DEF Switch, LinkTo, LinkType, Maybe
  <2>2. CfgType' /\ StageType'
    BY <1>15, OpIsKnown DEF Switch, ConfigIn, MoveIn, Noted, CfgType, StageType, Config
  <2> QED BY <1>15, <2>1, <2>2, Kept, LeftMoves, Parts, ProcMoves
       DEF Switch, Points, Callers, TheVolume, past
<1>16. CASE NotSwitched
  <2>1. LinkType'
    BY <1>16, OpIsKnown DEF NotSwitched, LinkTo, LinkType, Maybe, live
  <2>2. CfgType' /\ StageType'
    BY <1>16, OpIsKnown DEF NotSwitched, live, KeepAside, ConfigIn, MoveIn, Noted, CfgType,
       StageType, Config
  <2> QED BY <1>16, <2>1, <2>2, Kept, LeftMoves, Parts, ProcMoves
       DEF NotSwitched, Points, TheVolume, past
<1>17. CASE PutBack
  <2>1. LinkType'
    BY <1>17, OpIsKnown DEF PutBack, LinkTo, LinkType, ProcType
  <2>2. CfgType' /\ StageType'
    BY <1>17, OpIsKnown DEF PutBack, ConfigOut, MovedIn, File, CfgType, StageType, Config,
       Configs
  <2> QED BY <1>17, <2>1, <2>2, Kept, LeftMoves, Parts, ProcMoves
       DEF PutBack, Points, TheVolume, past
<1>18. CASE NotPutBack
  <2>1. LinkType'
    BY <1>18, OpIsKnown DEF NotPutBack, LinkTo, LinkType, ProcType
  <2>2. CfgType' /\ StageType'
    BY <1>18, OpIsKnown DEF NotPutBack, ConfigOut, CopyOut, MovedIn, File, CfgType,
       StageType, Config, Configs
  <2>3. ProcType'
    BY <1>18, CatchMoves DEF NotPutBack
  <2> QED BY <1>18, <2>1, <2>2, <2>3, Kept, LeftMoves, Parts
       DEF NotPutBack, TheVolume, past
<1>19. CASE Drop
  <2>1. StageType'
    BY <1>19 DEF Drop, ClearStaging, StageType, NoStage, Config
  <2>2. proc.err \in {None, "failed", "held"} /\ Catch(proc.err)
    BY <1>19 DEF Drop, ProcType
  <2>3. ProcType'
    BY <2>2, CatchMoves
  <2> QED BY <1>19, <2>1, <2>3, Kept, LeftMoves, Parts
       DEF Drop, ClearStaging, TheVolume, past
<1>20. CASE Outcome
  <2>1. OpType'
    BY <1>20, OpMoves DEF Outcome
  <2> QED BY <1>20, <2>1, Kept, LeftMoves, Parts, ProcMoves
       DEF Outcome, TheRow, live, past
<1>21. CASE List
  <2>1. ProcType'
    BY <1>21 DEF List, ProcType, JobsType, Ours, Named, Points
  <2> QED BY <1>21, <2>1, Kept, LeftMoves, Parts
       DEF List, Nothing, live, past
<1>22. CASE NotListed
  <2>1. ProcType'
    BY <1>22, FailMoves DEF NotListed
  <2>2. PastType'
    BY <1>22, ToldType, SyncType, Parts DEF NotListed, SyncFails, PastType
  <2> QED BY <1>22, <2>1, <2>2, Kept, LeftMoves, Parts
       DEF NotListed, SyncFails, live
<1>23. CASE NotSynced
  <2> QED BY <1>23, Kept, LeftMoves, Parts, ProcMoves
       DEF NotSynced, Points, Nothing, live, past
<1>24. CASE Synced
  <2>1. ProcType'
    BY <1>24 DEF Synced, ProcType, Points
  <2> QED BY <1>24, <2>1, Kept, LeftMoves, Parts
       DEF Synced, Nothing, live, past
<1>25. CASE \E n \in Names : Add(n)
  <2>1. PICK n \in Names : Add(n)
    BY <1>25
  <2>2. JobsType'
    BY <2>1, SyncType, AnotherType DEF Add, JobsType
  <2>3. ProcType' /\ LeftType'
    BY <2>1, ProcMoves, Kept, LeftMoves DEF Add, Answered, Points
  <2> QED BY <1>25, <2>1, <2>2, <2>3, Kept, LeftMoves, Parts
       DEF Add, TheJobs, live, past
<1>26. CASE \E j \in jobs : Remove(j)
  <2>1. JobsType'
    BY <1>26 DEF Remove, JobsType
  <2>2. ProcType' /\ LeftType'
    BY <1>26, ProcMoves, Kept, LeftMoves DEF Remove, Answered, Points
  <2> QED BY <1>26, <2>1, <2>2, Kept, LeftMoves, Parts
       DEF Remove, TheJobs, live, past
<1>27. CASE \E j \in jobs : UndoAdd(j)
  <2>1. JobsType'
    BY <1>27 DEF UndoAdd, JobsType
  <2> QED BY <1>27, <2>1, Kept, LeftMoves, Parts
       DEF UndoAdd, TheJobs, live, past
<1>28. CASE Undone
  <2> QED BY <1>28, Kept, LeftMoves, Parts, ProcMoves
       DEF Undone, FaultIf, Points, Nothing, live, past
<1>29. CASE \E j \in proc.old : Readd(j)
  <2>1. PICK j \in proc.old : Readd(j)
    BY <1>29
  <2>2. WasOn(j) \in BOOLEAN /\ Another(j.name, Sync.prev, WasOn(j)) \in Task
    BY <2>1, SyncType, AnotherType, Parts DEF Readd, ToReadd, Gone, ProcType, WasOn, Task
  <2>3. JobsType'
    BY <2>1, <2>2 DEF Readd, JobsType
  <2>4. ProcType'
    BY <2>1, <2>2 DEF Readd, ProcType
  <2> QED BY <1>29, <2>1, <2>2, <2>3, <2>4, Kept, LeftMoves, Parts
       DEF Readd, TheJobs, live, past
<1>30. CASE Readded
  <2>1. ProcType'
    BY <1>30, FailMoves DEF Readded
  <2>2. PastType'
    BY <1>30, ToldType, SyncType, Parts DEF Readded, SyncFails, PastType
  <2> QED BY <1>30, <2>1, <2>2, Kept, LeftMoves, Parts
       DEF Readded, FaultIf, SyncFails, live
<1>31. CASE Check
  <2>1. OpType'
    BY <1>31, OpMoves DEF Check
  <2>2. ProcType'
    BY <1>31, ProcMoves DEF Check, Points
  <2>3. PastType'
    BY <1>31, ToldType, Parts DEF Check, PastType, RecordType
  <2> QED BY <1>31, <2>1, <2>2, <2>3, Kept, LeftMoves, Parts
       DEF Check, live
<1>32. CASE Rollback
  <2>1. ProcType'
    BY <1>32, OpIsKnown DEF Rollback, ProcType, LinkType, Points
  <2> QED BY <1>32, <2>1, Kept, LeftMoves, Parts, OpMoves
       DEF Rollback, TheRow, live, past
<1>33. CASE Swap
  <2>1. LinkType'
    BY <1>33 DEF Swap, Pointed, LinkTo, LinkType, OpType, OpRow, Nothing, live
  <2>2. ProcType'
    BY <1>33, ProcMoves DEF Swap, Pointed, Sets, Ends, Points, Callers
  <2> QED BY <1>33, <2>1, <2>2, Kept, LeftMoves, Parts
       DEF Swap, Pointed, Nothing, live, TheVolume, past
<1>34. CASE PointBack
  <2>1. LinkType'
    BY <1>34 DEF PointBack, Pointed, LinkTo, LinkType, ProcType
  <2>2. ProcType'
    BY <1>34, ProcMoves DEF PointBack, Pointed, Ends, Points
  <2> QED BY <1>34, <2>1, <2>2, Kept, LeftMoves, Parts
       DEF PointBack, Pointed, TheVolume, past
<1>35. CASE UseConfig
  <2>1. CfgType' /\ StageType'
    BY <1>35, OpIsKnown DEF UseConfig, Noted, CfgType, StageType, Config
  <2>2. ProcType'
    BY <1>35, ProcMoves DEF UseConfig, Points
  <2> QED BY <1>35, <2>1, <2>2, Kept, LeftMoves, Parts
       DEF UseConfig, TheVolume, past
<1>36. CASE UseLink
  <2>1. LinkType'
    BY <1>36 DEF UseLink, Pointed, LinkTo, LinkType, OpType, OpRow
  <2>2. ProcType'
    BY <1>36, ProcMoves DEF UseLink, Pointed, Sets, Points, Callers
  <2> QED BY <1>36, <2>1, <2>2, Kept, LeftMoves, Parts
       DEF UseLink, Pointed, TheVolume, past
<1>37. CASE GoConfig
  <2>1. CfgType' /\ StageType'
    BY <1>37, OpIsKnown DEF GoConfig, File, CfgType, StageType, Config, Configs
  <2>2. ProcType'
    BY <1>37, ProcMoves DEF GoConfig, Points
  <2> QED BY <1>37, <2>1, <2>2, Kept, LeftMoves, Parts
       DEF GoConfig, TheVolume, past
<1>38. CASE GoLink
  <2>1. LinkType'
    BY <1>38 DEF GoLink, Pointed, LinkTo, LinkType, OpType, OpRow
  <2>2. ProcType'
    BY <1>38, ProcMoves DEF GoLink, Pointed, Sets, Points, Callers
  <2> QED BY <1>38, <2>1, <2>2, Kept, LeftMoves, Parts
       DEF GoLink, Pointed, TheVolume, past
<1>39. CASE Clean
  <2>1. StageType'
    BY <1>39 DEF Clean, ClearStaging, StageType, NoStage, Config
  <2>2. ProcType'
    BY <1>39, ProcMoves DEF Clean, Points
  <2> QED BY <1>39, <2>1, <2>2, Kept, LeftMoves, Parts
       DEF Clean, ClearStaging, TheVolume, past
<1>40. CASE Record
  <2>1. RecordType'
    BY <1>40 DEF Record, Before, RecordType, OpType, OpRow, Maybe
  <2>2. ProcType'
    BY <1>40, ProcMoves DEF Record, Points
  <2> QED BY <1>40, <2>1, <2>2, Kept, LeftMoves, Parts, AskedMoves
       DEF Record, live, past
<1>41. CASE Done
  <2>1. PastType'
    BY <1>41 DEF Done, PastType, OpType, OpRow
  <2> QED BY <1>41, <2>1, Kept, LeftMoves, Parts, ProcMoves, OpMoves
       DEF Done, live
<1>42. CASE RolledBack
  <2> QED BY <1>42, Kept, LeftMoves, Parts, ProcMoves, OpMoves
       DEF RolledBack, TheRow, live, past
<1>43. CASE Resume
  <2>1. OpType'
    BY <1>43, OpMoves DEF Resume, Undo, Decide
  <2>2. ProcType'
    BY <1>43, ProcMoves DEF Resume, Undo, Decide, Points, Callers
  <2>3. Fine \/ Fault
    BY <1>43 DEF Resume, Decide
  <2> QED BY <1>43, <2>1, <2>2, <2>3, Kept, LeftMoves, Parts
       DEF Resume, TheRow, live, past
<1>44. CASE Die
  <2>1. PastType'
    BY <1>44, ToldType, Parts DEF Die, PastType, RecordType
  <2>2. LeftType'
    BY <1>44 DEF Die, LeftType
  <2> QED BY <1>44, <2>1, <2>2, Kept, LeftMoves, Parts, AskedMoves, ProcMoves, OpMoves
       DEF Die, live
<1>45. CASE Rest
  <2> QED BY <1>45, Kept, LeftMoves, Parts
       DEF Rest, vars, live, past
<1>46. CASE UNCHANGED vars
  <2> QED BY <1>46, Kept, LeftMoves, Parts
       DEF vars, live, past
<1> QED BY <1>1, <1>2, <1>3, <1>4, <1>5, <1>6, <1>7, <1>8, <1>9, <1>10, <1>11, <1>12,
   <1>13, <1>14, <1>15, <1>16, <1>17, <1>18, <1>19, <1>20, <1>21, <1>22, <1>23, <1>24,
   <1>25, <1>26, <1>27, <1>28, <1>29, <1>30, <1>31, <1>32, <1>33, <1>34, <1>35, <1>36,
   <1>37, <1>38, <1>39, <1>40, <1>41, <1>42, <1>43, <1>44, <1>45, <1>46
       DEF Next, Owner, Step, Removing, Installing, Syncing, Choosing, Ending

(* The fields of a process that moves on.                                   *)
LEMMA Fields ==
  ASSUME ProcType
  PROVE  /\ \A x, y : LET p == [proc EXCEPT !.pc = x, !.err = y]
                      IN  p.pc = x /\ p.err = y /\ p.ret = proc.ret
         /\ \A x, y : LET p == [proc EXCEPT !.pc = x, !.ret = y]
                      IN  p.pc = x /\ p.ret = y /\ p.err = proc.err
         /\ \A x, y : LET p == [proc EXCEPT !.old = x, !.pc = y]
                      IN  p.pc = y /\ p.ret = proc.ret /\ p.err = proc.err
         /\ \A x, y, z : LET p == [proc EXCEPT !.old = x, !.pc = y, !.err = z]
                      IN  p.pc = y /\ p.ret = proc.ret /\ p.err = z
         /\ Idle.pc = "idle" /\ Idle.err = None
BY DEF ProcType, Idle

(* Every step keeps what places and rows say of each other.                 *)
LEMMA ShapeStep == TypeOK /\ Shape /\ [Next]_vars => Shape'
<1> SUFFICES ASSUME TypeOK, Shape, [Next]_vars PROVE Shape'
  OBVIOUS
<1>p. /\ RecordType /\ LinkType /\ OpType /\ ProcType /\ Known /\ Placed
  BY Parts DEF Shape
<1>r. /\ proc = [pc |-> proc.pc, ret |-> proc.ret, was |-> proc.was, old |-> proc.old,
               err |-> proc.err]
      /\ op = [kind |-> op.kind, to |-> op.to, from |-> op.from, repl |-> op.repl,
               step |-> op.step, st |-> op.st, choices |-> op.choices, off |-> op.off,
               conf |-> op.conf]
  BY Parts DEF ProcType, OpType, OpRow
<1> USE <1>p, <1>r DEF Shape, Known, Placed, Said, Linked, Scheduled, Turning, Pointing,
   Active, To, None
<1>1. CASE \E kind \in {"install", "update"}, r \in Releases : Ask(kind, r)
  BY <1>1 DEF Ask, Request, live
<1>2. CASE \E kind \in {"install", "update"}, r \in Releases : Change(kind, r)
  BY <1>2 DEF Change, Begin, Idle, live
<1>3. CASE RollBack
  BY <1>3 DEF RollBack, Change, Begin, Idle, live, RecordType, Maybe
<1>4. CASE Fetched
  BY <1>4 DEF Fetched, Begin, NotAsked, Idle, live
<1>5. CASE Refused
  BY <1>5 DEF Refused, NotAsked, live
<1>6. CASE StopApp
  BY <1>6 DEF StopApp, At, Free, Idle, Nothing, live
<1>7. CASE \E j \in jobs : Toggle(j)
  BY <1>7 DEF Toggle, Free, Idle, live
<1>8. CASE Choose
  <2>1. UNCHANGED <<record, link, jobs, asked>> /\ proc = Idle /\ op.st = "held"
    BY <1>8 DEF Choose, TheRow, live
  <2>2. CASE /\ op' = op /\ op.choices = "switch"
             /\ proc'.pc \in {"use", "go"} /\ proc'.ret = None
    BY <2>1, <2>2
  <2>3. \A caller \in {"choice", "early"} : Undo(caller) =>
          /\ proc'.pc \in {"list", "gone"} /\ proc'.ret \in {None, caller} /\ proc'.err = None
    BY Undoings
  <2>4. CASE (\E caller \in {"choice", "early"} : Undo(caller)) /\ op' = op
    BY <2>1, <2>3, <2>4
  <2>5. CASE Decide
    <3>1. CASE proc' = [Idle EXCEPT !.pc = "landed"] /\ op' = op
      BY <2>1, <3>1 DEF Idle
    <3>2. CASE Held("switch") /\ proc' = proc /\ op.step = Switching
      BY <2>1, <3>2, Holds DEF Idle
    <3>3. CASE Held("retry") /\ proc' = proc
      BY <2>1, <3>3, Holds DEF Idle
    <3> QED BY <2>4, <2>5, <3>1, <3>2, <3>3, Decisions
  <2> QED BY <1>8, <2>2, <2>4, <2>5 DEF Choose, UseNew, GoBack, PutTasksBack, Idle
<1>9. CASE Cleared
  BY <1>9 DEF Cleared, At, Nothing, live
<1>10. CASE NotCleared
  <2>1. UNCHANGED <<link, jobs, op, asked>>
    BY <1>10 DEF NotCleared, Nothing, live
  <2>2. CASE proc' = Idle
    BY <2>1, <2>2 DEF Idle
  <2>3. CASE proc.pc = "clear" /\ Ends("failed")
    BY <2>1, <2>3 DEF Ends
  <2> QED BY <1>10, <2>2, <2>3 DEF NotCleared
<1>11. CASE Stopped
  BY <1>11 DEF Stopped, Idle, Stale, live
<1>12. CASE \E j \in jobs : TakeOff(j)
  BY <1>12 DEF TakeOff, Leaving, Tasks, Named, TheJobs, live
<1>13. CASE Prepare
  BY <1>13 DEF Prepare, past
<1>14. CASE NotPrepared
  BY <1>14 DEF NotPrepared, TheVolume, live
<1>15. CASE Switch
  BY <1>15, OpIsKnown DEF Switch, LinkTo, LinkType, TheVolume, live
<1>16. CASE NotSwitched
  BY <1>16 DEF NotSwitched, TheVolume, live
<1>17. CASE PutBack
  BY <1>17 DEF PutBack, At, TheVolume, live
<1>18. CASE NotPutBack
  BY <1>18 DEF NotPutBack, Catch, Ends, TheVolume, live
<1>19. CASE Drop
  BY <1>19 DEF Drop, ClearStaging, Catch, Ends, TheVolume, live
<1>20. CASE Outcome
  BY <1>20 DEF Outcome, Held, Over, Idle, TheRow, live
<1>21. CASE List
  BY <1>21 DEF List, Nothing, live
<1>22. CASE NotListed
  <2>1. UNCHANGED <<link, jobs, op, asked>> /\ proc.pc \in {"list", "undo", "readd"}
    BY <1>22 DEF NotListed, SyncFails, live
  <2>2. PICK u : SyncFails(u)
    BY <1>22 DEF NotListed
  <2>3. CASE proc' = Idle
    BY <2>1, <2>3 DEF Idle
  <2>4. CASE proc.ret = "install" /\ proc' = [proc EXCEPT !.old = {}, !.pc = "back",
     !.err = "failed"]
    BY <2>1, <2>4
  <2>5. CASE proc.ret = "rollback" /\ proc' = [proc EXCEPT !.old = {}, !.pc = "pointback"]
    BY <2>1, <2>5
  <2>6. CASE proc' = [proc EXCEPT !.old = {}, !.pc = "check"]
    BY <2>1, <2>6
  <2> QED BY <2>2, <2>3, <2>4, <2>5, <2>6 DEF SyncFails
<1>23. CASE NotSynced
  BY <1>23 DEF NotSynced, At, Nothing, live
<1>24. CASE Synced
  BY <1>24 DEF Synced, Sync, AllAdded, Added, New, Ours, Named, Nothing, live
<1>25. CASE \E n \in Names : Add(n)
  BY <1>25 DEF Add, Answered, At, TheJobs, live
<1>26. CASE \E j \in jobs : Remove(j)
  BY <1>26 DEF Remove, Answered, At, TheJobs, live
<1>27. CASE \E j \in jobs : UndoAdd(j)
  BY <1>27 DEF UndoAdd, TheJobs, live
<1>28. CASE Undone
  BY <1>28 DEF Undone, At, Nothing, live
<1>29. CASE \E j \in proc.old : Readd(j)
  BY <1>29 DEF Readd, TheJobs, live
<1>30. CASE Readded
  <2>1. UNCHANGED <<link, jobs, op, asked>> /\ proc.pc \in {"list", "undo", "readd"}
    BY <1>30 DEF Readded, SyncFails, live
  <2>2. PICK u : SyncFails(u)
    BY <1>30 DEF Readded
  <2>3. CASE proc' = Idle
    BY <2>1, <2>3 DEF Idle
  <2>4. CASE proc.ret = "install" /\ proc' = [proc EXCEPT !.old = {}, !.pc = "back",
     !.err = "failed"]
    BY <2>1, <2>4
  <2>5. CASE proc.ret = "rollback" /\ proc' = [proc EXCEPT !.old = {}, !.pc = "pointback"]
    BY <2>1, <2>5
  <2>6. CASE proc' = [proc EXCEPT !.old = {}, !.pc = "check"]
    BY <2>1, <2>6
  <2> QED BY <2>2, <2>3, <2>4, <2>5, <2>6 DEF SyncFails
<1>31. CASE Check
  <2>1. UNCHANGED <<link, jobs, asked>> /\ proc.pc = "check"
    BY <1>31 DEF Check, live
  <2>2. \/ /\ op' = op /\ proc'.pc \in {"outcome", "gone", "idle"}
           /\ proc'.err \in {proc.err, None}
        \/ proc' = Idle /\ Held("tasks")
    BY <1>31 DEF Check, At, Idle
  <2>3. CASE op' = op /\ proc'.pc \in {"outcome", "gone",
     "idle"} /\ proc'.err \in {proc.err, None}
    BY <2>1, <2>3
  <2>4. CASE proc' = Idle /\ Held("tasks")
    BY <2>1, <2>4 DEF Idle, Held
  <2> QED BY <2>2, <2>3, <2>4
<1>32. CASE Rollback
  BY <1>32 DEF Rollback, TheRow, live
<1>33. CASE Swap
  <2>1. proc.pc = "swap" /\ UNCHANGED <<record, op, jobs, asked>>
    BY <1>33 DEF Swap, Pointed, Nothing, TheVolume, live
  <2>2. CASE Ends("failed") /\ UNCHANGED link
    BY <2>1, <2>2 DEF Ends
  <2>3. CASE Ends("held") /\ (LinkTo(op.to) \/ UNCHANGED link)
    BY <2>1, <2>3, OpIsKnown DEF Ends, LinkTo, LinkType
  <2>4. CASE Sets("rollback") /\ LinkTo(op.to)
    BY <2>1, <2>4, OpIsKnown DEF Sets, LinkTo, LinkType
  <2> QED BY <1>33, <2>2, <2>3, <2>4 DEF Swap, Pointed, Nothing, live
<1>34. CASE PointBack
  BY <1>34 DEF PointBack, Pointed, Ends, TheVolume, live
<1>35. CASE UseConfig
  BY <1>35 DEF UseConfig, At, Idle, TheVolume, live
<1>36. CASE UseLink
  <2>1. UNCHANGED <<jobs, op, asked>> /\ proc.pc = "uselink"
    BY <1>36 DEF UseLink, Pointed, TheVolume
  <2>2. CASE LinkTo(op.to) /\ Sets("use")
    BY <2>1, <2>2, OpIsKnown DEF LinkTo, LinkType, Sets
  <2>3. CASE proc' = Idle
    BY <2>1, <2>3 DEF Idle
  <2> QED BY <1>36, <2>2, <2>3 DEF UseLink, Pointed
<1>37. CASE GoConfig
  BY <1>37 DEF GoConfig, At, Idle, TheVolume, live
<1>38. CASE GoLink
  <2>1. UNCHANGED <<jobs, op, asked>> /\ proc.pc = "golink"
    BY <1>38 DEF GoLink, Pointed, TheVolume
  <2>2. CASE proc' = Idle \/ At("goclear")
    BY <2>1, <2>2 DEF At, Idle
  <2>3. CASE Sets("goback")
    BY <2>1, <2>3 DEF Sets
  <2> QED BY <1>38, <2>2, <2>3 DEF GoLink, Pointed
<1>39. CASE Clean
  BY <1>39 DEF Clean, ClearStaging, At, TheVolume, live
<1>40. CASE Record
  BY <1>40 DEF Record, At, Stale, live
<1>41. CASE Done
  BY <1>41 DEF Done, Over, Idle, live
<1>42. CASE RolledBack
  BY <1>42 DEF RolledBack, Over, Idle, TheRow, live
<1>43. CASE Resume
  BY <1>43 DEF Resume, Decide, Undo, Held, Idle, TheRow, live
<1>44. CASE Die
  BY <1>44 DEF Die, CutOff, Running, NotAsked, Idle, live
<1>45. CASE Rest
  BY <1>45 DEF Rest, vars, live
<1>46. CASE UNCHANGED vars
  BY <1>46 DEF vars, live
<1> QED BY <1>1, <1>2, <1>3, <1>4, <1>5, <1>6, <1>7, <1>8, <1>9, <1>10, <1>11, <1>12,
   <1>13, <1>14, <1>15, <1>16, <1>17, <1>18, <1>19, <1>20, <1>21, <1>22, <1>23, <1>24,
   <1>25, <1>26, <1>27, <1>28, <1>29, <1>30, <1>31, <1>32, <1>33, <1>34, <1>35, <1>36,
   <1>37, <1>38, <1>39, <1>40, <1>41, <1>42, <1>43, <1>44, <1>45, <1>46
       DEF Next, Owner, Step, Removing, Installing, Syncing, Choosing, Ending

-----------------------------------------------------------------------------
(* Types and Shape are an invariant.                                        *)
LEMMA Invariant == Spec => [](TypeOK /\ Shape)
<1>1. TypeOK /\ Shape /\ [Next]_vars => TypeOK' /\ Shape'
  BY TypeStep, ShapeStep DEF Shape
<1> QED BY InitShape, <1>1, PTL DEF Spec

(* Every variable of the app model stays in its type, whatever the owner    *)
(* asks and wherever the process dies: the operation's row always names a   *)
(* release while a step needs it.                                          *)
THEOREM AppsTypeCorrect == Spec => []TypeOK
BY Invariant, PTL

(* A release is recorded only when the link is at it and each of its tasks  *)
(* is on the agent (apps.ts, installRelease; appOperations.ts, useNew).     *)
THEOREM RecordedIsThere == Spec => RecordIsTrue
<1> DEFINE A == record'.rel # record.rel /\ record'.rel # None =>
                  /\ link[App(record'.rel)] = record'.rel
                  /\ \A n \in Tasks(record'.rel) : \E j \in jobs : j.name = n
<1>1. TypeOK /\ Shape /\ [Next]_vars => [A]_vars
  <2> SUFFICES ASSUME TypeOK, Shape, Next, record'.rel # record.rel, record'.rel # None
               PROVE  /\ link[App(record'.rel)] = record'.rel
                      /\ \A n \in Tasks(record'.rel) : \E j \in jobs : j.name = n
    OBVIOUS
  <2>1. CASE Record
    <3>1. op.to \in Releases /\ link[To] = op.to
          /\ \A n \in Tasks(op.to) : \E j \in jobs : j.name = n
      BY <2>1 DEF Record, Shape, Known, Placed, Linked, Pointing, Scheduled
    <3>2. record'.rel = op.to
      BY <2>1 DEF Record
    <3>3. App(op.to) = To
      BY <3>1, AppType DEF To
    <3> QED BY <3>1, <3>2, <3>3
  <2>2. CASE Stopped
    BY <2>2 DEF Stopped
  <2>3. CASE ~Record /\ ~Stopped
    <3>1. UNCHANGED record
      <4>1. CASE Owner \/ Fetched \/ Refused \/ Resume \/ Die \/ Rest
        BY <4>1 DEF Owner, Ask, Change, RollBack, StopApp, Choose, Toggle, Fetched, Refused,
                    Resume, Die, Rest, Nothing, TheRow, vars
      <4>2. CASE Removing \/ Installing
        BY <2>3, <4>2 DEF Removing, Cleared, NotCleared, TakeOff, Installing, Prepare,
             NotPrepared, Switch, NotSwitched, PutBack, NotPutBack, Drop, Outcome, Nothing,
             TheRow, TheVolume, TheJobs
      <4>3. CASE Syncing
        BY <4>3 DEF Syncing, List, NotListed, NotSynced, Synced, Undone, Readded, SyncFails,
             Check, Add, Remove, UndoAdd, Readd, Nothing, TheJobs
      <4>4. CASE Choosing \/ Ending
        BY <2>3, <4>4 DEF Choosing, Rollback, Swap, PointBack, UseConfig, UseLink, GoConfig,
             GoLink, Pointed, Ending, Clean, Done, RolledBack, Nothing, TheRow, TheVolume
      <4> QED BY <4>1, <4>2, <4>3, <4>4 DEF Next, Step
    <3> QED BY <3>1
  <2> QED BY <2>1, <2>2, <2>3
<1> QED BY Invariant, <1>1, PTL DEF Spec, RecordIsTrue

(* The link and the configuration change only under an operation that is on *)
(* record as switching, which is what a restart goes by.                   *)
THEOREM NothingLiveBefore == Spec => NothingBefore
<1> DEFINE A == link' # link \/ cfg' # cfg => Active /\ op.step = Switching
<1>1. TypeOK /\ Shape /\ [Next]_vars => [A]_vars
  <2> SUFFICES ASSUME TypeOK, Shape, Next, link' # link \/ cfg' # cfg
               PROVE  Active /\ op.step = Switching
    OBVIOUS
  <2>1. CASE Owner \/ Fetched \/ Refused \/ Resume \/ Die \/ Rest
    BY <2>1 DEF Owner, Ask, Change, RollBack, StopApp, Choose, Toggle, Fetched, Refused,
                Resume, Die, Rest, Nothing, TheRow, live, vars
  <2>2. CASE Removing
    BY <2>2 DEF Removing, Cleared, NotCleared, Stopped, TakeOff, Nothing, TheJobs, live
  <2>3. CASE Syncing
    BY <2>3 DEF Syncing, List, NotListed, NotSynced, Synced, Undone, Readded, SyncFails,
         Check, Add, Remove, UndoAdd, Readd, Nothing, TheJobs, live
  <2>4. CASE Ending \/ Prepare \/ NotPrepared \/ Drop \/ Outcome \/ Rollback
    BY <2>4 DEF Ending, Clean, ClearStaging, Record, Done, RolledBack, Prepare, NotPrepared,
         Drop, Outcome, Rollback, TheRow, live
  <2>5. CASE \/ Switch \/ NotSwitched \/ PutBack \/ NotPutBack \/ Swap \/ UseConfig \/ UseLink
             \/ GoConfig \/ GoLink
    <3>1. proc.pc \in {"switch", "back", "swap", "use", "uselink", "go", "golink"}
      BY <2>5 DEF Switch, NotSwitched, PutBack, NotPutBack, Swap, UseConfig, UseLink, GoConfig,
                  GoLink
    <3> QED BY <3>1 DEF Shape, Placed, Said, Turning
  <2>6. CASE PointBack
    BY <2>6 DEF PointBack, Shape, Placed, Said, Turning
  <2> QED BY <2>1, <2>2, <2>3, <2>4, <2>5, <2>6 DEF Next, Step, Installing, Choosing
<1> QED BY Invariant, <1>1, PTL DEF Spec, NothingBefore
-----------------------------------------------------------------------------
(* The configuration.  What an operation's row and the record say of each   *)
(* other, and of a request that is still being fetched.                     *)
BegunOn == IF op.repl = None THEN op.from ELSE op.repl
Rows ==
  /\ asked.kind # None => asked.kind # "rollback" /\ (asked.fresh => asked.had = record.rel)
  /\ op.choices # None => op.st = "held"
  /\ record.prev # None => record.rel # None /\ App(record.prev) = App(record.rel)
  /\ Active => /\ op.conf \in Configs
               /\ op.repl # None => op.from = None /\ App(op.repl) # To /\ op.kind # "rollback"
               /\ op.from # None => App(op.from) = To
               /\ record.rel \in {op.to, BegunOn}
               /\ op.step = 0 => record.rel = BegunOn

(* Where the process sets tasks, and for whom.                              *)
Tasking(callers) ==
  proc.pc \in {"list", "sync", "undo", "readd", "check"} /\ proc.ret \in callers

(* Which places an operation that runs, was cut off or is held can be at,   *)
(* and what the error and the caller are there.                             *)
RunsAt ==
  \/ proc.pc \in {"clear", "prepare", "switch", "back", "drop", "clean", "rollback", "swap",
                  "pointback", "outcome"}
  \/ proc.ret \in {"install", "rollback", "undo"}
ChosenAt ==
  proc.pc \in {"use", "uselink", "go", "golink", "goclear"} \/ proc.ret \in {"use", "goback"}
ResumedAt ==
  \/ proc.ret = "early"
  \/ proc.pc \in {"landed", "gone", "rolled", "done"} /\ proc.ret = None
TurnedAt ==
  \/ proc.pc \in {"switch", "back", "clean", "record", "landed", "done", "swap", "pointback"}
  \/ proc.ret \in {"install", "rollback", "use", "goback"}
  \/ op.choices = "switch"
(* So what the row says wherever one of these is on its way.                *)
Turns ==
  /\ proc.pc = "stopping" => ~Active
  /\ RunsAt => Running /\ (proc.pc \notin {"record", "done"} => record.rel = BegunOn)
  /\ ChosenAt => op.choices = "switch"
  /\ proc.ret = "choice" => op.choices = "tasks"
  /\ ResumedAt => ~Running /\ op.choices # "switch"
  /\ proc.ret = "early" => op.choices # "tasks"
  /\ proc.ret \in {"undo", "early", "choice"} => op.repl # None /\ record.rel = op.repl
  /\ TurnedAt => op.step = Switching
  /\ proc.pc \in {"clear", "prepare", "rollback"} => op.step = 0
(* And what the kind of change, the caller and the error are there.         *)
Callings ==
  /\ Tasking(Callers) => proc.ret # None
  /\ proc.pc = "check" => proc.ret \in {"undo", "early", "choice"}
  /\ \/ proc.pc \in {"clear", "prepare", "switch", "back", "drop", "clean"}
     \/ proc.ret \in {"install", "undo"}
     => op.kind # "rollback"
  /\ proc.pc \in {"rollback", "swap", "pointback"} \/ proc.ret = "rollback" =>
       op.kind = "rollback"
  /\ proc.pc = "clear" => op.repl # None
  /\ proc.pc \in {"back", "drop"} => proc.err = "failed"
  /\ proc.pc \in {"clear", "prepare", "switch"} \/ Tasking({"install"}) => proc.err = None
  /\ proc.pc = "outcome" \/ proc.ret = "undo" => proc.err # None
  /\ proc.pc \in {"landed", "done"} => record.rel = op.to
  /\ proc.pc = "record" => proc.ret \in {"install", "rollback", "use"}
  /\ proc.pc = "clean" => proc.ret = "install"
  /\ proc.pc = "landed" => proc.ret \in {None, "use"}
  /\ proc.pc \in {"gone", "rolled"} => proc.ret \in {None, "goback", "early", "choice"}

(* Where the configuration and the staging folder can be, once the switch   *)
(* is on record.                                                            *)
Has     == HasConfig /\ op.step = Switching
OldIn   == cfg[To] = want[To]
NewIn   == cfg[To] = op.conf
Ready   == OldIn /\ stage = [new |-> op.conf, prev |-> None]
Aside   == OldIn /\ stage = [new |-> op.conf, prev |-> Noted(want[To])]
Moved   == NewIn /\ stage = [new |-> None, prev |-> Noted(want[To])]
Doubled == NewIn /\ stage = [new |-> op.conf, prev |-> Noted(want[To])]
Back    == Ready \/ Aside
Whole   == Back \/ Moved \/ Doubled
GoneOld == OldIn /\ stage = NoStage
GoneNew == NewIn /\ stage = NoStage

(* An installation under way; one that has landed; a held one whose owner   *)
(* chose; one that a restart decides about, and what it then goes by.       *)
Installs ==
  /\ proc.pc = "switch" => Ready
  /\ proc.pc = "back" => Back \/ Moved
  /\ proc.pc = "drop" => Back
  /\ Tasking({"install"}) \/ proc.pc = "clean" => Moved
  /\ proc.pc = "outcome" \/ Tasking({"undo"}) =>
       IF proc.err = "failed" THEN Back \/ GoneOld ELSE Whole
Lands ==
  /\ proc.pc = "record" => Moved \/ (proc.ret = "install" /\ GoneNew)
  /\ proc.pc = "landed" => IF proc.ret = "use" THEN Moved ELSE GoneNew /\ AllIn
  /\ proc.pc = "done" => Moved \/ GoneNew
Chosen ==
  /\ proc.pc \in {"use", "go"} => Whole
  /\ proc.pc = "uselink" \/ Tasking({"use"}) => Moved
  /\ \/ proc.pc \in {"golink", "goclear"} \/ Tasking({"goback"})
     \/ proc.pc = "gone" /\ proc.ret = "goback"
     => Back
  /\ proc.pc = "rolled" /\ proc.ret = "goback" => Back \/ GoneOld
  /\ op.choices = "tasks" => OldIn
Decided ==
  \/ Whole
  \/ /\ op.choices # "switch"
     /\ (GoneNew /\ AllIn) \/ (GoneOld /\ NotYet /\ op.from # op.to)
Resumed ==
  op.choices # "tasks" =>
  /\ Tasking({"early"}) \/ (proc.pc = "gone" /\ proc.ret # "goback") =>
       NotYet /\ (Ready \/ (GoneOld /\ op.from # op.to))
  /\ proc.pc = "rolled" /\ proc.ret # "goback" => NotYet /\ (Ready \/ GoneOld)
  /\ proc.pc = "idle" => Decided
Unstaged ==
  op.to \notin Configured /\ (proc.pc \in {"switch", "back"} \/ Tasking({"install"})) =>
    stage = NoStage
(* The whole of it: only the app being changed may be off its last good     *)
(* configuration, and only once the switch is on record.                    *)
ConfigWhere ==
  /\ ~Active => cfg = want
  /\ Active => /\ \A b \in Apps \ {To} : cfg[b] = want[b]
               /\ ~Has => OldIn
               /\ Has => Installs /\ Lands /\ Chosen /\ Resumed
               /\ Unstaged
-----------------------------------------------------------------------------
(* The tasks.  A set of jobs is within some names when any other job is of  *)
(* an app whose owner was told to look.                                     *)
Within(J, N, D) == \A j \in J : j.name \in N \/ App(j.rel) \in D

OldTasks  == Tasks(BegunOn)
NewTasks  == Tasks(op.to)
SyncTo    == Tasks(Sync.m)
SyncFrom  == Tasks(Sync.prev)
KeptTasks == IF op.repl = None THEN OldTasks ELSE {}

(* A job's name is in its release's manifest, and there are finitely many.  *)
Proper == \A j \in jobs \cup proc.old : j.name \in Tasks(j.rel)

Finite == IsFiniteSet(jobs)

(* A release of a change is on record only at its end, or while a restart   *)
(* has yet to see that all is in.                                           *)
Recording ==
  Active =>
    /\ op.kind = "rollback" => op.from # None /\ op.to \in {record.prev, record.rel}
    /\ op.choices = "tasks" => op.repl # None /\ record.rel = op.repl
    /\ record.rel = op.to /\ BegunOn # op.to =>
         proc.pc \in {"landed", "done"} \/ (proc.pc = "idle" /\ op.choices # "switch" /\ AllIn)

(* Where the links are, and which one a failed switch goes back to.         *)
Links ==
  /\ ~Active /\ record.rel # None => link[App(record.rel)] = record.rel
  /\ Active =>
       /\ proc.pc \in {"landed", "done"} => link[To] = op.to
       /\ op.repl # None /\ record.rel = op.repl => link[App(op.repl)] = op.repl
       /\ op.repl = None /\ op.from # None =>
            /\ \/ op.step = 0
               \/ proc.pc \in {"switch", "swap", "drop", "gone", "rolled", "goclear"}
               \/ proc.pc = "outcome" /\ proc.err = "failed"
               \/ Tasking({"goback"})
               => link[To] = op.from
            /\ \/ proc.pc \in {"switch", "swap", "back", "pointback"}
               \/ Tasking({"install", "rollback"})
               => proc.was = op.from

(* The tasks that can be on the agent, by how far the change is.            *)
Spread ==
  /\ \/ Within(jobs, OldTasks, doubt) \/ Within(jobs, NewTasks, doubt)
     \/ op.repl = None /\ Within(jobs, OldTasks \cup NewTasks, doubt)
  /\ record.rel = op.to => Within(jobs, NewTasks, doubt)
  /\ op.step = 0 \/ op.choices = "tasks" \/ Tasking({"undo", "early", "choice"}) =>
       Within(jobs, OldTasks, doubt)
  /\ op.from = None /\ op.choices # "switch" /\ link[To] # op.to => Within(jobs, OldTasks, doubt)
  /\ \/ proc.pc \in {"prepare", "switch", "swap", "back", "drop", "pointback"}
     \/ proc.pc = "list" /\ proc.ret \in {"install", "rollback"}
     => Within(jobs, KeptTasks, doubt)
  /\ proc.pc \in {"clean", "record", "landed", "done"} => Within(jobs, NewTasks, doubt)
  /\ proc.pc = "outcome" /\ proc.err = "failed" => Within(jobs, OldTasks, doubt)
  /\ proc.pc \in {"gone", "rolled"} => Within(jobs, Tasks(record.rel), doubt)
(* While an owner's choice is carried out on a replacement.                 *)
Turned ==
  /\ op.repl # None /\ record.rel = op.repl =>
       /\ proc.pc \in {"use", "uselink"} \/ Tasking({"use"}) => Within(jobs, NewTasks, doubt)
       /\ proc.pc = "goclear" => Within(jobs, NewTasks, doubt) \/ Within(jobs, OldTasks, doubt)
       /\ Tasking({"goback"}) => Within(jobs, OldTasks, doubt)
  /\ proc.pc = "goclear" => (op.repl # None /\ record.rel = op.repl) \/ record.rel = None
(* While tasks are set: the jobs listed first, and those that are new.      *)
Synching ==
  /\ proc.pc \in {"sync", "undo", "readd"} =>
       /\ proc.ret \in {"install", "rollback"} => Within(proc.old, KeptTasks, doubt)
       /\ Within(jobs \ proc.old, SyncTo, doubt)
       /\ Within(proc.old, SyncTo \cup SyncFrom, doubt)
  /\ proc.pc = "list" => Within(jobs, SyncTo \cup SyncFrom, doubt)
(* The whole of it.                                                         *)
Listed ==
  /\ ~Active => Within(jobs, Tasks(record.rel), doubt)
  /\ Active => Spread /\ Turned /\ Synching
-----------------------------------------------------------------------------
(* What is left alone reads the same after the step.                        *)
LEMMA Unmoved ==
  ASSUME UNCHANGED <<cfg, stage, want>>, op'.to = op.to, op'.kind = op.kind,
         op'.step = op.step, op'.conf = op.conf
  PROVE  /\ To' = To /\ (Has' <=> Has) /\ (OldIn' <=> OldIn) /\ (Ready' <=> Ready)
         /\ (Aside' <=> Aside) /\ (Moved' <=> Moved) /\ (Doubled' <=> Doubled)
         /\ (GoneOld' <=> GoneOld) /\ (GoneNew' <=> GoneNew)
BY DEF To, Has, HasConfig, OldIn, NewIn, Ready, Aside, Moved, Doubled, GoneOld, GoneNew

LEMMA Unjudged ==
  ASSUME UNCHANGED <<record, link, stage, jobs>>, op'.to = op.to, op'.kind = op.kind,
         op'.from = op.from
  PROVE  (AllIn' <=> AllIn) /\ (NotYet' <=> NotYet)
<1>1. Recorded' = Recorded /\ (ConfigMoved' <=> ConfigMoved) /\ (ConfigStaged' <=> ConfigStaged)
  BY DEF Recorded, Same, To, ConfigMoved, ConfigStaged, HasConfig
<1>2. TasksOk' <=> TasksOk
  BY <1>1 DEF TasksOk, TasksAre, Times, Named
<1> QED BY <1>1, <1>2 DEF AllIn, NotYet, To

(* A job's step does not change the restart's verdict on a replacement:     *)
(* what is recorded is another app's, and nothing of this one's is asked.   *)
LEMMA UnjudgedReplaced ==
  ASSUME UNCHANGED <<record, link, stage, op>>, Rows, Active, op.repl # None,
         record.rel = op.repl
  PROVE  NotYet' <=> NotYet
BY DEF Rows, NotYet, Recorded, Same, To, ConfigMoved, HasConfig, TasksOk

(* A note of a configuration kept aside says which it was.                  *)
LEMMA Noting == \A c \in Config : Noted(c) # None /\ File(Noted(c)) = c
BY DEF Config, Configs, Noted, File, None

(* What the restart rule reads of the staging folder, by where it is.       *)
LEMMA Stages ==
  ASSUME TypeOK, Known, Rows, Active, Has
  PROVE  /\ op.conf # None /\ Noted(want[To]) # None
         /\ Ready => ConfigStaged /\ ~ConfigMoved /\ stage # NoStage
         /\ Aside => ConfigStaged /\ ConfigMoved /\ stage # NoStage
         /\ Moved => ~ConfigStaged /\ ConfigMoved /\ stage # NoStage
         /\ Doubled => ConfigStaged /\ ConfigMoved /\ stage # NoStage
         /\ GoneOld \/ GoneNew => ~ConfigStaged /\ ~ConfigMoved
<1>1. op.conf # None /\ op.to \in Releases
  BY DEF Known, Rows, Configs, None
<1>2. Noted(want[To]) # None
  BY <1>1, AppType, Noting DEF TypeOK, To
<1> QED BY <1>1, <1>2 DEF Has, Ready, Aside, Moved, Doubled, GoneOld, GoneNew, ConfigStaged,
           ConfigMoved, NoStage

LEMMA BegunRow ==
  ASSUME NEW kind, NEW to, NEW had, Begin(kind, to, had)
  PROVE  /\ op'.kind = kind /\ op'.to = to /\ op'.step = 0 /\ op'.st = "running"
         /\ op'.choices = None /\ op'.conf = OtherConfig(cfg[AppOf[to]])
         /\ IF App(had) = AppOf[to] THEN op'.from = had /\ op'.repl = None
                                    ELSE op'.from = None /\ op'.repl = had
         /\ proc'.ret = None /\ proc'.err = None
         /\ \/ kind = "rollback" /\ proc'.pc = "rollback"
            \/ kind # "rollback" /\ op'.repl = None /\ proc'.pc = "prepare"
            \/ kind # "rollback" /\ op'.repl # None /\ proc'.pc = "clear"
BY DEF Begin, Idle, None

(* An operation begins with its row, its record and its places in order.    *)
LEMMA BegunRows ==
  ASSUME TypeOK, Shape, Rows, NEW kind, NEW to \in Releases, Begin(kind, to, record.rel),
         kind = "rollback" => App(record.rel) = AppOf[to],
         UNCHANGED record, asked' = asked \/ asked' = NotAsked
  PROVE  Rows'
<1>1. OtherConfig(cfg[AppOf[to]]) \in Configs
  BY DEF OtherConfig, Configs
<1>2. App(to) = AppOf[to]
  BY AppType
<1> QED BY <1>1, <1>2, BegunRow DEF Rows, BegunOn, To, Active, NotAsked, None

-----------------------------------------------------------------------------
(* Every action keeps the rows, the turns and the callings.                 *)
LEMMA RowsStep ==
  TypeOK /\ Shape /\ Rows /\ Turns /\ Callings /\ [Next]_vars => Rows'
<1> SUFFICES ASSUME TypeOK, Shape, Rows, Turns, Callings, [Next]_vars PROVE Rows'
  OBVIOUS
<1>p. /\ RecordType /\ OpType /\ ProcType /\ AskedType /\ Known /\ Placed /\ CfgType
  BY Parts DEF Shape
<1>r. /\ proc = [pc |-> proc.pc, ret |-> proc.ret, was |-> proc.was, old |-> proc.old,
               err |-> proc.err]
      /\ op = [kind |-> op.kind, to |-> op.to, from |-> op.from, repl |-> op.repl,
               step |-> op.step, st |-> op.st, choices |-> op.choices, off |-> op.off,
               conf |-> op.conf]
      /\ record = [rel |-> record.rel, prev |-> record.prev]
      /\ asked = [kind |-> asked.kind, to |-> asked.to, had |-> asked.had, fresh |-> asked.fresh]
  BY Parts DEF ProcType, OpType, OpRow, RecordType, AskedType
<1> USE <1>p, <1>r DEF Rows, BegunOn, Active, To, None, Known, Placed, Idle, Switching, Running
<1>1. CASE \E kind \in {"install", "update"}, r \in Releases : Ask(kind, r)
  BY <1>1 DEF Ask, Free, Request, live, past
<1>2. CASE \E kind \in {"install", "update"}, r \in Releases : Change(kind, r)
  <2>1. PICK kind \in {"install", "update"}, r \in Releases : Change(kind, r)
    BY <1>2
  <2> QED BY <2>1, BegunRows DEF Change, live, past
<1>3. CASE RollBack
  <2>1. record.prev \in Releases /\ AppOf[record.prev] = App(record.rel)
    BY <1>3, AppType DEF RollBack, RecordType, Maybe
  <2> QED BY <1>3, <2>1, BegunRows DEF RollBack, Change, live, past
<1>4. CASE Fetched
  BY <1>4, BegunRows DEF Fetched, AsItWas
<1>5. CASE Refused
  BY <1>5 DEF Refused, NotAsked, live, past
<1>6. CASE StopApp
  BY <1>6 DEF StopApp, At, Free, Nothing, live, past
<1>7. CASE \E j \in jobs : Toggle(j)
  BY <1>7 DEF Toggle, Free, live
<1>8. CASE Choose
  <2>1. UNCHANGED <<record, asked>> /\ proc = Idle
    BY <1>8 DEF Resume, Choose, TheRow
  <2>2. CASE op' = op /\ proc'.pc \in {"use", "go"} /\ proc'.ret = None /\ proc'.err = None
             /\ op.choices = "switch" /\ op.st = "held"
    BY <2>1, <2>2
  <2>3. CASE Undo("choice") /\ op' = op /\ op.st = "held" /\ op.choices = "tasks"
    BY <2>1, <2>3, Undoings
  <2>4. CASE Decide /\ (op.st = "interrupted" \/ (op.st = "held" /\ op.choices = "retry"))
    <3>1. CASE /\ proc' = [Idle EXCEPT !.pc = "landed"] /\ op' = op
               /\ op.step = Switching /\ AllIn
      <4>1. record.rel = op.to
        BY <3>1, <2>4, AppType DEF AllIn, Recorded
      <4> QED BY <2>1, <2>4, <3>1, <4>1
    <3>2. CASE Held("switch") /\ proc' = proc /\ op.step = Switching
      BY <2>1, <2>4, <3>2, Holds
    <3>3. CASE Undo("early") /\ op' = op
      BY <2>1, <2>4, <3>3, Undoings
    <3>4. CASE Held("retry") /\ proc' = proc
      BY <2>1, <2>4, <3>4, Holds
    <3> QED BY <2>4, <3>1, <3>2, <3>3, <3>4, Decisions
  <2> QED BY <1>8, <2>2, <2>3, <2>4 DEF Choose, UseNew, GoBack, PutTasksBack
<1>9. CASE Cleared
  BY <1>9 DEF Cleared, At, Nothing, live, past
<1>10. CASE NotCleared
  BY <1>10 DEF NotCleared, Ends, Nothing, live, past
<1>11. CASE Stopped
  BY <1>11 DEF Stopped, Stale, Turns, live
<1>12. CASE \E j \in jobs : TakeOff(j)
  BY <1>12 DEF TakeOff, TheJobs, live, past
<1>13. CASE Prepare
  BY <1>13 DEF Prepare, past
<1>14. CASE NotPrepared
  BY <1>14 DEF NotPrepared, TheVolume, past
<1>15. CASE Switch
  BY <1>15 DEF Switch, LinkTo, TheVolume, past
<1>16. CASE NotSwitched
  BY <1>16 DEF NotSwitched, TheVolume, past
<1>17. CASE PutBack
  BY <1>17 DEF PutBack, At, TheVolume, past
<1>18. CASE NotPutBack
  BY <1>18 DEF NotPutBack, Catch, Ends, TheVolume, past
<1>19. CASE Drop
  BY <1>19 DEF Drop, ClearStaging, Catch, Ends, TheVolume, past
<1>20. CASE Outcome
  BY <1>20 DEF Outcome, Held, Over, TheRow, live, past
<1>21. CASE List
  BY <1>21 DEF List, Nothing, live, past
<1>22. CASE NotListed
  BY <1>22 DEF NotListed, SyncFails, live
<1>23. CASE NotSynced
  BY <1>23 DEF NotSynced, At, Nothing, live, past
<1>24. CASE Synced
  BY <1>24 DEF Synced, Nothing, live, past
<1>25. CASE \E n \in Names : Add(n)
  BY <1>25 DEF Add, Answered, At, TheJobs, live, past
<1>26. CASE \E j \in jobs : Remove(j)
  BY <1>26 DEF Remove, Answered, At, TheJobs, live, past
<1>27. CASE \E j \in jobs : UndoAdd(j)
  BY <1>27 DEF UndoAdd, TheJobs, live, past
<1>28. CASE Undone
  BY <1>28 DEF Undone, At, Nothing, live, past
<1>29. CASE \E j \in proc.old : Readd(j)
  BY <1>29 DEF Readd, TheJobs, live, past
<1>30. CASE Readded
  BY <1>30 DEF Readded, SyncFails, live
<1>31. CASE Check
  BY <1>31 DEF Check, At, Held, live
<1>32. CASE Rollback
  BY <1>32 DEF Rollback, TheRow, live, past
<1>33. CASE Swap
  BY <1>33 DEF Swap, Pointed, Sets, Ends, Nothing, live, TheVolume, past
<1>34. CASE PointBack
  BY <1>34 DEF PointBack, Pointed, Ends, TheVolume, past
<1>35. CASE UseConfig
  BY <1>35 DEF UseConfig, At, TheVolume, past
<1>36. CASE UseLink
  BY <1>36 DEF UseLink, Pointed, Sets, TheVolume, past
<1>37. CASE GoConfig
  BY <1>37 DEF GoConfig, At, TheVolume, past
<1>38. CASE GoLink
  BY <1>38 DEF GoLink, Pointed, Sets, At, TheVolume, past
<1>39. CASE Clean
  BY <1>39 DEF Clean, ClearStaging, At, TheVolume, past
<1>40. CASE Record
  <2>1. /\ record'.rel = op.to /\ record'.prev \in {record.prev, record.rel, None}
        /\ record'.prev = record.prev =>
             record.prev = None \/ record.rel = op.to \/ record.prev = record.rel
        /\ record'.prev = record.rel =>
             record.rel = None \/ App(record.rel) = To \/ record.prev = record.rel
    BY <1>40 DEF Record, Before, Same
  <2>2. op.to \in Releases /\ op.step = 1 /\ App(op.to) = To /\ op' = op
    BY <1>40, AppType DEF Record, Turns, TurnedAt
  <2>3. record'.prev # None => record'.rel # None /\ App(record'.prev) = App(record'.rel)
    BY <1>40, <2>2, AppType DEF Record, Before, Same, Turns
  <2> QED BY <1>40, <2>1, <2>2, <2>3 DEF Record, Stale
<1>41. CASE Done
  BY <1>41 DEF Done, Over, live
<1>42. CASE RolledBack
  BY <1>42 DEF RolledBack, Over, TheRow, live, past
<1>43. CASE Resume
  <2>1. UNCHANGED <<record, asked>> /\ proc = Idle
    BY <1>43 DEF Resume, Choose, TheRow
  <2>2. CASE op' = op /\ proc'.pc \in {"use", "go"} /\ proc'.ret = None /\ proc'.err = None
             /\ op.choices = "switch" /\ op.st = "held"
    BY <2>1, <2>2
  <2>3. CASE Undo("choice") /\ op' = op /\ op.st = "held" /\ op.choices = "tasks"
    BY <2>1, <2>3, Undoings
  <2>4. CASE Decide /\ (op.st = "interrupted" \/ (op.st = "held" /\ op.choices = "retry"))
    <3>1. CASE /\ proc' = [Idle EXCEPT !.pc = "landed"] /\ op' = op
               /\ op.step = Switching /\ AllIn
      <4>1. record.rel = op.to
        BY <3>1, <2>4, AppType DEF AllIn, Recorded
      <4> QED BY <2>1, <2>4, <3>1, <4>1
    <3>2. CASE Held("switch") /\ proc' = proc /\ op.step = Switching
      BY <2>1, <2>4, <3>2, Holds
    <3>3. CASE Undo("early") /\ op' = op
      BY <2>1, <2>4, <3>3, Undoings
    <3>4. CASE Held("retry") /\ proc' = proc
      BY <2>1, <2>4, <3>4, Holds
    <3> QED BY <2>4, <3>1, <3>2, <3>3, <3>4, Decisions
  <2> QED BY <1>43, <2>2, <2>3, <2>4 DEF Resume
<1>44. CASE Die
  BY <1>44 DEF Die, CutOff, NotAsked, live
<1>45. CASE Rest
  BY <1>45 DEF Rest, vars, live, past
<1>46. CASE UNCHANGED vars
  BY <1>46 DEF vars, live, past
<1> QED BY <1>1, <1>2, <1>3, <1>4, <1>5, <1>6, <1>7, <1>8, <1>9, <1>10, <1>11, <1>12,
   <1>13, <1>14, <1>15, <1>16, <1>17, <1>18, <1>19, <1>20, <1>21, <1>22, <1>23, <1>24,
   <1>25, <1>26, <1>27, <1>28, <1>29, <1>30, <1>31, <1>32, <1>33, <1>34, <1>35, <1>36,
   <1>37, <1>38, <1>39, <1>40, <1>41, <1>42, <1>43, <1>44, <1>45, <1>46
       DEF Next, Owner, Step, Removing, Installing, Syncing, Choosing, Ending

LEMMA TurnsStep ==
  TypeOK /\ Shape /\ Rows /\ Turns /\ Callings /\ [Next]_vars => Turns'
<1> SUFFICES ASSUME TypeOK, Shape, Rows, Turns, Callings, [Next]_vars PROVE Turns'
  OBVIOUS
<1>p. /\ RecordType /\ OpType /\ ProcType /\ AskedType /\ Known /\ Placed /\ CfgType
  BY Parts DEF Shape
<1>r. /\ proc = [pc |-> proc.pc, ret |-> proc.ret, was |-> proc.was, old |-> proc.old,
               err |-> proc.err]
      /\ op = [kind |-> op.kind, to |-> op.to, from |-> op.from, repl |-> op.repl,
               step |-> op.step, st |-> op.st, choices |-> op.choices, off |-> op.off,
               conf |-> op.conf]
      /\ record = [rel |-> record.rel, prev |-> record.prev]
      /\ asked = [kind |-> asked.kind, to |-> asked.to, had |-> asked.had, fresh |-> asked.fresh]
  BY Parts DEF ProcType, OpType, OpRow, RecordType, AskedType
<1> USE <1>p, <1>r DEF Rows, BegunOn, Active, To, None, Known, Placed, Idle, Switching,
     Running, Turns, RunsAt, ChosenAt, ResumedAt, TurnedAt
<1>1. CASE \E kind \in {"install", "update"}, r \in Releases : Ask(kind, r)
  BY <1>1 DEF Ask, Free, Request, live, past
<1>2. CASE \E kind \in {"install", "update"}, r \in Releases : Change(kind, r)
  BY <1>2 DEF Change, Free, Begin, live, past
<1>3. CASE RollBack
  BY <1>3 DEF RollBack, Change, Free, Begin, live, past
<1>4. CASE Fetched
  BY <1>4 DEF Fetched, Free, AsItWas, Begin, NotAsked, live, past
<1>5. CASE Refused
  BY <1>5 DEF Refused, NotAsked, live, past
<1>6. CASE StopApp
  BY <1>6 DEF StopApp, At, Free, Nothing, live, past
<1>7. CASE \E j \in jobs : Toggle(j)
  BY <1>7 DEF Toggle, Free, live
<1>8. CASE Choose
  <2>1. UNCHANGED <<record, asked>> /\ proc = Idle
    BY <1>8 DEF Resume, Choose, TheRow
  <2>2. CASE op' = op /\ proc'.pc \in {"use", "go"} /\ proc'.ret = None /\ proc'.err = None
             /\ op.choices = "switch" /\ op.st = "held"
    BY <2>1, <2>2
  <2>3. CASE Undo("choice") /\ op' = op /\ op.st = "held" /\ op.choices = "tasks"
    BY <2>1, <2>3, Undoings
  <2>4. CASE Decide /\ (op.st = "interrupted" \/ (op.st = "held" /\ op.choices = "retry"))
    <3>1. CASE /\ proc' = [Idle EXCEPT !.pc = "landed"] /\ op' = op
               /\ op.step = Switching /\ AllIn
      <4>1. record.rel = op.to
        BY <3>1, <2>4, AppType DEF AllIn, Recorded
      <4> QED BY <2>1, <2>4, <3>1, <4>1
    <3>2. CASE Held("switch") /\ proc' = proc /\ op.step = Switching
      BY <2>1, <2>4, <3>2, Holds
    <3>3. CASE Undo("early") /\ op' = op
      BY <2>1, <2>4, <3>3, Undoings
    <3>4. CASE Held("retry") /\ proc' = proc
      BY <2>1, <2>4, <3>4, Holds
    <3> QED BY <2>4, <3>1, <3>2, <3>3, <3>4, Decisions
  <2> QED BY <1>8, <2>2, <2>3, <2>4 DEF Choose, UseNew, GoBack, PutTasksBack
<1>9. CASE Cleared
  BY <1>9 DEF Cleared, At, Nothing, live, past
<1>10. CASE NotCleared
  <2>1. UNCHANGED <<record, op, asked>>
    BY <1>10 DEF NotCleared, Nothing, live
  <2>2. CASE proc' = Idle
    BY <2>1, <2>2
  <2>3. CASE proc.pc = "clear" /\ Ends("failed")
    BY <2>1, <2>3 DEF Ends
  <2> QED BY <1>10, <2>2, <2>3 DEF NotCleared
<1>11. CASE Stopped
  BY <1>11 DEF Stopped, Stale, live
<1>12. CASE \E j \in jobs : TakeOff(j)
  BY <1>12 DEF TakeOff, TheJobs, live, past
<1>13. CASE Prepare
  BY <1>13 DEF Prepare, past
<1>14. CASE NotPrepared
  BY <1>14 DEF NotPrepared, TheVolume, past
<1>15. CASE Switch
  BY <1>15 DEF Switch, LinkTo, TheVolume, past
<1>16. CASE NotSwitched
  BY <1>16 DEF NotSwitched, TheVolume, past
<1>17. CASE PutBack
  BY <1>17 DEF PutBack, At, TheVolume, past
<1>18. CASE NotPutBack
  BY <1>18 DEF NotPutBack, Catch, Ends, TheVolume, past
<1>19. CASE Drop
  BY <1>19 DEF Drop, ClearStaging, Catch, Ends, TheVolume, past
<1>20. CASE Outcome
  <2>1. CASE proc.err = "held" /\ Held("switch")
    BY <1>20, <2>1, Holds DEF Outcome, TheRow, Said, Turning, Shape
  <2>2. CASE Over
    BY <1>20, <2>2 DEF Outcome, Over, TheRow
  <2> QED BY <1>20, <2>1, <2>2 DEF Outcome
<1>21. CASE List
  BY <1>21 DEF List, Nothing, live, past
<1>22. CASE NotListed
  <2>1. UNCHANGED <<record, op, asked>> /\ proc.pc \in {"list", "undo", "readd"}
    BY <1>22 DEF NotListed, SyncFails, live
  <2>2. PICK u : SyncFails(u)
    BY <1>22 DEF NotListed
  <2>3. CASE proc' = Idle
    BY <2>1, <2>3
  <2>4. CASE proc.ret = "install" /\ proc' = [proc EXCEPT !.old = {}, !.pc = "back",
                                                !.err = "failed"]
    BY <2>1, <2>4
  <2>5. CASE proc.ret = "rollback" /\ proc' = [proc EXCEPT !.old = {}, !.pc = "pointback"]
    BY <2>1, <2>5
  <2>6. CASE /\ proc.ret \notin {"use", "goback", "install", "rollback"}
             /\ proc' = [proc EXCEPT !.old = {}, !.pc = "check"]
    <3> proc.ret \in Callers
      BY DEF ProcType
    <3> QED BY <2>1, <2>6
  <2> QED BY <2>2, <2>3, <2>4, <2>5, <2>6, Failings
<1>23. CASE NotSynced
  BY <1>23 DEF NotSynced, At, Nothing, live, past
<1>24. CASE Synced
  BY <1>24 DEF Synced, Nothing, live, past
<1>25. CASE \E n \in Names : Add(n)
  BY <1>25 DEF Add, Answered, At, TheJobs, live, past
<1>26. CASE \E j \in jobs : Remove(j)
  BY <1>26 DEF Remove, Answered, At, TheJobs, live, past
<1>27. CASE \E j \in jobs : UndoAdd(j)
  BY <1>27 DEF UndoAdd, TheJobs, live, past
<1>28. CASE Undone
  BY <1>28 DEF Undone, At, Nothing, live, past
<1>29. CASE \E j \in proc.old : Readd(j)
  BY <1>29 DEF Readd, TheJobs, live, past
<1>30. CASE Readded
  <2>1. UNCHANGED <<record, op, asked>> /\ proc.pc \in {"list", "undo", "readd"}
    BY <1>30 DEF Readded, SyncFails, live
  <2>2. PICK u : SyncFails(u)
    BY <1>30 DEF Readded
  <2>3. CASE proc' = Idle
    BY <2>1, <2>3
  <2>4. CASE proc.ret = "install" /\ proc' = [proc EXCEPT !.old = {}, !.pc = "back",
                                                !.err = "failed"]
    BY <2>1, <2>4
  <2>5. CASE proc.ret = "rollback" /\ proc' = [proc EXCEPT !.old = {}, !.pc = "pointback"]
    BY <2>1, <2>5
  <2>6. CASE /\ proc.ret \notin {"use", "goback", "install", "rollback"}
             /\ proc' = [proc EXCEPT !.old = {}, !.pc = "check"]
    <3> proc.ret \in Callers
      BY DEF ProcType
    <3> QED BY <2>1, <2>6
  <2> QED BY <2>2, <2>3, <2>4, <2>5, <2>6, Failings
<1>31. CASE Check
  <2>1. UNCHANGED <<record, asked>> /\ proc.pc = "check"
    BY <1>31 DEF Check, live
  <2>2. CASE op' = op /\ proc.ret = "undo" /\ At("outcome")
    BY <2>1, <2>2 DEF At
  <2>3. CASE op' = op /\ At("gone") /\ proc.ret # "undo"
    BY <2>1, <2>3 DEF At, Callings
  <2>4. CASE op' = op /\ proc' = Idle
    BY <2>1, <2>4
  <2>5. CASE proc' = Idle /\ Held("tasks")
    BY <2>1, <2>5, Holds
  <2> QED BY <1>31, <2>2, <2>3, <2>4, <2>5 DEF Check
<1>32. CASE Rollback
  BY <1>32 DEF Rollback, TheRow, live, past
<1>33. CASE Swap
  BY <1>33 DEF Swap, Pointed, Sets, Ends, Nothing, live, TheVolume, past
<1>34. CASE PointBack
  BY <1>34 DEF PointBack, Pointed, Ends, TheVolume, past
<1>35. CASE UseConfig
  BY <1>35 DEF UseConfig, At, TheVolume, past
<1>36. CASE UseLink
  <2>1. UNCHANGED <<record, op, asked>> /\ proc.pc = "uselink"
    BY <1>36 DEF UseLink, Pointed, TheVolume
  <2>2. CASE Sets("use")
    BY <2>1, <2>2 DEF Sets
  <2>3. CASE proc' = Idle
    BY <2>1, <2>3
  <2> QED BY <1>36, <2>2, <2>3 DEF UseLink, Pointed
<1>37. CASE GoConfig
  BY <1>37 DEF GoConfig, At, TheVolume, past
<1>38. CASE GoLink
  <2>1. UNCHANGED <<record, op, asked>> /\ proc.pc = "golink"
    BY <1>38 DEF GoLink, Pointed, TheVolume
  <2>2. CASE proc' = Idle \/ At("goclear")
    BY <2>1, <2>2 DEF At
  <2>3. CASE Sets("goback")
    BY <2>1, <2>3 DEF Sets
  <2> QED BY <1>38, <2>2, <2>3 DEF GoLink, Pointed
<1>39. CASE Clean
  BY <1>39 DEF Clean, ClearStaging, At, TheVolume, past
<1>40. CASE Record
  <2>1. CASE proc.ret = "use" /\ At("landed")
    BY <1>40, <2>1 DEF Record, At
  <2>2. CASE proc.ret # "use" /\ At("done")
    BY <1>40, <2>2 DEF Record, At, Callings
  <2> QED BY <1>40, <2>1, <2>2 DEF Record
<1>41. CASE Done
  BY <1>41 DEF Done, Over, live
<1>42. CASE RolledBack
  BY <1>42 DEF RolledBack, Over, TheRow, live, past
<1>43. CASE Resume
  <2>1. UNCHANGED <<record, asked>> /\ proc = Idle
    BY <1>43 DEF Resume, Choose, TheRow
  <2>2. CASE op' = op /\ proc'.pc \in {"use", "go"} /\ proc'.ret = None /\ proc'.err = None
             /\ op.choices = "switch" /\ op.st = "held"
    BY <2>1, <2>2
  <2>3. CASE Undo("choice") /\ op' = op /\ op.st = "held" /\ op.choices = "tasks"
    BY <2>1, <2>3, Undoings
  <2>4. CASE Decide /\ (op.st = "interrupted" \/ (op.st = "held" /\ op.choices = "retry"))
    <3>1. CASE /\ proc' = [Idle EXCEPT !.pc = "landed"] /\ op' = op
               /\ op.step = Switching /\ AllIn
      <4>1. record.rel = op.to
        BY <3>1, <2>4, AppType DEF AllIn, Recorded
      <4> QED BY <2>1, <2>4, <3>1, <4>1
    <3>2. CASE Held("switch") /\ proc' = proc /\ op.step = Switching
      BY <2>1, <2>4, <3>2, Holds
    <3>3. CASE Undo("early") /\ op' = op
      BY <2>1, <2>4, <3>3, Undoings
    <3>4. CASE Held("retry") /\ proc' = proc
      BY <2>1, <2>4, <3>4, Holds
    <3> QED BY <2>4, <3>1, <3>2, <3>3, <3>4, Decisions
  <2> QED BY <1>43, <2>2, <2>3, <2>4 DEF Resume
<1>44. CASE Die
  BY <1>44 DEF Die, CutOff, NotAsked, live
<1>45. CASE Rest
  BY <1>45 DEF Rest, vars, live, past
<1>46. CASE UNCHANGED vars
  BY <1>46 DEF vars, live, past
<1> QED BY <1>1, <1>2, <1>3, <1>4, <1>5, <1>6, <1>7, <1>8, <1>9, <1>10, <1>11, <1>12,
   <1>13, <1>14, <1>15, <1>16, <1>17, <1>18, <1>19, <1>20, <1>21, <1>22, <1>23, <1>24,
   <1>25, <1>26, <1>27, <1>28, <1>29, <1>30, <1>31, <1>32, <1>33, <1>34, <1>35, <1>36,
   <1>37, <1>38, <1>39, <1>40, <1>41, <1>42, <1>43, <1>44, <1>45, <1>46
       DEF Next, Owner, Step, Removing, Installing, Syncing, Choosing, Ending

LEMMA CallingsStep ==
  TypeOK /\ Shape /\ Rows /\ Turns /\ Callings /\ [Next]_vars => Callings'
<1> SUFFICES ASSUME TypeOK, Shape, Rows, Turns, Callings, [Next]_vars PROVE Callings'
  OBVIOUS
<1>p. /\ RecordType /\ OpType /\ ProcType /\ AskedType /\ Known /\ Placed /\ CfgType
  BY Parts DEF Shape
<1>r. /\ proc = [pc |-> proc.pc, ret |-> proc.ret, was |-> proc.was, old |-> proc.old,
               err |-> proc.err]
      /\ op = [kind |-> op.kind, to |-> op.to, from |-> op.from, repl |-> op.repl,
               step |-> op.step, st |-> op.st, choices |-> op.choices, off |-> op.off,
               conf |-> op.conf]
      /\ record = [rel |-> record.rel, prev |-> record.prev]
      /\ asked = [kind |-> asked.kind, to |-> asked.to, had |-> asked.had, fresh |-> asked.fresh]
  BY Parts DEF ProcType, OpType, OpRow, RecordType, AskedType
<1> USE <1>p, <1>r DEF Rows, BegunOn, Active, To, None, Known, Placed, Idle, Switching,
     Callings, Tasking, Callers
<1>1. CASE \E kind \in {"install", "update"}, r \in Releases : Ask(kind, r)
  BY <1>1 DEF Ask, Free, Request, live, past
<1>2. CASE \E kind \in {"install", "update"}, r \in Releases : Change(kind, r)
  BY <1>2 DEF Change, Free, Begin, live, past
<1>3. CASE RollBack
  BY <1>3 DEF RollBack, Change, Free, Begin, live, past
<1>4. CASE Fetched
  BY <1>4 DEF Fetched, Free, AsItWas, Begin, NotAsked, live, past
<1>5. CASE Refused
  BY <1>5 DEF Refused, NotAsked, live, past
<1>6. CASE StopApp
  BY <1>6 DEF StopApp, At, Free, Nothing, live, past
<1>7. CASE \E j \in jobs : Toggle(j)
  BY <1>7 DEF Toggle, Free, live
<1>8. CASE Choose
  <2>1. UNCHANGED <<record, asked>> /\ proc = Idle
    BY <1>8 DEF Resume, Choose, TheRow
  <2>2. CASE op' = op /\ proc'.pc \in {"use", "go"} /\ proc'.ret = None /\ proc'.err = None
             /\ op.choices = "switch" /\ op.st = "held"
    BY <2>1, <2>2
  <2>3. CASE Undo("choice") /\ op' = op /\ op.st = "held" /\ op.choices = "tasks"
    BY <2>1, <2>3, Undoings
  <2>4. CASE Decide /\ (op.st = "interrupted" \/ (op.st = "held" /\ op.choices = "retry"))
    <3>1. CASE /\ proc' = [Idle EXCEPT !.pc = "landed"] /\ op' = op
               /\ op.step = Switching /\ AllIn
      <4>1. record.rel = op.to
        BY <3>1, <2>4, AppType DEF AllIn, Recorded
      <4> QED BY <2>1, <2>4, <3>1, <4>1
    <3>2. CASE Held("switch") /\ proc' = proc /\ op.step = Switching
      BY <2>1, <2>4, <3>2, Holds
    <3>3. CASE Undo("early") /\ op' = op
      BY <2>1, <2>4, <3>3, Undoings
    <3>4. CASE Held("retry") /\ proc' = proc
      BY <2>1, <2>4, <3>4, Holds
    <3> QED BY <2>4, <3>1, <3>2, <3>3, <3>4, Decisions
  <2> QED BY <1>8, <2>2, <2>3, <2>4 DEF Choose, UseNew, GoBack, PutTasksBack
<1>9. CASE Cleared
  BY <1>9 DEF Cleared, At, Nothing, live, past
<1>10. CASE NotCleared
  <2>1. UNCHANGED <<record, op, asked>>
    BY <1>10 DEF NotCleared, Nothing, live
  <2>2. CASE proc' = Idle
    BY <2>1, <2>2
  <2>3. CASE proc.pc = "clear" /\ Ends("failed")
    BY <2>1, <2>3 DEF Ends
  <2> QED BY <1>10, <2>2, <2>3 DEF NotCleared
<1>11. CASE Stopped
  BY <1>11 DEF Stopped, Stale, live
<1>12. CASE \E j \in jobs : TakeOff(j)
  BY <1>12 DEF TakeOff, TheJobs, live, past
<1>13. CASE Prepare
  BY <1>13 DEF Prepare, past
<1>14. CASE NotPrepared
  BY <1>14 DEF NotPrepared, TheVolume, past
<1>15. CASE Switch
  BY <1>15 DEF Switch, LinkTo, TheVolume, past
<1>16. CASE NotSwitched
  BY <1>16 DEF NotSwitched, TheVolume, past
<1>17. CASE PutBack
  BY <1>17 DEF PutBack, At, TheVolume, past
<1>18. CASE NotPutBack
  <2>1. proc.pc = "back" /\ UNCHANGED <<record, op, asked>> /\ Catch("held")
    BY <1>18 DEF NotPutBack, TheVolume, past
  <2>2. CASE op.repl = None /\ Ends("held")
    BY <2>1, <2>2 DEF Ends
  <2>3. CASE op.repl # None /\ proc' = [proc EXCEPT !.pc = "list", !.ret = "undo", !.err = "held"]
    BY <2>1, <2>3
  <2> QED BY <2>1, <2>2, <2>3, Catches
<1>19. CASE Drop
  <2>1. proc.pc = "drop" /\ UNCHANGED <<record, op, asked>> /\ Catch(proc.err)
    BY <1>19 DEF Drop, ClearStaging, TheVolume, past
  <2>2. CASE op.repl = None /\ Ends(proc.err)
    BY <2>1, <2>2 DEF Ends
  <2>3. CASE /\ op.repl # None
             /\ proc' = [proc EXCEPT !.pc = "list", !.ret = "undo", !.err = proc.err]
    BY <2>1, <2>3
  <2> QED BY <2>1, <2>2, <2>3, Catches
<1>20. CASE Outcome
  BY <1>20 DEF Outcome, Held, Over, TheRow, live, past
<1>21. CASE List
  BY <1>21 DEF List, Nothing, live, past
<1>22. CASE NotListed
  <2>1. UNCHANGED <<record, op, asked>> /\ proc.pc \in {"list", "undo", "readd"}
    BY <1>22 DEF NotListed, SyncFails, live
  <2>2. PICK u : SyncFails(u)
    BY <1>22 DEF NotListed
  <2>3. CASE proc' = Idle
    BY <2>1, <2>3
  <2>4. CASE proc.ret = "install" /\ proc' = [proc EXCEPT !.old = {}, !.pc = "back",
                                                !.err = "failed"]
    BY <2>1, <2>4
  <2>5. CASE proc.ret = "rollback" /\ proc' = [proc EXCEPT !.old = {}, !.pc = "pointback"]
    BY <2>1, <2>5
  <2>6. CASE /\ proc.ret \notin {"use", "goback", "install", "rollback"}
             /\ proc' = [proc EXCEPT !.old = {}, !.pc = "check"]
    <3> proc.ret \in Callers
      BY DEF ProcType
    <3> QED BY <2>1, <2>6
  <2> QED BY <2>2, <2>3, <2>4, <2>5, <2>6, Failings
<1>23. CASE NotSynced
  BY <1>23 DEF NotSynced, At, Nothing, live, past
<1>24. CASE Synced
  <2>1. UNCHANGED <<record, op, asked>> /\ proc.pc = "sync"
    BY <1>24 DEF Synced, Nothing, live
  <2>2. CASE proc.ret = "install" /\ proc' = [proc EXCEPT !.old = {}, !.pc = "clean"]
    BY <2>1, <2>2
  <2>3. CASE proc.ret \in {"rollback", "use"} /\ proc' = [proc EXCEPT !.old = {}, !.pc = "record"]
    BY <2>1, <2>3
  <2>4. CASE proc.ret = "goback" /\ proc' = [proc EXCEPT !.old = {}, !.pc = "gone"]
    BY <2>1, <2>4
  <2>5. CASE /\ proc.ret \notin {"install", "rollback", "use", "goback"}
             /\ proc' = [proc EXCEPT !.old = {}, !.pc = "check"]
    <3> proc.ret \in Callers
      BY DEF ProcType
    <3> QED BY <2>1, <2>5
  <2> HIDE DEF Callings
  <2> QED BY <1>24, <2>2, <2>3, <2>4, <2>5 DEF Synced
<1>25. CASE \E n \in Names : Add(n)
  BY <1>25 DEF Add, Answered, At, TheJobs, live, past
<1>26. CASE \E j \in jobs : Remove(j)
  BY <1>26 DEF Remove, Answered, At, TheJobs, live, past
<1>27. CASE \E j \in jobs : UndoAdd(j)
  BY <1>27 DEF UndoAdd, TheJobs, live, past
<1>28. CASE Undone
  BY <1>28 DEF Undone, At, Nothing, live, past
<1>29. CASE \E j \in proc.old : Readd(j)
  BY <1>29 DEF Readd, TheJobs, live, past
<1>30. CASE Readded
  <2>1. UNCHANGED <<record, op, asked>> /\ proc.pc \in {"list", "undo", "readd"}
    BY <1>30 DEF Readded, SyncFails, live
  <2>2. PICK u : SyncFails(u)
    BY <1>30 DEF Readded
  <2>3. CASE proc' = Idle
    BY <2>1, <2>3
  <2>4. CASE proc.ret = "install" /\ proc' = [proc EXCEPT !.old = {}, !.pc = "back",
                                                !.err = "failed"]
    BY <2>1, <2>4
  <2>5. CASE proc.ret = "rollback" /\ proc' = [proc EXCEPT !.old = {}, !.pc = "pointback"]
    BY <2>1, <2>5
  <2>6. CASE /\ proc.ret \notin {"use", "goback", "install", "rollback"}
             /\ proc' = [proc EXCEPT !.old = {}, !.pc = "check"]
    <3> proc.ret \in Callers
      BY DEF ProcType
    <3> QED BY <2>1, <2>6
  <2> QED BY <2>2, <2>3, <2>4, <2>5, <2>6, Failings
<1>31. CASE Check
  BY <1>31 DEF Check, At, Held, live
<1>32. CASE Rollback
  BY <1>32 DEF Rollback, TheRow, live, past
<1>33. CASE Swap
  <2>1. proc.pc = "swap" /\ UNCHANGED <<record, op, asked>>
    BY <1>33 DEF Swap, Pointed, Nothing, TheVolume, live, past
  <2>2. CASE \E e \in {"failed", "held"} : Ends(e)
    BY <2>1, <2>2 DEF Ends
  <2>3. CASE Sets("rollback")
    BY <2>1, <2>3 DEF Sets
  <2> QED BY <1>33, <2>2, <2>3 DEF Swap, Pointed
<1>34. CASE PointBack
  BY <1>34 DEF PointBack, Pointed, Ends, TheVolume, past
<1>35. CASE UseConfig
  BY <1>35 DEF UseConfig, At, TheVolume, past
<1>36. CASE UseLink
  <2>1. UNCHANGED <<record, op, asked>> /\ proc.pc = "uselink"
    BY <1>36 DEF UseLink, Pointed, TheVolume
  <2>2. CASE Sets("use")
    BY <2>1, <2>2 DEF Sets
  <2>3. CASE proc' = Idle
    BY <2>1, <2>3
  <2> QED BY <1>36, <2>2, <2>3 DEF UseLink, Pointed
<1>37. CASE GoConfig
  BY <1>37 DEF GoConfig, At, TheVolume, past
<1>38. CASE GoLink
  <2>1. UNCHANGED <<record, op, asked>> /\ proc.pc = "golink"
    BY <1>38 DEF GoLink, Pointed, TheVolume
  <2>2. CASE proc' = Idle \/ At("goclear")
    BY <2>1, <2>2 DEF At
  <2>3. CASE Sets("goback")
    BY <2>1, <2>3 DEF Sets
  <2> QED BY <1>38, <2>2, <2>3 DEF GoLink, Pointed
<1>39. CASE Clean
  BY <1>39 DEF Clean, ClearStaging, At, TheVolume, past
<1>40. CASE Record
  BY <1>40 DEF Record, At, Stale, live, past
<1>41. CASE Done
  BY <1>41 DEF Done, Over, live
<1>42. CASE RolledBack
  BY <1>42 DEF RolledBack, Over, TheRow, live, past
<1>43. CASE Resume
  <2>1. UNCHANGED <<record, asked>> /\ proc = Idle
    BY <1>43 DEF Resume, Choose, TheRow
  <2>2. CASE op' = op /\ proc'.pc \in {"use", "go"} /\ proc'.ret = None /\ proc'.err = None
             /\ op.choices = "switch" /\ op.st = "held"
    BY <2>1, <2>2
  <2>3. CASE Undo("choice") /\ op' = op /\ op.st = "held" /\ op.choices = "tasks"
    BY <2>1, <2>3, Undoings
  <2>4. CASE Decide /\ (op.st = "interrupted" \/ (op.st = "held" /\ op.choices = "retry"))
    <3>1. CASE /\ proc' = [Idle EXCEPT !.pc = "landed"] /\ op' = op
               /\ op.step = Switching /\ AllIn
      <4>1. record.rel = op.to
        BY <3>1, <2>4, AppType DEF AllIn, Recorded
      <4> QED BY <2>1, <2>4, <3>1, <4>1
    <3>2. CASE Held("switch") /\ proc' = proc /\ op.step = Switching
      BY <2>1, <2>4, <3>2, Holds
    <3>3. CASE Undo("early") /\ op' = op
      BY <2>1, <2>4, <3>3, Undoings
    <3>4. CASE Held("retry") /\ proc' = proc
      BY <2>1, <2>4, <3>4, Holds
    <3> QED BY <2>4, <3>1, <3>2, <3>3, <3>4, Decisions
  <2> QED BY <1>43, <2>2, <2>3, <2>4 DEF Resume
<1>44. CASE Die
  BY <1>44 DEF Die, CutOff, NotAsked, live
<1>45. CASE Rest
  BY <1>45 DEF Rest, vars, live, past
<1>46. CASE UNCHANGED vars
  BY <1>46 DEF vars, live, past
<1> QED BY <1>1, <1>2, <1>3, <1>4, <1>5, <1>6, <1>7, <1>8, <1>9, <1>10, <1>11, <1>12,
   <1>13, <1>14, <1>15, <1>16, <1>17, <1>18, <1>19, <1>20, <1>21, <1>22, <1>23, <1>24,
   <1>25, <1>26, <1>27, <1>28, <1>29, <1>30, <1>31, <1>32, <1>33, <1>34, <1>35, <1>36,
   <1>37, <1>38, <1>39, <1>40, <1>41, <1>42, <1>43, <1>44, <1>45, <1>46
       DEF Next, Owner, Step, Removing, Installing, Syncing, Choosing, Ending

-----------------------------------------------------------------------------
(* A change begins with the configuration where it was.                     *)
LEMMA BegunConfig ==
  ASSUME TypeOK, Shape, ConfigWhere, ~Active, NEW kind, NEW to \in Releases, NEW had,
         Begin(kind, to, had), UNCHANGED <<cfg, stage, want>>
  PROVE  ConfigWhere'
<1>1. op'.step = 0 /\ proc'.pc \in {"rollback", "prepare", "clear"} /\ op'.to = to /\ op'.st = "running"
  BY BegunRow
<1>2. ~Has'
  BY <1>1 DEF Has, Switching
<1>3. cfg' = want' /\ Active'
  BY <1>1 DEF ConfigWhere, Active
<1>4. Unstaged' /\ OldIn'
  BY <1>1, <1>3 DEF Unstaged, Tasking, OldIn
<1> QED BY <1>2, <1>3, <1>4 DEF ConfigWhere

(* Every action keeps the configuration where it may be.                    *)
LEMMA ConfigStep ==
  ASSUME {"cleared", "recorded"} \cap Windows = {}
  PROVE  TypeOK /\ Shape /\ Rows /\ Turns /\ Callings /\ ConfigWhere
         /\ [Next]_vars => ConfigWhere'
<1> SUFFICES ASSUME TypeOK, Shape, Rows, Turns, Callings, ConfigWhere, [Next]_vars
             PROVE  ConfigWhere'
  OBVIOUS
<1>p. /\ RecordType /\ OpType /\ ProcType /\ Known /\ Placed /\ CfgType /\ StageType /\ PastType
  BY Parts DEF Shape
<1>i. Idle.pc = "idle" /\ Idle.ret = None /\ Idle.err = None
  BY DEF Idle
<1>r. /\ proc = [pc |-> proc.pc, ret |-> proc.ret, was |-> proc.was, old |-> proc.old,
               err |-> proc.err]
      /\ op = [kind |-> op.kind, to |-> op.to, from |-> op.from, repl |-> op.repl,
               step |-> op.step, st |-> op.st, choices |-> op.choices, off |-> op.off,
               conf |-> op.conf]
  BY <1>p DEF ProcType, OpType, OpRow
<1>u. UNCHANGED <<cfg, stage, want, op>> =>
         /\ To' = To /\ (Has' <=> Has) /\ (OldIn' <=> OldIn) /\ (Ready' <=> Ready)
         /\ (Aside' <=> Aside) /\ (Moved' <=> Moved) /\ (Doubled' <=> Doubled)
         /\ (GoneOld' <=> GoneOld) /\ (GoneNew' <=> GoneNew)
  BY Unmoved
<1>j. UNCHANGED <<record, link, stage, jobs, op>> => (AllIn' <=> AllIn) /\ (NotYet' <=> NotYet)
  BY Unjudged
<1>t. /\ proc.pc = "stopping" => ~Active
      /\ proc.pc \in {"clear", "prepare", "rollback"} => ~Has
      /\ proc.pc \in {"swap", "pointback"} \/ proc.ret = "rollback" => ~HasConfig
      /\ proc.pc \notin {"idle", "stopping"} => Active
      /\ \/ proc.pc \in {"clear", "prepare", "switch", "back", "drop", "clean", "rollback",
                        "swap", "pointback", "outcome"}
         \/ proc.ret \in {"install", "rollback", "undo"}
         => op.choices = None /\ op.st = "running"
      /\ \/ proc.pc \in {"use", "uselink", "go", "golink", "goclear"}
         \/ proc.ret \in {"use", "goback"}
         => op.choices = "switch" /\ op.step = Switching
  BY <1>p DEF Rows, RunsAt, Running, ChosenAt, TurnedAt, Turns, Callings, Has, HasConfig,
       Placed, Switching
<1> USE <1>p, <1>i, <1>r, <1>u, <1>t DEF ConfigWhere, Installs, Lands, Chosen, Resumed,
     Decided, Unstaged,
      Whole, Back, Tasking, Active, None
<1>1. CASE \E kind \in {"install", "update"}, r \in Releases : Ask(kind, r)
  BY <1>1, <1>j DEF Ask, Free, Request, live, past
<1>2. CASE \E kind \in {"install", "update"}, r \in Releases : Change(kind, r)
  BY <1>2, BegunConfig DEF Change, Free, live, past
<1>3. CASE RollBack
  <2>1. record.prev \in Releases
    BY <1>3 DEF RollBack, RecordType, Maybe
  <2> QED BY <1>3, <2>1, BegunConfig DEF RollBack, Change, Free, live, past
<1>4. CASE Fetched
  BY <1>4, BegunConfig DEF Fetched, Free, Known, live, past
<1>5. CASE Refused
  BY <1>5, <1>j DEF Refused, NotAsked, live, past
<1>6. CASE StopApp
  BY <1>6, <1>j DEF StopApp, At, Free, Nothing, live, past
<1>7. CASE \E j \in jobs : Toggle(j)
  BY <1>7, <1>j DEF Toggle, Free, live
<1>8. CASE Choose
  <2>1. UNCHANGED <<record, link, cfg, stage, want, jobs>> /\ proc = Idle
    BY <1>8 DEF Choose, TheRow, live, past
  <2>2. CASE /\ op' = op /\ proc'.pc \in {"use", "go"}
            /\ op.choices = "switch" /\ op.st = "held"
    BY <2>1, <2>2
  <2>3. CASE Undo("choice") /\ op' = op /\ op.st = "held" /\ op.choices = "tasks"
    BY <2>1, <2>3, Undoings
  <2>4. CASE Decide /\ (op.st = "interrupted" \/ (op.st = "held" /\ op.choices = "retry"))
    <3>0. op.choices \notin {"tasks", "switch"} /\ (Has => Decided)
      BY <2>1, <2>4 DEF Rows
    <3>1. CASE /\ proc' = [Idle EXCEPT !.pc = "landed"] /\ op' = op
               /\ op.step = Switching /\ AllIn
      <4>1. Has => GoneNew
        <5> SUFFICES ASSUME Has PROVE GoneNew
          OBVIOUS
        <5>1. ~Whole
          BY <3>1, <2>4, Stages DEF AllIn
        <5>2. ~(NotYet /\ op.from # op.to)
          BY <3>1 DEF AllIn, NotYet
        <5> QED BY <3>0, <5>1, <5>2
      <4>2. proc'.pc = "landed" /\ proc'.ret = None
        BY <3>1
      <4> QED BY <2>1, <2>4, <3>0, <3>1, <4>1, <4>2, <1>j
    <3>2. CASE Held("switch") /\ proc' = proc /\ op.step = Switching /\ ~AllIn /\ ~NotYet
      <4>1. /\ To' = To /\ (Has' <=> Has) /\ (OldIn' <=> OldIn) /\ (Ready' <=> Ready)
            /\ (Aside' <=> Aside) /\ (Moved' <=> Moved) /\ (Doubled' <=> Doubled)
            /\ (GoneOld' <=> GoneOld) /\ (GoneNew' <=> GoneNew)
        BY <2>1, <3>2, Holds, Unmoved
      <4>2. op'.choices = "switch" /\ op'.st = "held" /\ op'.to = op.to
        BY <3>2, Holds
      <4> QED BY <2>1, <2>4, <3>0, <3>2, <4>1, <4>2
    <3>3. CASE Undo("early") /\ op' = op /\ (op.step = Switching => NotYet /\ ~AllIn)
      <4>1. Has => NotYet /\ (Ready \/ (GoneOld /\ op.from # op.to))
        <5> SUFFICES ASSUME Has PROVE NotYet /\ (Ready \/ (GoneOld /\ op.from # op.to))
          OBVIOUS
        <5>1. NotYet /\ ~AllIn
          BY <3>3 DEF Has
        <5>2. ~Aside /\ ~Moved /\ ~Doubled
          BY <2>4, <5>1, Stages DEF NotYet
        <5> QED BY <3>0, <5>1, <5>2
      <4> QED BY <2>1, <2>4, <3>0, <3>3, <4>1, <1>j, Undoings
    <3>4. CASE Held("retry") /\ proc' = proc
      <4>1. /\ To' = To /\ (Has' <=> Has) /\ (OldIn' <=> OldIn) /\ (Ready' <=> Ready)
            /\ (Aside' <=> Aside) /\ (Moved' <=> Moved) /\ (Doubled' <=> Doubled)
            /\ (GoneOld' <=> GoneOld) /\ (GoneNew' <=> GoneNew)
        BY <2>1, <3>4, Holds, Unmoved
      <4>2. op'.choices = "retry" /\ op'.st = "held" /\ op'.to = op.to /\ op'.from = op.from
        BY <3>4, Holds
      <4>3. (AllIn' <=> AllIn) /\ (NotYet' <=> NotYet)
        BY <2>1, <3>4, Holds, Unjudged
      <4> QED BY <2>1, <2>4, <3>0, <3>4, <4>1, <4>2, <4>3
    <3> QED BY <2>4, <3>1, <3>2, <3>3, <3>4, Decisions
  <2> QED BY <1>8, <2>2, <2>3, <2>4 DEF Choose, Choose, UseNew, GoBack, PutTasksBack, Resume
<1>9. CASE Cleared
  BY <1>9 DEF Cleared, At, Nothing, live, past
<1>10. CASE NotCleared
  <2>1. UNCHANGED <<cfg, stage, want, op, record, link, jobs>>
    BY <1>10 DEF NotCleared, Nothing, live, past
  <2>2. CASE proc' = Idle /\ proc.pc = "goclear"
    BY <2>1, <2>2 DEF Turns, ChosenAt
  <2>3. CASE proc' = Idle /\ proc.pc = "stopping"
    BY <2>1, <2>3
  <2>4. CASE proc.pc = "clear" /\ Ends("failed")
    BY <2>1, <2>4 DEF Ends
  <2> QED BY <1>10, <2>2, <2>3, <2>4 DEF NotCleared
<1>11. CASE Stopped
  BY <1>11 DEF Stopped, live
<1>12. CASE \E j \in jobs : TakeOff(j)
  <2>1. UNCHANGED <<cfg, stage, want, op, record, link, proc>>
    BY <1>12 DEF TakeOff, TheJobs, live, past
  <2>2. proc.pc \in {"clear", "stopping", "goclear"}
    BY <1>12 DEF TakeOff, Leaving, Tasks, Named
  <2> QED BY <2>1, <2>2 DEF Turns, ChosenAt, ResumedAt, Callings
<1>13. CASE Prepare
  <2>1. /\ UNCHANGED <<cfg, want, link>> /\ stage' = Staged /\ op' = [op EXCEPT !.step = Switching]
        /\ proc'.pc = "switch" /\ proc.pc = "prepare" /\ proc'.ret = proc.ret
    BY <1>13 DEF Prepare, past
  <2>2. OldIn /\ OldIn' /\ To' = To
    BY <2>1 DEF OldIn, To
  <2>3. op.to \in Configured => Ready'
    BY <2>1, <2>2 DEF Ready, Staged, NoStage
  <2>4. op.to \notin Configured => ~Has' /\ stage' = NoStage
    BY <2>1 DEF Has, HasConfig, Staged, NoStage
  <2> QED BY <2>1, <2>2, <2>3, <2>4 DEF Has, HasConfig
<1>14. CASE NotPrepared
  <2>1. /\ UNCHANGED <<cfg, want, op>> /\ proc'.pc = "drop" /\ proc.pc = "prepare"
    BY <1>14 DEF NotPrepared, TheVolume, past
  <2>2. ~Has' /\ OldIn' /\ To' = To /\ Active
    BY <2>1 DEF Has, HasConfig, OldIn, To
  <2> QED BY <2>1, <2>2
<1>15. CASE Switch
  <2>1. /\ UNCHANGED <<want, op>> /\ proc.pc = "switch" /\ proc'.pc = "list" /\ proc'.ret = "install"
        /\ ConfigIn
    BY <1>15 DEF Switch, TheVolume, past
  <2>2. Has <=> op.to \in Configured
    BY <2>1 DEF Has, HasConfig, Callings, Turns, TurnedAt
  <2>3. CASE op.to \in Configured
    <3>1. Ready /\ MoveIn /\ To \in Apps /\ To' = To
      BY <2>1, <2>2, <2>3, OpIsKnown DEF ConfigIn, To
    <3>2. Moved' /\ (\A b \in Apps \ {To} : cfg'[b] = cfg[b])
      BY <2>1, <3>1 DEF MoveIn, Moved, NewIn, Ready, OldIn, CfgType
    <3>3. (Has' <=> Has)
      BY <2>1 DEF Has, HasConfig
    <3> QED BY <2>1, <2>2, <2>3, <3>1, <3>2, <3>3
  <2>4. CASE op.to \notin Configured
    <3>1. UNCHANGED <<cfg, stage>>
      BY <2>1, <2>4 DEF ConfigIn
    <3> QED BY <2>1, <2>2, <2>4, <3>1
  <2> QED BY <2>3, <2>4
<1>16. CASE NotSwitched
  <2>1. /\ UNCHANGED <<want, op>> /\ proc.pc = "switch" /\ proc'.pc = "back" /\ proc'.err = "failed"
        /\ UNCHANGED <<cfg, stage>> \/ ConfigIn \/ (op.to \in Configured /\ KeepAside)
    BY <1>16 DEF NotSwitched, TheVolume, live, past
  <2>2. Has <=> op.to \in Configured
    BY <2>1 DEF Has, HasConfig, Callings, Turns, TurnedAt
  <2>3. CASE op.to \in Configured
    <3>1. Ready /\ To \in Apps /\ To' = To
      BY <2>1, <2>2, <2>3, OpIsKnown DEF To
    <3>2. (Moved' \/ Ready' \/ Aside') /\ (\A b \in Apps \ {To} : cfg'[b] = cfg[b])
      <4>1. CASE UNCHANGED <<cfg, stage>>
        BY <2>1, <3>1, <4>1
      <4>2. CASE MoveIn
        BY <2>1, <3>1, <4>2 DEF MoveIn, Moved, NewIn, Ready, OldIn, CfgType
      <4>3. CASE KeepAside
        BY <2>1, <3>1, <4>3 DEF KeepAside, Aside, Ready, OldIn
      <4> QED BY <2>1, <2>3, <4>1, <4>2, <4>3 DEF ConfigIn
    <3>3. (Has' <=> Has)
      BY <2>1 DEF Has, HasConfig
    <3> QED BY <2>1, <2>2, <2>3, <3>1, <3>2, <3>3
  <2>4. CASE op.to \notin Configured
    <3>1. UNCHANGED <<cfg, stage>>
      BY <2>1, <2>4 DEF ConfigIn
    <3> QED BY <2>1, <2>2, <2>4, <3>1
  <2> QED BY <2>3, <2>4
<1>17. CASE PutBack
  <2>1. UNCHANGED <<want, op>> /\ proc.pc = "back" /\ proc'.pc = "drop" /\ ConfigOut /\ To' = To
    BY <1>17 DEF PutBack, At, TheVolume, past, To
  <2>2. Has <=> op.to \in Configured
    BY <2>1 DEF Has, HasConfig, Callings, Turns, TurnedAt
  <2>3. CASE Has
    <3>1. To \in Apps /\ want[To] \in Config /\ (Back \/ Moved) /\ Noted(want[To]) # None
      BY <2>1, <2>3, OpIsKnown, Stages DEF PastType
    <3>2. (Ready' \/ Aside') /\ (\A b \in Apps \ {To} : cfg'[b] = cfg[b])
      <4>1. CASE Back
        <5>1. UNCHANGED <<cfg, stage>>
          BY <2>1, <4>1, <2>3, Stages DEF Ready, Aside, ConfigOut, MovedIn, Rows, Configs
        <5> QED BY <2>1, <5>1, <4>1
      <4>2. CASE Moved
        <5>1. MovedIn /\ stage.prev = Noted(want[To]) /\ cfg[To] = op.conf
          BY <4>2, <3>1 DEF MovedIn, Moved, NewIn
        <5>2. /\ cfg' = [cfg EXCEPT ![To] = want[To]]
              /\ stage' = [new |-> op.conf, prev |-> IF Noted(want[To]) = "nofile" THEN "nofile" ELSE None]
          BY <2>1, <3>1, <5>1, Noting DEF ConfigOut
        <5> QED BY <2>1, <3>1, <5>2 DEF CfgType, Ready, Aside, OldIn
      <4> QED BY <3>1, <4>1, <4>2
    <3>3. (Has' <=> Has)
      BY <2>1 DEF Has, HasConfig
    <3> QED BY <2>1, <2>3, <3>2, <3>3
  <2>4. CASE ~Has
    <3>1. UNCHANGED <<cfg, stage>>
      BY <2>1, <2>2, <2>4 DEF ConfigOut, MovedIn, NoStage
    <3> QED BY <2>1, <2>4, <3>1
  <2> QED BY <2>3, <2>4
<1>18. CASE NotPutBack
  <2>1. /\ UNCHANGED <<want, op>> /\ proc.pc = "back" /\ To' = To
        /\ \/ proc'.pc = "outcome" \/ (proc'.pc = "list" /\ proc'.ret = "undo")
        /\ proc'.err = "held"
        /\ ConfigOut \/ CopyOut \/ UNCHANGED <<cfg, stage>>
    BY <1>18 DEF NotPutBack, Catch, Ends, TheVolume, past, To
  <2>2. Has <=> op.to \in Configured
    BY <2>1 DEF Has, HasConfig, Callings, Turns, TurnedAt
  <2>3. CASE Has
    <3>1. To \in Apps /\ want[To] \in Config /\ (Back \/ Moved) /\ Noted(want[To]) # None
      BY <2>1, <2>3, OpIsKnown, Stages DEF PastType
    <3>2. (Ready' \/ Aside' \/ Moved' \/ Doubled') /\ (\A b \in Apps \ {To} : cfg'[b] = cfg[b])
      <4>0. CASE UNCHANGED <<cfg, stage>>
        BY <2>1, <3>1, <4>0
      <4>1. CASE Back /\ (ConfigOut \/ CopyOut)
        <5>1. UNCHANGED <<cfg, stage>>
          BY <2>1, <4>1, <2>3, Stages DEF Ready, Aside, ConfigOut, CopyOut, MovedIn, Rows, Configs
        <5> QED BY <2>1, <5>1, <4>1
      <4>2. CASE Moved /\ ConfigOut
        <5>1. MovedIn /\ stage.prev = Noted(want[To]) /\ cfg[To] = op.conf
          BY <4>2, <3>1 DEF MovedIn, Moved, NewIn
        <5>2. /\ cfg' = [cfg EXCEPT ![To] = want[To]]
              /\ stage' = [new |-> op.conf, prev |-> IF Noted(want[To]) = "nofile" THEN "nofile" ELSE None]
          BY <4>2, <3>1, <5>1, Noting DEF ConfigOut
        <5> QED BY <2>1, <3>1, <5>2 DEF CfgType, Ready, Aside, OldIn
      <4>3. CASE Moved /\ CopyOut
        BY <2>1, <4>3 DEF CopyOut, Moved, NewIn, Doubled
      <4> QED BY <2>1, <3>1, <4>0, <4>1, <4>2, <4>3
    <3>3. (Has' <=> Has)
      BY <2>1 DEF Has, HasConfig
    <3> QED BY <2>1, <2>3, <3>2, <3>3
  <2>4. CASE ~Has
    <3>1. UNCHANGED <<cfg, stage>>
      BY <2>1, <2>2, <2>4 DEF ConfigOut, CopyOut, MovedIn, NoStage
    <3> QED BY <2>1, <2>4, <3>1
  <2> QED BY <2>3, <2>4
<1>19. CASE Drop
  <2>1. /\ UNCHANGED <<want, op, cfg>> /\ proc.pc = "drop" /\ To' = To /\ (Has' <=> Has)
        /\ \/ proc'.pc = "outcome" \/ (proc'.pc = "list" /\ proc'.ret = "undo")
        /\ proc'.err = "failed"
        /\ stage' \in {stage, NoStage}
    BY <1>19 DEF Drop, ClearStaging, Catch, Ends, TheVolume, past, To, Has, HasConfig, Callings
  <2>2. CASE Has
    <3>1. Ready' \/ Aside' \/ GoneOld'
      BY <2>1, <2>2 DEF Ready, Aside, GoneOld, OldIn
    <3> QED BY <2>1, <2>2, <3>1
  <2>3. CASE ~Has
    BY <2>1, <2>3 DEF OldIn
  <2> QED BY <2>2, <2>3
<1>20. CASE Outcome
  <2>1. UNCHANGED <<want, cfg, stage>> /\ proc.pc = "outcome" /\ proc' = Idle
    BY <1>20 DEF Outcome, TheRow, live, past
  <2>2. CASE proc.err = "held" /\ Held("switch")
    <3>1. /\ To' = To /\ (Has' <=> Has) /\ (OldIn' <=> OldIn) /\ (Ready' <=> Ready)
          /\ (Aside' <=> Aside) /\ (Moved' <=> Moved) /\ (Doubled' <=> Doubled)
          /\ (GoneOld' <=> GoneOld) /\ (GoneNew' <=> GoneNew)
      BY <2>1, <2>2, Holds, Unmoved
    <3> QED BY <2>1, <2>2, <3>1, Holds
  <2>3. CASE proc.err = "failed" /\ Over
    <3>1. OldIn
      BY <2>1, <2>3 DEF Ready, Aside, GoneOld
    <3>2. cfg = want
      BY <2>1, <3>1, OpIsKnown DEF CfgType, PastType, OldIn
    <3>3. ~Active'
      BY <2>3 DEF Over
    <3> QED BY <2>1, <3>2, <3>3
  <2> QED BY <1>20, <2>2, <2>3 DEF Outcome, Callings, ProcType
<1>21. CASE List
  BY <1>21, <1>j DEF List, Nothing, live, past
<1>22. CASE NotListed
  <2>1. UNCHANGED <<cfg, stage, want, record, link, jobs, op>>
        /\ proc.pc \in {"list", "undo", "readd"} /\ (NotYet' <=> NotYet)
    BY <1>22, <1>j DEF NotListed, SyncFails, live
  <2>2. PICK u : SyncFails(u)
    BY <1>22 DEF NotListed
  <2>3. CASE proc.ret \in {"use", "goback"} /\ proc' = Idle
    BY <2>1, <2>3
  <2>4. CASE proc.ret = "install" /\ proc' = [proc EXCEPT !.old = {}, !.pc = "back",
                                                !.err = "failed"]
    BY <2>1, <2>4
  <2>5. CASE proc.ret = "rollback" /\ proc' = [proc EXCEPT !.old = {}, !.pc = "pointback"]
    BY <2>1, <2>5 DEF Has
  <2>6. CASE /\ proc.ret \notin {"use", "goback", "install", "rollback"}
             /\ proc' = [proc EXCEPT !.old = {}, !.pc = "check"]
    BY <2>1, <2>6
  <2> QED BY <2>2, <2>3, <2>4, <2>5, <2>6, Failings
<1>23. CASE NotSynced
  BY <1>23, <1>j DEF NotSynced, At, Nothing, live, past
<1>24. CASE Synced
  <2>1. UNCHANGED <<cfg, stage, want, record, link, jobs, op>> /\ proc.pc = "sync" /\ (NotYet' <=> NotYet)
    BY <1>24, <1>j DEF Synced, Nothing, live, past
  <2>2. CASE proc.ret = "install" /\ proc' = [proc EXCEPT !.old = {}, !.pc = "clean"]
    BY <2>1, <2>2
  <2>3. CASE proc.ret = "use" /\ proc' = [proc EXCEPT !.old = {}, !.pc = "record"]
    BY <2>1, <2>3
  <2>4. CASE proc.ret = "rollback" /\ proc' = [proc EXCEPT !.old = {}, !.pc = "record"]
    BY <2>1, <2>4 DEF Has
  <2>5. CASE proc.ret = "goback" /\ proc' = [proc EXCEPT !.old = {}, !.pc = "gone"]
    BY <2>1, <2>5
  <2>6. CASE /\ proc.ret \notin {"install", "rollback", "use", "goback"}
             /\ proc' = [proc EXCEPT !.old = {}, !.pc = "check"]
    BY <2>1, <2>6
  <2> QED BY <1>24, <2>2, <2>3, <2>4, <2>5, <2>6 DEF Synced
<1>25. CASE \E n \in Names : Add(n)
  <2>1. UNCHANGED <<cfg, stage, want, op, record, link>>
    BY <1>25 DEF Add, Answered, At, TheJobs, live, past
  <2>2. Tasking({"early"}) => (NotYet' <=> NotYet)
    BY <2>1, UnjudgedReplaced DEF Turns, Placed
  <2>3. /\ proc.pc \in {"sync", "undo", "readd"} /\ proc'.pc \in {"sync", "undo", "readd"}
        /\ proc'.ret = proc.ret
        /\ proc'.err = proc.err
    BY <1>25 DEF Add, Answered, At, TheJobs, live, past
  <2> QED BY <2>1, <2>2, <2>3 DEF Callings
<1>26. CASE \E j \in jobs : Remove(j)
  <2>1. UNCHANGED <<cfg, stage, want, op, record, link>>
    BY <1>26 DEF Remove, Answered, At, TheJobs, live, past
  <2>2. Tasking({"early"}) => (NotYet' <=> NotYet)
    BY <2>1, UnjudgedReplaced DEF Turns, Placed
  <2>3. /\ proc.pc \in {"sync", "undo", "readd"} /\ proc'.pc \in {"sync", "undo", "readd"}
        /\ proc'.ret = proc.ret
        /\ proc'.err = proc.err
    BY <1>26 DEF Remove, Answered, At, TheJobs, live, past
  <2> QED BY <2>1, <2>2, <2>3 DEF Callings
<1>27. CASE \E j \in jobs : UndoAdd(j)
  <2>1. UNCHANGED <<cfg, stage, want, op, record, link>>
    BY <1>27 DEF UndoAdd, TheJobs, live, past
  <2>2. Tasking({"early"}) => (NotYet' <=> NotYet)
    BY <2>1, UnjudgedReplaced DEF Turns, Placed
  <2>3. /\ proc.pc \in {"sync", "undo", "readd"} /\ proc'.pc \in {"sync", "undo", "readd"}
        /\ proc'.ret = proc.ret
        /\ proc'.err = proc.err
    BY <1>27 DEF UndoAdd, TheJobs, live, past
  <2> QED BY <2>1, <2>2, <2>3 DEF Callings
<1>28. CASE Undone
  BY <1>28, <1>j DEF Undone, At, Nothing, live, past
<1>29. CASE \E j \in proc.old : Readd(j)
  <2>1. UNCHANGED <<cfg, stage, want, op, record, link>>
    BY <1>29 DEF Readd, TheJobs, live, past
  <2>2. Tasking({"early"}) => (NotYet' <=> NotYet)
    BY <2>1, UnjudgedReplaced DEF Turns, Placed
  <2>3. /\ proc.pc \in {"sync", "undo", "readd"} /\ proc'.pc \in {"sync", "undo", "readd"}
        /\ proc'.ret = proc.ret
        /\ proc'.err = proc.err
    BY <1>29 DEF Readd, TheJobs, live, past
  <2> QED BY <2>1, <2>2, <2>3 DEF Callings
<1>30. CASE Readded
  <2>1. UNCHANGED <<cfg, stage, want, record, link, jobs, op>>
        /\ proc.pc \in {"list", "undo", "readd"} /\ (NotYet' <=> NotYet)
    BY <1>30, <1>j DEF Readded, SyncFails, live
  <2>2. PICK u : SyncFails(u)
    BY <1>30 DEF Readded
  <2>3. CASE proc.ret \in {"use", "goback"} /\ proc' = Idle
    BY <2>1, <2>3
  <2>4. CASE proc.ret = "install" /\ proc' = [proc EXCEPT !.old = {}, !.pc = "back",
                                                !.err = "failed"]
    BY <2>1, <2>4
  <2>5. CASE proc.ret = "rollback" /\ proc' = [proc EXCEPT !.old = {}, !.pc = "pointback"]
    BY <2>1, <2>5 DEF Has
  <2>6. CASE /\ proc.ret \notin {"use", "goback", "install", "rollback"}
             /\ proc' = [proc EXCEPT !.old = {}, !.pc = "check"]
    BY <2>1, <2>6
  <2> QED BY <2>2, <2>3, <2>4, <2>5, <2>6, Failings
<1>31. CASE Check
  <2>1. UNCHANGED <<cfg, stage, want, record, link, jobs>> /\ proc.pc = "check" /\ Active
        /\ proc.ret \in {"undo", "early", "choice"}
    BY <1>31 DEF Check, live, Callings
  <2>2. CASE op' = op /\ proc.ret = "undo" /\ At("outcome")
    BY <2>1, <2>2 DEF At
  <2>3. CASE op' = op /\ At("gone") /\ proc.ret # "undo"
    BY <2>1, <2>3, <1>j DEF At, Turns
  <2>4. CASE op' = op /\ proc' = Idle /\ proc.ret = "choice"
    BY <2>1, <2>4 DEF Turns
  <2>5. CASE proc' = Idle /\ Held("tasks") /\ proc.ret = "early"
    <3>1. To' = To /\ (Has' <=> Has) /\ (OldIn' <=> OldIn)
      BY <2>1, <2>5, Holds, Unmoved
    <3>2. OldIn /\ op'.choices = "tasks" /\ op'.to = op.to /\ op'.st = "held"
      BY <2>1, <2>5, Holds DEF Ready, GoneOld, Turns
    <3> QED BY <2>1, <2>5, <3>1, <3>2
  <2> QED BY <1>31, <2>1, <2>2, <2>3, <2>4, <2>5 DEF Check
<1>32. CASE Rollback
  <2>1. UNCHANGED <<cfg, want, stage>> /\ op' = [op EXCEPT !.step = Switching] /\ proc'.pc = "swap"
        /\ proc.pc = "rollback"
    BY <1>32 DEF Rollback, TheRow, live, past
  <2>2. ~Has' /\ (OldIn' <=> OldIn) /\ To' = To
    BY <2>1 DEF Has, HasConfig, Callings, OldIn, To
  <2>3. op.kind = "rollback" /\ ~HasConfig /\ ~Tasking({"install"})'
    BY <2>1 DEF Callings, HasConfig
  <2> QED BY <2>1, <2>2, <2>3
<1>33. CASE Swap
  <2>1. UNCHANGED <<cfg, want, stage, op>> /\ proc.pc = "swap"
        /\ (proc'.pc = "outcome" \/ (proc'.pc = "list" /\ proc'.ret = "rollback"))
    BY <1>33 DEF Swap, Pointed, Sets, Ends, Nothing, TheVolume, live, past
  <2> QED BY <2>1 DEF Has
<1>34. CASE PointBack
  <2>1. UNCHANGED <<cfg, want, stage, op>> /\ proc.pc = "pointback" /\ proc'.pc = "outcome"
    BY <1>34 DEF PointBack, Pointed, Ends, TheVolume, live, past
  <2> QED BY <2>1 DEF Has
<1>35. CASE UseConfig
  <2>1. UNCHANGED <<want, op>> /\ proc.pc = "use" /\ To' = To /\ (Has' <=> HasConfig) /\ (Has <=> HasConfig)
    BY <1>35 DEF UseConfig, TheVolume, past, To, Has, HasConfig
  <2>2. proc'.pc = "uselink" \/ proc' = Idle
    BY <1>35 DEF UseConfig, At
  <2>3. CASE HasConfig
    <3>1. To \in Apps /\ want[To] \in Config /\ Whole /\ Noted(want[To]) # None /\ op.conf # None
      BY <2>1, <2>3, OpIsKnown, Stages DEF PastType
    <3>2. (\A b \in Apps \ {To} : cfg'[b] = cfg[b])
      BY <1>35 DEF UseConfig, CfgType
    <3>3. /\ Moved' \/ (proc' = Idle /\ (Aside' \/ Doubled'))
      <4>1. CASE Moved
        <5>1. ~ConfigStaged
          BY <4>1, <2>1, <2>3, Stages
        <5>2. UNCHANGED <<cfg, stage>>
          BY <1>35, <5>1 DEF UseConfig
        <5> QED BY <2>1, <4>1, <5>2
      <4>2. CASE Ready \/ Aside \/ Doubled
        <5>1. ConfigStaged /\ stage.new = op.conf
              /\ (IF stage.prev = None THEN Noted(cfg[To]) ELSE stage.prev) = Noted(want[To])
          BY <4>2, <3>1, <2>1, <2>3, Stages DEF Ready, Aside, Doubled, OldIn
        <5>2. \/ /\ cfg' = [cfg EXCEPT ![To] = op.conf]
                 /\ stage' = [new |-> None, prev |-> Noted(want[To])]
              \/ /\ proc' = Idle /\ UNCHANGED cfg
                 /\ stage' = [stage EXCEPT !.prev = Noted(want[To])]
          BY <1>35, <5>1 DEF UseConfig
        <5>3. CASE /\ cfg' = [cfg EXCEPT ![To] = op.conf]
                   /\ stage' = [new |-> None, prev |-> Noted(want[To])]
          BY <2>1, <3>1, <5>3 DEF CfgType, Moved, NewIn
        <5>4. CASE /\ proc' = Idle /\ UNCHANGED cfg
                   /\ stage' = [stage EXCEPT !.prev = Noted(want[To])]
          BY <2>1, <4>2, <5>4 DEF Ready, Aside, Doubled, OldIn, NewIn
        <5> QED BY <5>2, <5>3, <5>4
      <4> QED BY <3>1, <4>1, <4>2
    <3> QED BY <2>1, <2>2, <2>3, <3>2, <3>3
  <2>4. CASE ~HasConfig
    <3>1. UNCHANGED <<cfg, stage>>
      BY <1>35, <2>4 DEF UseConfig, ConfigStaged
    <3> QED BY <2>1, <2>2, <2>4, <3>1
  <2> QED BY <2>3, <2>4
<1>36. CASE UseLink
  BY <1>36 DEF UseLink, Pointed, Sets, TheVolume, past
<1>37. CASE GoConfig
  <2>1. UNCHANGED <<want, op>> /\ proc.pc = "go" /\ To' = To /\ (Has' <=> HasConfig) /\ (Has <=> HasConfig)
    BY <1>37 DEF GoConfig, TheVolume, past, To, Has, HasConfig
  <2>2. proc'.pc = "golink" \/ proc' = Idle
    BY <1>37 DEF GoConfig, At
  <2>3. CASE HasConfig
    <3>1. To \in Apps /\ want[To] \in Config /\ Whole /\ Noted(want[To]) # None /\ op.conf # None
      BY <2>1, <2>3, OpIsKnown, Stages DEF PastType
    <3>2. (\A b \in Apps \ {To} : cfg'[b] = cfg[b])
      BY <1>37 DEF GoConfig, CfgType
    <3>3. Ready' \/ Aside' \/ (proc' = Idle /\ Doubled')
      <4>1. CASE Ready
        <5>1. ~ConfigMoved
          BY <4>1, <2>1, <2>3, Stages
        <5>2. UNCHANGED <<cfg, stage>>
          BY <1>37, <5>1 DEF GoConfig
        <5> QED BY <2>1, <4>1, <5>2
      <4>2. CASE Moved \/ Aside \/ Doubled
        <5>1. ConfigMoved /\ stage.prev = Noted(want[To]) /\ File(stage.prev) = want[To]
              /\ (IF stage.new = None THEN cfg[To] ELSE stage.new) = op.conf
          BY <4>2, <3>1, <2>1, <2>3, Stages, Noting DEF Moved, Aside, Doubled, NewIn
        <5>2. /\ stage' = [stage EXCEPT !.new = op.conf]
              /\ \/ cfg' = [cfg EXCEPT ![To] = want[To]]
                 \/ proc' = Idle /\ UNCHANGED cfg
          BY <1>37, <5>1 DEF GoConfig
        <5>3. stage' = [new |-> op.conf, prev |-> Noted(want[To])]
          BY <5>1, <5>2 DEF StageType
        <5>4. CASE cfg' = [cfg EXCEPT ![To] = want[To]]
          BY <2>1, <3>1, <5>3, <5>4 DEF CfgType, Aside, OldIn
        <5>5. CASE proc' = Idle /\ UNCHANGED cfg
          BY <2>1, <4>2, <5>3, <5>5 DEF Moved, Aside, Doubled, OldIn, NewIn
        <5> QED BY <5>2, <5>4, <5>5
      <4> QED BY <3>1, <4>1, <4>2
    <3> QED BY <2>1, <2>2, <2>3, <3>2, <3>3
  <2>4. CASE ~HasConfig
    <3>1. UNCHANGED <<cfg, stage>>
      BY <1>37, <2>4 DEF GoConfig, ConfigMoved
    <3> QED BY <2>1, <2>2, <2>4, <3>1
  <2> QED BY <2>3, <2>4
<1>38. CASE GoLink
  BY <1>38 DEF GoLink, Pointed, Sets, At, TheVolume, past
<1>39. CASE Clean
  <2>1. /\ UNCHANGED <<cfg, want, op, link, record, jobs>> /\ To' = To /\ (Has' <=> Has)
        /\ (OldIn' <=> OldIn) /\ (NewIn' <=> NewIn)
        /\ stage' = stage \/ stage' = NoStage
        /\ proc'.ret = proc.ret /\ proc'.err = proc.err
        /\ \/ proc.pc = "clean" /\ proc'.pc = "record"
           \/ proc.pc = "landed" /\ proc'.pc = "done"
           \/ proc.pc = "gone" /\ proc'.pc = "rolled"
    BY <1>39 DEF Clean, ClearStaging, At, TheVolume, past, To, Has, HasConfig, OldIn, NewIn
  <2>2. /\ Ready => Ready' \/ GoneOld'
        /\ Aside => Aside' \/ GoneOld'
        /\ Moved => Moved' \/ GoneNew'
        /\ GoneOld => GoneOld'
        /\ GoneNew => GoneNew'
    BY <2>1 DEF Ready, Aside, Moved, GoneOld, GoneNew
  <2>3. NotYet => NotYet'
    <3>1. CASE stage' = stage
      BY <2>1, <3>1, Unjudged
    <3>2. CASE stage' = NoStage
      <4>1. ~ConfigMoved'
        BY <3>2 DEF ConfigMoved, NoStage
      <4>2. Recorded' = Recorded
        BY <2>1 DEF Recorded, Same
      <4>3. TasksOk' <=> TasksOk
        BY <2>1, <4>2 DEF TasksOk, TasksAre, Times, Named
      <4> QED BY <2>1, <4>1, <4>2, <4>3 DEF NotYet
    <3> QED BY <2>1, <3>1, <3>2
  <2>4. CASE Has
    BY <2>1, <2>2, <2>3, <2>4 DEF Callings
  <2>5. CASE ~Has
    BY <2>1, <2>5
  <2> QED BY <2>4, <2>5
<1>40. CASE Record
  BY <1>40 DEF Record, At, Stale, live, past
<1>41. CASE Done
  <2>1. UNCHANGED <<cfg, stage>> /\ proc.pc = "done" /\ Over /\ Active
    BY <1>41 DEF Done, live
  <2>2. CASE Has
    <3>1. NewIn /\ want' = [want EXCEPT ![To] = op.conf]
      BY <1>41, <2>1, <2>2 DEF Done, Has, HasConfig, Moved, GoneNew
    <3>2. cfg = want'
      BY <2>1, <3>1, OpIsKnown DEF CfgType, PastType, NewIn
    <3> QED BY <2>1, <3>2 DEF Over
  <2>3. CASE ~Has
    <3>1. ~HasConfig
      BY <2>1, <2>3 DEF Has, Turns, TurnedAt
    <3>2. want' = want
      BY <1>41, <3>1 DEF Done, HasConfig
    <3>3. cfg = want
      BY <2>1, <2>3, OpIsKnown DEF CfgType, PastType, OldIn
    <3> QED BY <2>1, <3>2, <3>3 DEF Over
  <2> QED BY <2>2, <2>3
<1>42. CASE RolledBack
  <2>1. UNCHANGED <<cfg, stage, want>> /\ proc.pc = "rolled" /\ Over /\ Active
    BY <1>42 DEF RolledBack, TheRow, live, past
  <2>2. OldIn
    BY <2>1 DEF Ready, Aside, GoneOld
  <2>3. cfg = want
    BY <2>1, <2>2, OpIsKnown DEF CfgType, PastType, OldIn
  <2> QED BY <2>1, <2>3 DEF Over
<1>43. CASE Resume
  <2>1. UNCHANGED <<record, link, cfg, stage, want, jobs>> /\ proc = Idle
    BY <1>43 DEF Resume, TheRow, live, past
  <2>2. CASE /\ op' = op /\ proc'.pc \in {"use", "go"}
            /\ op.choices = "switch" /\ op.st = "held"
    BY <2>1, <2>2
  <2>3. CASE Undo("choice") /\ op' = op /\ op.st = "held" /\ op.choices = "tasks"
    BY <2>1, <2>3, Undoings
  <2>4. CASE Decide /\ (op.st = "interrupted" \/ (op.st = "held" /\ op.choices = "retry"))
    <3>0. op.choices \notin {"tasks", "switch"} /\ (Has => Decided)
      BY <2>1, <2>4 DEF Rows
    <3>1. CASE /\ proc' = [Idle EXCEPT !.pc = "landed"] /\ op' = op
               /\ op.step = Switching /\ AllIn
      <4>1. Has => GoneNew
        <5> SUFFICES ASSUME Has PROVE GoneNew
          OBVIOUS
        <5>1. ~Whole
          BY <3>1, <2>4, Stages DEF AllIn
        <5>2. ~(NotYet /\ op.from # op.to)
          BY <3>1 DEF AllIn, NotYet
        <5> QED BY <3>0, <5>1, <5>2
      <4>2. proc'.pc = "landed" /\ proc'.ret = None
        BY <3>1
      <4> QED BY <2>1, <2>4, <3>0, <3>1, <4>1, <4>2, <1>j
    <3>2. CASE Held("switch") /\ proc' = proc /\ op.step = Switching /\ ~AllIn /\ ~NotYet
      <4>1. /\ To' = To /\ (Has' <=> Has) /\ (OldIn' <=> OldIn) /\ (Ready' <=> Ready)
            /\ (Aside' <=> Aside) /\ (Moved' <=> Moved) /\ (Doubled' <=> Doubled)
            /\ (GoneOld' <=> GoneOld) /\ (GoneNew' <=> GoneNew)
        BY <2>1, <3>2, Holds, Unmoved
      <4>2. op'.choices = "switch" /\ op'.st = "held" /\ op'.to = op.to
        BY <3>2, Holds
      <4> QED BY <2>1, <2>4, <3>0, <3>2, <4>1, <4>2
    <3>3. CASE Undo("early") /\ op' = op /\ (op.step = Switching => NotYet /\ ~AllIn)
      <4>1. Has => NotYet /\ (Ready \/ (GoneOld /\ op.from # op.to))
        <5> SUFFICES ASSUME Has PROVE NotYet /\ (Ready \/ (GoneOld /\ op.from # op.to))
          OBVIOUS
        <5>1. NotYet /\ ~AllIn
          BY <3>3 DEF Has
        <5>2. ~Aside /\ ~Moved /\ ~Doubled
          BY <2>4, <5>1, Stages DEF NotYet
        <5> QED BY <3>0, <5>1, <5>2
      <4> QED BY <2>1, <2>4, <3>0, <3>3, <4>1, <1>j, Undoings
    <3>4. CASE Held("retry") /\ proc' = proc
      <4>1. /\ To' = To /\ (Has' <=> Has) /\ (OldIn' <=> OldIn) /\ (Ready' <=> Ready)
            /\ (Aside' <=> Aside) /\ (Moved' <=> Moved) /\ (Doubled' <=> Doubled)
            /\ (GoneOld' <=> GoneOld) /\ (GoneNew' <=> GoneNew)
        BY <2>1, <3>4, Holds, Unmoved
      <4>2. op'.choices = "retry" /\ op'.st = "held" /\ op'.to = op.to /\ op'.from = op.from
        BY <3>4, Holds
      <4>3. (AllIn' <=> AllIn) /\ (NotYet' <=> NotYet)
        BY <2>1, <3>4, Holds, Unjudged
      <4> QED BY <2>1, <2>4, <3>0, <3>4, <4>1, <4>2, <4>3
    <3> QED BY <2>4, <3>1, <3>2, <3>3, <3>4, Decisions
  <2> QED BY <1>43, <2>2, <2>3, <2>4 DEF Resume, Choose, UseNew, GoBack, PutTasksBack, Resume
<1>44. CASE Die
  <2>1. /\ UNCHANGED <<cfg, stage, want, record, link, jobs>> /\ proc' = Idle
        /\ op'.to = op.to /\ op'.kind = op.kind /\ op'.step = op.step /\ op'.conf = op.conf
        /\ op'.from = op.from /\ op'.choices = op.choices /\ (op'.st = "over" <=> op.st = "over")
    BY <1>44 DEF Die, CutOff, Running, live
  <2>2. /\ To' = To /\ (Has' <=> Has) /\ (OldIn' <=> OldIn) /\ (Ready' <=> Ready)
        /\ (Aside' <=> Aside) /\ (Moved' <=> Moved) /\ (Doubled' <=> Doubled)
        /\ (GoneOld' <=> GoneOld) /\ (GoneNew' <=> GoneNew)
        /\ (AllIn' <=> AllIn) /\ (NotYet' <=> NotYet)
    BY <2>1, Unmoved, Unjudged
  <2>3. ASSUME Active, Has, op.choices # "tasks" PROVE Decided
    <3>1. HasConfig /\ op.step = Switching /\ proc.pc \notin {"clear", "prepare", "rollback", "swap",
             "pointback", "stopping"} /\ proc.ret # "rollback" /\ proc.pc \in Points
      BY <2>3 DEF Has, ProcType
    <3>2. ~ClearedEarly /\ ~PastRecord /\ proc # Idle
      BY <1>44 DEF Die
    <3>3. stage = NoStage =>
            /\ ~(proc.pc = "record" /\ proc.ret = "install")
            /\ proc.err = "failed" => op.from # op.to /\ NotYet
            /\ proc.pc = "rolled" => proc.ret # "goback" /\ op.from # op.to
            /\ proc.pc = "done" /\ op.from = op.to => AllIn /\ op.choices # "switch"
      BY <3>1, <3>2 DEF ClearedEarly, StillOffered
    <3>4. proc.pc = "done" /\ op.from # op.to => AllIn /\ op.choices # "switch"
      BY <2>3, <3>2 DEF PastRecord, StillOffered, Callings
    <3>5. CASE proc.pc = "idle"
      BY <2>3, <3>5
    <3>6. CASE proc.pc \in {"switch", "back", "drop", "clean", "outcome"} \/ Tasking({"install", "undo"})
      <4>1. Back \/ Moved \/ Doubled \/ (GoneOld /\ proc.err = "failed")
        BY <2>3, <3>6
      <4>2. op.choices # "switch"
        BY <3>6
      <4> QED BY <3>3, <4>1, <4>2 DEF GoneOld
    <3>7. CASE proc.pc \in {"record", "landed", "done"}
      <4>1. proc.pc = "landed" /\ proc.ret # "use" => op.choices # "switch"
        BY DEF Callings, Turns, ResumedAt
      <4>2. proc.pc = "record" => Moved
        BY <2>3, <3>3 DEF GoneNew
      <4>3. proc.pc = "landed" => Moved \/ (GoneNew /\ AllIn /\ op.choices # "switch")
        BY <2>3, <4>1
      <4>4. proc.pc = "done" => Moved \/ (GoneNew /\ AllIn /\ op.choices # "switch")
        BY <2>3, <3>3, <3>4 DEF GoneNew
      <4> QED BY <3>7, <4>2, <4>3, <4>4
    <3>8. CASE proc.pc \in {"use", "go", "uselink", "golink", "goclear"} \/ Tasking({"use", "goback"})
      BY <2>3, <3>8
    <3>9. CASE proc.pc \in {"gone", "rolled"} \/ Tasking({"early", "choice"})
      <4>1. proc.ret = "choice" => op.choices = "tasks"
        BY DEF Turns
      <4>2. proc.ret # "goback" => op.choices # "switch"
        BY <3>9, <2>3, <4>1 DEF Turns, ResumedAt, Callings
      <4>3. CASE proc.pc = "rolled"
        BY <2>3, <3>3, <4>2, <4>3 DEF GoneOld
      <4>4. CASE proc.pc = "gone" \/ Tasking({"early"})
        BY <2>3, <4>2, <4>4
      <4> QED BY <2>3, <3>9, <4>1, <4>3, <4>4
    <3> QED BY <3>1, <3>5, <3>6, <3>7, <3>8, <3>9 DEF Points, Callings, Callers, ProcType
  <2>4. CASE ~Active
    BY <2>1, <2>4
  <2>5. CASE Active
    BY <2>1, <2>2, <2>3, <2>5
  <2> QED BY <2>4, <2>5
<1>45. CASE Rest
  BY <1>45, <1>j DEF Rest, vars, live, past
<1>46. CASE UNCHANGED vars
  BY <1>46, <1>j DEF vars, live, past
<1> QED BY <1>1, <1>2, <1>3, <1>4, <1>5, <1>6, <1>7, <1>8, <1>9, <1>10, <1>11, <1>12,
   <1>13, <1>14, <1>15, <1>16, <1>17, <1>18, <1>19, <1>20, <1>21, <1>22, <1>23, <1>24,
   <1>25, <1>26, <1>27, <1>28, <1>29, <1>30, <1>31, <1>32, <1>33, <1>34, <1>35, <1>36,
   <1>37, <1>38, <1>39, <1>40, <1>41, <1>42, <1>43, <1>44, <1>45, <1>46
       DEF Next, Owner, Step, Removing, Installing, Syncing, Choosing, Ending

-----------------------------------------------------------------------------
(* A change begins with the links and the record agreeing.                  *)
LEMMA BegunLinks ==
  ASSUME TypeOK, Shape, Rows, Links, ~Active, NEW kind, NEW to \in Releases,
         kind = "rollback" => record.prev = to /\ App(record.rel) = AppOf[to],
         Begin(kind, to, record.rel), UNCHANGED <<link, record>>
  PROVE  Recording' /\ Links'
<1>1. /\ op'.kind = kind /\ op'.to = to /\ op'.step = 0 /\ op'.st = "running" /\ op'.choices = None
      /\ IF App(record.rel) = AppOf[to] THEN op'.from = record.rel /\ op'.repl = None
                                 ELSE op'.from = None /\ op'.repl = record.rel
      /\ proc'.ret = None /\ proc'.err = None
      /\ proc'.pc \in {"rollback", "prepare", "clear"}
  BY BegunRow
<1>2. App(to) = AppOf[to] /\ to # None
  BY AppType
<1>3. kind = "rollback" => record.rel # None
  BY <1>2 DEF Rows
<1>4. BegunOn' = record.rel \/ BegunOn' = None
  BY <1>1 DEF BegunOn
<1>5. BegunOn' = record.rel
  BY <1>1 DEF BegunOn
<1>6. Recording'
  BY <1>1, <1>2, <1>3, <1>5 DEF Recording, Active, None
<1>7. Links'
  BY <1>1, <1>2 DEF Links, Active, Tasking, To, None
<1> QED BY <1>6, <1>7

(* Every action keeps each job's name to its manifest.                      *)
LEMMA ProperStep ==
  TypeOK /\ Shape /\ Proper /\ [Next]_vars => Proper'
<1> SUFFICES ASSUME TypeOK, Shape, Proper, [Next]_vars PROVE Proper'
  OBVIOUS
<1>p. /\ RecordType /\ OpType /\ ProcType /\ AskedType /\ Known /\ Placed /\ LinkType /\ JobsType
  BY Parts DEF Shape
<1>r. /\ proc = [pc |-> proc.pc, ret |-> proc.ret, was |-> proc.was, old |-> proc.old,
               err |-> proc.err]
      /\ op = [kind |-> op.kind, to |-> op.to, from |-> op.from, repl |-> op.repl,
               step |-> op.step, st |-> op.st, choices |-> op.choices, off |-> op.off,
               conf |-> op.conf]
      /\ record = [rel |-> record.rel, prev |-> record.prev]
  BY Parts DEF ProcType, OpType, OpRow, RecordType
<1>f. \A u : SyncFails(u) => proc'.old = {} /\ UNCHANGED jobs
  <2> SUFFICES ASSUME NEW u, SyncFails(u) PROVE proc'.old = {} /\ UNCHANGED jobs
    OBVIOUS
  <2>1. UNCHANGED jobs
    BY DEF SyncFails, live
  <2>2. proc'.old = {}
    <3>1. \A pc \in Points : [proc EXCEPT !.old = {}, !.pc = pc].old = {}
      BY <1>r
    <3>2. [proc EXCEPT !.old = {}, !.pc = "back", !.err = "failed"].old = {} /\ Idle.old = {}
      BY <1>r DEF Idle
    <3>3. "pointback" \in Points /\ "check" \in Points
      BY DEF Points
    <3> QED BY <1>p, <3>1, <3>2, <3>3, Failings
  <2> QED BY <2>1, <2>2
<1> USE <1>p, <1>r DEF Proper, Idle
<1>1. CASE \E kind \in {"install", "update"}, r \in Releases : Ask(kind, r)
  BY <1>1 DEF Ask, Free, Request, live, past
<1>2. CASE \E kind \in {"install", "update"}, r \in Releases : Change(kind, r)
  BY <1>2 DEF Change, Free, Begin, live, past
<1>3. CASE RollBack
  BY <1>3 DEF RollBack, Change, Free, Begin, live, past
<1>4. CASE Fetched
  BY <1>4 DEF Fetched, Free, AsItWas, Begin, NotAsked, live, past
<1>5. CASE Refused
  BY <1>5 DEF Refused, NotAsked, live, past
<1>6. CASE StopApp
  BY <1>6 DEF StopApp, At, Free, Nothing, live, past
<1>7. CASE \E j \in jobs : Toggle(j)
  <2>1. PICK j \in jobs : Toggle(j)
    BY <1>7
  <2>2. LET i == [j EXCEPT !.on = ~@] IN i.name = j.name /\ i.rel = j.rel
    BY <2>1 DEF JobsType, Task
  <2> QED BY <2>1, <2>2 DEF Toggle
<1>8. CASE Choose
  BY <1>8 DEF Choose, UseNew, GoBack, PutTasksBack, Undo, Decide, Held, TheRow, live, past
<1>9. CASE Cleared
  BY <1>9 DEF Cleared, At, Nothing, live, past
<1>10. CASE NotCleared
  <2>1. UNCHANGED jobs /\ (proc' = Idle \/ proc'.old = proc.old)
    BY <1>10 DEF NotCleared, Ends, Nothing, live
  <2> QED BY <2>1
<1>11. CASE Stopped
  BY <1>11 DEF Stopped, Stale, live
<1>12. CASE \E j \in jobs : TakeOff(j)
  BY <1>12 DEF TakeOff, TheJobs, live, past
<1>13. CASE Prepare
  BY <1>13 DEF Prepare, past
<1>14. CASE NotPrepared
  BY <1>14 DEF NotPrepared, TheVolume, past
<1>15. CASE Switch
  BY <1>15 DEF Switch, LinkTo, TheVolume, past
<1>16. CASE NotSwitched
  BY <1>16 DEF NotSwitched, TheVolume, past
<1>17. CASE PutBack
  BY <1>17 DEF PutBack, At, TheVolume, past
<1>18. CASE NotPutBack
  BY <1>18 DEF NotPutBack, Catch, Ends, TheVolume, past
<1>19. CASE Drop
  BY <1>19 DEF Drop, ClearStaging, Catch, Ends, TheVolume, past
<1>20. CASE Outcome
  BY <1>20 DEF Outcome, Held, Over, TheRow, live, past
<1>21. CASE List
  BY <1>21 DEF List, Ours, Named, Nothing, live
<1>22. CASE NotListed
  <2>1. UNCHANGED jobs /\ proc'.old = {}
    BY <1>22, <1>f DEF NotListed
  <2> QED BY <2>1
<1>23. CASE NotSynced
  BY <1>23 DEF NotSynced, At, Nothing, live, past
<1>24. CASE Synced
  BY <1>24 DEF Synced, Nothing, live, past
<1>25. CASE \E n \in Names : Add(n)
  <2>1. PICK n \in Names : Add(n)
    BY <1>25
  <2>2. n \in Tasks(Sync.m) /\ Room(n, Sync.m, ~OffBefore(n)) /\ proc'.old = proc.old
        /\ jobs' = jobs \cup {Another(n, Sync.m, ~OffBefore(n))}
    BY <2>1 DEF Add, Answered, At
  <2>3. LET j == Another(n, Sync.m, ~OffBefore(n)) IN j.name = n /\ j.rel = Sync.m
    BY <2>2 DEF Another, Room, Job
  <2> QED BY <2>2, <2>3
<1>26. CASE \E j \in jobs : Remove(j)
  BY <1>26 DEF Remove, Answered, At, TheJobs, live, past
<1>27. CASE \E j \in jobs : UndoAdd(j)
  BY <1>27 DEF UndoAdd, TheJobs, live, past
<1>28. CASE Undone
  BY <1>28 DEF Undone, At, Nothing, live, past
<1>29. CASE \E j \in proc.old : Readd(j)
  <2>1. PICK j \in proc.old : Readd(j)
    BY <1>29
  <2> DEFINE again == Another(j.name, Sync.prev, WasOn(j))
  <2>2. j.name \in Tasks(Sync.prev) /\ Room(j.name, Sync.prev, WasOn(j)) /\ jobs' = jobs \cup {again}
        /\ proc' = [proc EXCEPT !.old = (@ \ {j}) \cup {again}]
    BY <2>1 DEF Readd, ToReadd
  <2>3. again.name = j.name /\ again.rel = Sync.prev
    BY <2>2 DEF Another, Room, Job
  <2> QED BY <2>2, <2>3
<1>30. CASE Readded
  <2>1. UNCHANGED jobs /\ proc'.old = {}
    BY <1>30, <1>f DEF Readded
  <2> QED BY <2>1
<1>31. CASE Check
  BY <1>31 DEF Check, At, live
<1>32. CASE Rollback
  BY <1>32 DEF Rollback, TheRow, live, past
<1>33. CASE Swap
  BY <1>33 DEF Swap, Pointed, Sets, Ends, Nothing, live, TheVolume, past
<1>34. CASE PointBack
  BY <1>34 DEF PointBack, Pointed, Ends, TheVolume, past
<1>35. CASE UseConfig
  BY <1>35 DEF UseConfig, At, TheVolume, past
<1>36. CASE UseLink
  <2>1. UNCHANGED jobs /\ (proc' = Idle \/ proc'.old = proc.old)
    BY <1>36 DEF UseLink, Pointed, Sets, TheVolume
  <2> QED BY <2>1
<1>37. CASE GoConfig
  BY <1>37 DEF GoConfig, At, TheVolume, past
<1>38. CASE GoLink
  <2>1. UNCHANGED jobs /\ (proc' = Idle \/ proc'.old = proc.old)
    BY <1>38 DEF GoLink, Pointed, Sets, At, TheVolume
  <2> QED BY <2>1
<1>39. CASE Clean
  BY <1>39 DEF Clean, ClearStaging, At, TheVolume, past
<1>40. CASE Record
  BY <1>40 DEF Record, At, Stale, live, past
<1>41. CASE Done
  BY <1>41 DEF Done, Over, live
<1>42. CASE RolledBack
  BY <1>42 DEF RolledBack, Over, TheRow, live, past
<1>43. CASE Resume
  BY <1>43 DEF Resume, Decide, Undo, Held, TheRow, live, past
<1>44. CASE Die
  BY <1>44 DEF Die, CutOff, NotAsked, live
<1>45. CASE Rest
  BY <1>45 DEF Rest, vars, live, past
<1>46. CASE UNCHANGED vars
  BY <1>46 DEF vars, live, past
<1> QED BY <1>1, <1>2, <1>3, <1>4, <1>5, <1>6, <1>7, <1>8, <1>9, <1>10, <1>11, <1>12,
   <1>13, <1>14, <1>15, <1>16, <1>17, <1>18, <1>19, <1>20, <1>21, <1>22, <1>23, <1>24,
   <1>25, <1>26, <1>27, <1>28, <1>29, <1>30, <1>31, <1>32, <1>33, <1>34, <1>35, <1>36,
   <1>37, <1>38, <1>39, <1>40, <1>41, <1>42, <1>43, <1>44, <1>45, <1>46
       DEF Next, Owner, Step, Removing, Installing, Syncing, Choosing, Ending

(* Every action keeps the links and the record as Links and Recording say.  *)
LEMMA LinksStep ==
  ASSUME {"both", "recorded"} \cap Windows = {}
  PROVE  TypeOK /\ Shape /\ Rows /\ Turns /\ Callings /\ Proper /\ Recording /\ Links
         /\ [Next]_vars => Recording' /\ Links'
<1> SUFFICES ASSUME TypeOK, Shape, Rows, Turns, Callings, Proper, Recording, Links, [Next]_vars
             PROVE  Recording' /\ Links'
  OBVIOUS
<1>p. /\ RecordType /\ OpType /\ ProcType /\ AskedType /\ Known /\ Placed /\ LinkType /\ JobsType
  BY Parts DEF Shape
<1>r. /\ proc = [pc |-> proc.pc, ret |-> proc.ret, was |-> proc.was, old |-> proc.old,
               err |-> proc.err]
      /\ op = [kind |-> op.kind, to |-> op.to, from |-> op.from, repl |-> op.repl,
               step |-> op.step, st |-> op.st, choices |-> op.choices, off |-> op.off,
               conf |-> op.conf]
      /\ record = [rel |-> record.rel, prev |-> record.prev]
  BY Parts DEF ProcType, OpType, OpRow, RecordType
<1>j. UNCHANGED <<record, link, stage, jobs, op>> => (AllIn' <=> AllIn)
  BY Unjudged
<1>t. /\ proc.pc \in {"clear", "prepare", "rollback"} => op.step = 0
      /\ \/ proc.pc \in {"clear", "prepare", "switch", "back", "drop", "clean", "rollback",
                        "swap", "pointback", "outcome"}
         \/ proc.ret \in {"install", "rollback", "undo"}
         => /\ op.choices = None /\ op.st = "running"
            /\ proc.pc \notin {"record", "done"} => record.rel = BegunOn
      /\ \/ proc.pc \in {"use", "uselink", "go", "golink", "goclear"}
         \/ proc.ret \in {"use", "goback"}
         => op.choices = "switch" /\ op.step = 1
      /\ proc.pc \in {"switch", "back", "clean", "record", "landed", "done", "swap", "pointback"}
         => op.step = 1
      /\ proc.pc \in {"landed", "done"} => record.rel = op.to
  BY <1>p DEF Rows, Turns, Callings, RunsAt, Running, ChosenAt, TurnedAt, Switching
<1>a. /\ Active => To \in Apps /\ op.to \in Releases /\ App(op.to) = To
      /\ Active /\ op.repl # None => /\ App(op.repl) \in Apps /\ App(op.repl) # To
                                     /\ op.from = None /\ op.kind # "rollback"
      /\ Active /\ op.from # None => App(op.from) = To
      /\ Active => record.rel \in {op.to, BegunOn}
      /\ Active /\ op.step = 0 => record.rel = BegunOn
      /\ proc.pc \notin {"idle", "stopping"} => Active
  BY <1>p, AppType DEF Rows, OpType, OpRow, Maybe, Known, Placed, To
<1>l. \A r : LinkTo(r) /\ To \in Apps =>
        link'[To] = r /\ \A b \in Apps : b # To => link'[b] = link[b]
  BY <1>p DEF LinkTo, LinkType
<1> USE <1>p, <1>r, <1>t, <1>a DEF Recording, Links, BegunOn, Tasking, Active, To, None, Idle,
     Switching
<1>1. CASE \E kind \in {"install", "update"}, r \in Releases : Ask(kind, r)
  BY <1>1, <1>j DEF Ask, Free, Request, live, past
<1>2. CASE \E kind \in {"install", "update"}, r \in Releases : Change(kind, r)
  BY <1>2, BegunLinks DEF Change, Free, live, past
<1>3. CASE RollBack
  <2>1. record.prev \in Releases /\ AppOf[record.prev] = App(record.rel)
    BY <1>3, AppType DEF RollBack, RecordType, Maybe, Rows
  <2> QED BY <1>3, <2>1, BegunLinks DEF RollBack, Change, Free, live, past
<1>4. CASE Fetched
  BY <1>4, BegunLinks DEF Fetched, AsItWas, Free, Known, Rows, live, past
<1>5. CASE Refused
  BY <1>5, <1>j DEF Refused, NotAsked, live, past
<1>6. CASE StopApp
  BY <1>6, <1>j DEF StopApp, At, Free, Nothing, live, past
<1>7. CASE \E j \in jobs : Toggle(j)
  BY <1>7 DEF Toggle, Free, live
<1>8. CASE Choose
  <2>1. UNCHANGED <<record, link, stage, jobs>> /\ proc = Idle
    BY <1>8 DEF Choose, TheRow, live, past
  <2>2. CASE /\ op' = op /\ proc'.pc \in {"use", "go"} /\ proc'.ret = None
            /\ op.choices = "switch" /\ op.st = "held"
    BY <2>1, <2>2
  <2>3. CASE Undo("choice") /\ op' = op /\ op.st = "held" /\ op.choices = "tasks"
    BY <2>1, <2>3, Undoings
  <2>4. CASE Decide /\ (op.st = "interrupted" \/ (op.st = "held" /\ op.choices = "retry"))
    <3>0. op.choices \notin {"tasks", "switch"}
      BY <2>1, <2>4 DEF Rows
    <3>1. CASE /\ proc' = [Idle EXCEPT !.pc = "landed"] /\ op' = op
               /\ op.step = Switching /\ AllIn
      <4>1. record.rel = op.to /\ link[To] = op.to
        BY <2>4, <3>1, AppType DEF AllIn, Recorded
      <4> QED BY <2>1, <2>4, <3>0, <3>1, <4>1
    <3>2. CASE Held("switch") /\ proc' = proc /\ op.step = Switching /\ ~AllIn /\ ~NotYet
      BY <2>1, <2>4, <3>0, <3>2, Holds
    <3>3. CASE Undo("early") /\ op' = op /\ (op.step = Switching => NotYet /\ ~AllIn)
      <4>1. op.step = 1 => link[To] = op.from
        BY <3>3 DEF NotYet
      <4>2. op.step \in 0..1
        BY DEF OpType, OpRow
      <4> QED BY <2>1, <2>4, <3>0, <3>3, <4>1, <4>2, Undoings
    <3>4. CASE Held("retry") /\ proc' = proc
      <4>1. (AllIn' <=> AllIn)
        BY <2>1, <3>4, Holds, Unjudged
      <4> QED BY <2>1, <2>4, <3>0, <3>4, <4>1, Holds
    <3> QED BY <2>4, <3>1, <3>2, <3>3, <3>4, Decisions
  <2> QED BY <1>8, <2>2, <2>3, <2>4 DEF Choose, Choose, UseNew, GoBack, PutTasksBack, Resume
<1>9. CASE Cleared
  BY <1>9 DEF Cleared, At, Nothing, live, past
<1>10. CASE NotCleared
  <2>1. UNCHANGED <<record, op, link>>
    BY <1>10 DEF NotCleared, Nothing, live
  <2>2. CASE proc' = Idle /\ proc.pc \in {"stopping", "goclear"}
    BY <2>1, <2>2 DEF Turns
  <2>3. CASE proc.pc = "clear" /\ Ends("failed")
    BY <2>1, <2>3 DEF Ends
  <2> QED BY <1>10, <2>2, <2>3 DEF NotCleared
<1>11. CASE Stopped
  <2>1. ~Active /\ record'.rel = None /\ UNCHANGED <<op, link>>
    BY <1>11 DEF Stopped, live, Turns
  <2> QED BY <2>1
<1>12. CASE \E j \in jobs : TakeOff(j)
  <2>1. UNCHANGED <<op, record, link, proc>>
    BY <1>12 DEF TakeOff, TheJobs, live, past
  <2>2. proc.pc \in {"clear", "stopping", "goclear"}
    BY <1>12 DEF TakeOff, Leaving, Tasks, Named
  <2> QED BY <2>1, <2>2
<1>13. CASE Prepare
  BY <1>13 DEF Prepare, past
<1>14. CASE NotPrepared
  BY <1>14 DEF NotPrepared, TheVolume, past
<1>15. CASE Switch
  BY <1>15, <1>l, <1>j DEF Switch, LinkTo, TheVolume, past
<1>16. CASE NotSwitched
  <2>1. UNCHANGED <<record, op>> /\ proc.pc = "switch" /\ proc'.pc = "back" /\ proc'.was = proc.was
        /\ proc'.ret = proc.ret /\ (LinkTo(op.to) \/ UNCHANGED link)
    BY <1>16 DEF NotSwitched, TheVolume, live
  <2> QED BY <2>1, <1>l
<1>17. CASE PutBack
  BY <1>17, <1>l, <1>j DEF PutBack, At, TheVolume, past
<1>18. CASE NotPutBack
  BY <1>18, <1>l, <1>j DEF NotPutBack, Catch, Ends, TheVolume, past
<1>19. CASE Drop
  BY <1>19 DEF Drop, ClearStaging, Catch, Ends, TheVolume, past
<1>20. CASE Outcome
  <2>1. UNCHANGED <<record, link>> /\ proc.pc = "outcome" /\ proc' = Idle
    BY <1>20 DEF Outcome, TheRow, live, past
  <2>2. CASE proc.err = "held" /\ Held("switch")
    BY <2>1, <2>2, Holds DEF Shape, Said, Turning
  <2>3. CASE proc.err = "failed" /\ Over
    <3>1. record.rel # None => link[App(record.rel)] = record.rel
      BY <2>1, <2>3
    <3>2. ~Active'
      BY <2>3 DEF Over
    <3> QED BY <2>1, <3>1, <3>2
  <2> QED BY <1>20, <2>2, <2>3 DEF Outcome, Callings, ProcType
<1>21. CASE List
  BY <1>21, <1>j DEF List, Nothing, live, past
<1>22. CASE NotListed
  <2>1. UNCHANGED <<record, op, link>> /\ proc.pc \in {"list", "undo", "readd"}
    BY <1>22 DEF NotListed, SyncFails, live
  <2>2. PICK u : SyncFails(u)
    BY <1>22 DEF NotListed
  <2>3. CASE proc' = Idle
    BY <2>1, <2>3
  <2>4. CASE proc.ret = "install" /\ proc' = [proc EXCEPT !.old = {}, !.pc = "back",
                                                !.err = "failed"]
    BY <2>1, <2>4
  <2>5. CASE proc.ret = "rollback" /\ proc' = [proc EXCEPT !.old = {}, !.pc = "pointback"]
    BY <2>1, <2>5
  <2>6. CASE /\ proc.ret \notin {"use", "goback", "install", "rollback"}
             /\ proc' = [proc EXCEPT !.old = {}, !.pc = "check"]
    <3> proc.ret \in Callers
      BY DEF ProcType
    <3> QED BY <2>1, <2>6
  <2> QED BY <2>2, <2>3, <2>4, <2>5, <2>6, Failings
<1>23. CASE NotSynced
  BY <1>23, <1>j DEF NotSynced, At, Nothing, live, past
<1>24. CASE Synced
  BY <1>24, <1>j DEF Synced, Nothing, live, past
<1>25. CASE \E n \in Names : Add(n)
  BY <1>25 DEF Add, Answered, At, TheJobs, live, past
<1>26. CASE \E j \in jobs : Remove(j)
  BY <1>26 DEF Remove, Answered, At, TheJobs, live, past
<1>27. CASE \E j \in jobs : UndoAdd(j)
  BY <1>27 DEF UndoAdd, TheJobs, live, past
<1>28. CASE Undone
  BY <1>28, <1>j DEF Undone, At, Nothing, live, past
<1>29. CASE \E j \in proc.old : Readd(j)
  BY <1>29 DEF Readd, TheJobs, live, past
<1>30. CASE Readded
  <2>1. UNCHANGED <<record, op, link>> /\ proc.pc \in {"list", "undo", "readd"}
    BY <1>30 DEF Readded, SyncFails, live
  <2>2. PICK u : SyncFails(u)
    BY <1>30 DEF Readded
  <2>3. CASE proc' = Idle
    BY <2>1, <2>3
  <2>4. CASE proc.ret = "install" /\ proc' = [proc EXCEPT !.old = {}, !.pc = "back",
                                                !.err = "failed"]
    BY <2>1, <2>4
  <2>5. CASE proc.ret = "rollback" /\ proc' = [proc EXCEPT !.old = {}, !.pc = "pointback"]
    BY <2>1, <2>5
  <2>6. CASE /\ proc.ret \notin {"use", "goback", "install", "rollback"}
             /\ proc' = [proc EXCEPT !.old = {}, !.pc = "check"]
    <3> proc.ret \in Callers
      BY DEF ProcType
    <3> QED BY <2>1, <2>6
  <2> QED BY <2>2, <2>3, <2>4, <2>5, <2>6, Failings
<1>31. CASE Check
  <2>1. UNCHANGED <<record, link, jobs, stage>> /\ proc.pc = "check" /\ Active
        /\ proc.ret \in {"undo", "early", "choice"}
    BY <1>31 DEF Check, live, Callings
  <2>0. op.repl # None /\ record.rel = op.repl
    BY <2>1 DEF Turns
  <2>2. CASE op' = op /\ proc.ret = "undo" /\ At("outcome")
    BY <2>0, <2>1, <2>2 DEF At
  <2>3. CASE op' = op /\ At("gone") /\ proc.ret # "undo"
    BY <2>0, <2>1, <2>3 DEF At
  <2>4. CASE op' = op /\ proc' = Idle /\ proc.ret = "choice"
    BY <2>0, <2>1, <2>4
  <2>5. CASE proc' = Idle /\ Held("tasks") /\ proc.ret = "early"
    BY <2>0, <2>1, <2>5, Holds, AppType
  <2> QED BY <1>31, <2>1, <2>2, <2>3, <2>4, <2>5 DEF Check
<1>32. CASE Rollback
  BY <1>32, <1>j DEF Rollback, TheRow, live, past
<1>33. CASE Swap
  <2>1. UNCHANGED <<record, op>> /\ proc.pc = "swap"
    BY <1>33 DEF Swap, Pointed, Nothing, TheVolume
  <2>2. CASE (LinkTo(op.to) \/ UNCHANGED link) /\ Sets("rollback")
    BY <2>1, <2>2, <1>l DEF Sets
  <2>3. CASE (LinkTo(op.to) \/ UNCHANGED link) /\ Ends("held")
    BY <2>1, <2>3, <1>l DEF Ends
  <2>4. CASE UNCHANGED link /\ Ends("failed")
    BY <2>1, <2>4 DEF Ends
  <2> QED BY <1>33, <2>2, <2>3, <2>4 DEF Swap, Pointed, Nothing, live
<1>34. CASE PointBack
  BY <1>34, <1>l, <1>j DEF PointBack, Pointed, Ends, TheVolume, past
<1>35. CASE UseConfig
  BY <1>35 DEF UseConfig, At, TheVolume, past
<1>36. CASE UseLink
  <2>1. UNCHANGED <<record, op>> /\ proc.pc = "uselink" /\ (LinkTo(op.to) \/ UNCHANGED link)
    BY <1>36 DEF UseLink, Pointed, TheVolume
  <2>2. CASE Sets("use")
    BY <2>1, <2>2, <1>l DEF Sets
  <2>3. CASE proc' = Idle
    BY <2>1, <2>3, <1>l
  <2> QED BY <1>36, <2>2, <2>3 DEF UseLink, Pointed
<1>37. CASE GoConfig
  BY <1>37 DEF GoConfig, At, TheVolume, past
<1>38. CASE GoLink
  <2>1. UNCHANGED <<record, op>> /\ proc.pc = "golink" /\ (LinkTo(op.from) \/ UNCHANGED link)
    BY <1>38 DEF GoLink, Pointed, TheVolume
  <2>2. CASE Sets("goback") /\ LinkTo(op.from)
    BY <2>1, <2>2, <1>l DEF Sets
  <2>4. CASE At("goclear") /\ LinkTo(op.from)
    BY <2>1, <2>4, <1>l DEF At
  <2>3. CASE proc' = Idle
    BY <2>1, <2>3, <1>l
  <2> QED BY <1>38, <2>2, <2>3, <2>4 DEF GoLink, Pointed
<1>39. CASE Clean
  BY <1>39 DEF Clean, ClearStaging, At, TheVolume, past
<1>40. CASE Record
  <2>1. /\ UNCHANGED <<op, link>> /\ record'.rel = op.to
        /\ proc'.pc \in {"landed", "done"} /\ proc.pc = "record"
        /\ proc'.ret = proc.ret
    BY <1>40 DEF Record, At, live
  <2>2. link[To] = op.to
    BY <2>1 DEF Shape, Linked, Pointing
  <2>3. op.choices # "tasks"
    BY <2>1 DEF Callings
  <2> QED BY <2>1, <2>2, <2>3
<1>41. CASE Done
  <2>1. UNCHANGED <<link, record>> /\ proc.pc = "done" /\ Over
    BY <1>41 DEF Done, live
  <2> QED BY <2>1 DEF Over
<1>42. CASE RolledBack
  <2>1. UNCHANGED <<link, record>> /\ proc.pc = "rolled" /\ Over
    BY <1>42 DEF RolledBack, TheRow, live
  <2>2. record.rel # None => link[App(record.rel)] = record.rel
    BY <2>1
  <2>3. ~Active'
    BY <2>1 DEF Over
  <2> QED BY <2>1, <2>2, <2>3
<1>43. CASE Resume
  <2>1. UNCHANGED <<record, link, stage, jobs>> /\ proc = Idle
    BY <1>43 DEF Resume, TheRow, live, past
  <2>2. CASE /\ op' = op /\ proc'.pc \in {"use", "go"} /\ proc'.ret = None
            /\ op.choices = "switch" /\ op.st = "held"
    BY <2>1, <2>2
  <2>3. CASE Undo("choice") /\ op' = op /\ op.st = "held" /\ op.choices = "tasks"
    BY <2>1, <2>3, Undoings
  <2>4. CASE Decide /\ (op.st = "interrupted" \/ (op.st = "held" /\ op.choices = "retry"))
    <3>0. op.choices \notin {"tasks", "switch"}
      BY <2>1, <2>4 DEF Rows
    <3>1. CASE /\ proc' = [Idle EXCEPT !.pc = "landed"] /\ op' = op
               /\ op.step = Switching /\ AllIn
      <4>1. record.rel = op.to /\ link[To] = op.to
        BY <2>4, <3>1, AppType DEF AllIn, Recorded
      <4> QED BY <2>1, <2>4, <3>0, <3>1, <4>1
    <3>2. CASE Held("switch") /\ proc' = proc /\ op.step = Switching /\ ~AllIn /\ ~NotYet
      BY <2>1, <2>4, <3>0, <3>2, Holds
    <3>3. CASE Undo("early") /\ op' = op /\ (op.step = Switching => NotYet /\ ~AllIn)
      <4>1. op.step = 1 => link[To] = op.from
        BY <3>3 DEF NotYet
      <4>2. op.step \in 0..1
        BY DEF OpType, OpRow
      <4> QED BY <2>1, <2>4, <3>0, <3>3, <4>1, <4>2, Undoings
    <3>4. CASE Held("retry") /\ proc' = proc
      <4>1. (AllIn' <=> AllIn)
        BY <2>1, <3>4, Holds, Unjudged
      <4> QED BY <2>1, <2>4, <3>0, <3>4, <4>1, Holds
    <3> QED BY <2>4, <3>1, <3>2, <3>3, <3>4, Decisions
  <2> QED BY <1>43, <2>2, <2>3, <2>4 DEF Resume, Choose, UseNew, GoBack, PutTasksBack, Resume
<1>44. CASE Die
  <2>1. /\ UNCHANGED <<record, link, stage, jobs>> /\ proc' = Idle
        /\ op'.to = op.to /\ op'.kind = op.kind /\ op'.step = op.step /\ op'.repl = op.repl
        /\ op'.from = op.from /\ op'.choices = op.choices /\ (op'.st = "over" <=> op.st = "over")
    BY <1>44 DEF Die, CutOff, Running, live
  <2>2. (AllIn' <=> AllIn)
    BY <2>1, Unjudged
  <2>3. Active /\ record.rel = op.to /\ BegunOn # op.to => op.choices # "switch" /\ AllIn
    BY <1>44, AppType DEF Die, PastRecord, StillOffered
  <2> QED BY <2>1, <2>2, <2>3
<1>45. CASE Rest
  BY <1>45, <1>j DEF Rest, vars, live, past
<1>46. CASE UNCHANGED vars
  BY <1>46, <1>j DEF vars, live, past
<1> QED BY <1>1, <1>2, <1>3, <1>4, <1>5, <1>6, <1>7, <1>8, <1>9, <1>10, <1>11, <1>12,
   <1>13, <1>14, <1>15, <1>16, <1>17, <1>18, <1>19, <1>20, <1>21, <1>22, <1>23, <1>24,
   <1>25, <1>26, <1>27, <1>28, <1>29, <1>30, <1>31, <1>32, <1>33, <1>34, <1>35, <1>36,
   <1>37, <1>38, <1>39, <1>40, <1>41, <1>42, <1>43, <1>44, <1>45, <1>46
       DEF Next, Owner, Step, Removing, Installing, Syncing, Choosing, Ending

-----------------------------------------------------------------------------
(* Fewer jobs, more names and more doubt are within what was.               *)
LEMMA WithinLess ==
  \A J, K, N, M, D, E :
    Within(J, N, D) /\ K \subseteq J /\ N \subseteq M /\ D \subseteq E => Within(K, M, E)
BY DEF Within

(* The names of a change stay its own.                                      *)
LEMMA SameNames ==
  ASSUME op'.to = op.to, op'.from = op.from, op'.repl = op.repl
  PROVE  /\ OldTasks' = OldTasks /\ NewTasks' = NewTasks /\ KeptTasks' = KeptTasks
         /\ BegunOn' = BegunOn /\ To' = To
BY DEF OldTasks, NewTasks, KeptTasks, BegunOn, To

(* How they compare, by what is recorded.                                   *)
LEMMA TheNames ==
  /\ KeptTasks \subseteq OldTasks /\ (op.repl = None => KeptTasks = OldTasks)
  /\ op.repl # None => KeptTasks = {}
  /\ record.rel = BegunOn => Tasks(record.rel) = OldTasks
  /\ record.rel = op.to => Tasks(record.rel) = NewTasks
  /\ record.rel = None => Tasks(record.rel) = {}
  /\ BegunOn = op.to => OldTasks = NewTasks
BY DEF KeptTasks, OldTasks, NewTasks, Tasks

(* A change begins with the recorded app's tasks only.                      *)
LEMMA BegunListed ==
  ASSUME TypeOK, Shape, Rows, Listed, ~Active, NEW kind, NEW to \in Releases,
         Begin(kind, to, record.rel), UNCHANGED <<link, record, jobs, doubt>>
  PROVE  Listed'
<1>1. /\ op'.kind = kind /\ op'.to = to /\ op'.step = 0 /\ op'.st = "running" /\ op'.choices = None
      /\ IF App(record.rel) = AppOf[to] THEN op'.from = record.rel /\ op'.repl = None
                                 ELSE op'.from = None /\ op'.repl = record.rel
      /\ proc'.ret = None /\ proc'.err = None
      /\ proc'.pc \in {"rollback", "prepare", "clear"} /\ (proc'.pc = "prepare" => op'.repl = None)
  BY BegunRow
<1>2. BegunOn' = record.rel
  BY <1>1 DEF BegunOn
<1>3. OldTasks' = Tasks(record.rel) /\ NewTasks' = Tasks(to) /\ (op'.repl = None => KeptTasks' = OldTasks')
  BY <1>1, <1>2 DEF OldTasks, NewTasks, KeptTasks
<1>4. Within(jobs, Tasks(record.rel), doubt)
  BY DEF Listed
<1>5. Spread'
  BY <1>1, <1>2, <1>3, <1>4 DEF Spread, Tasking
<1>6. Turned' /\ Synching'
  BY <1>1 DEF Turned, Synching, Tasking
<1>7. Active'
  BY <1>1 DEF Active
<1> QED BY <1>5, <1>6, <1>7 DEF Listed

(* The two manifests of a sync, by its caller.                              *)
LEMMA SameSync ==
  ASSUME UNCHANGED <<record, op>>, proc'.ret = proc.ret, proc'.was = proc.was
  PROVE  SyncTo' = SyncTo /\ SyncFrom' = SyncFrom
BY DEF SyncTo, SyncFrom, Sync, Same, To

LEMMA SyncNames ==
  ASSUME TypeOK, Shape, Rows, Turns, Callings, Recording, Links, Active, Tasking(Callers)
  PROVE  /\ proc.ret \in {"install", "rollback", "use"} => SyncTo = NewTasks
         /\ proc.ret \in {"undo", "early", "choice"} => SyncTo = OldTasks /\ SyncFrom = {}
         /\ proc.ret = "goback" => SyncTo = Tasks(record.rel)
         /\ proc.ret \in {"use", "goback"} =>
              /\ SyncTo \cup SyncFrom \subseteq OldTasks \cup NewTasks
              /\ op.repl # None => SyncFrom = {} /\ record.rel = op.repl
         /\ proc.ret \in {"install", "rollback"} /\ op.repl = None /\ op.from # None => SyncFrom = OldTasks
<1>1. CASE proc.ret = "install"
  BY <1>1 DEF SyncTo, SyncFrom, Sync, NewTasks, OldTasks, BegunOn, Links, Tasking
<1>2. CASE proc.ret = "rollback"
  <2>1. record.rel = BegunOn
    BY <1>2 DEF Turns, RunsAt, Tasking
  <2> QED BY <1>2, <2>1 DEF SyncTo, SyncFrom, Sync, NewTasks, OldTasks
<1>0. proc.ret \in {"use", "goback"} => record.rel = BegunOn \/ BegunOn = op.to
  BY DEF Recording, Rows, Tasking
<1>a. proc.ret \in {"use", "goback"} /\ op.repl # None => record.rel = op.repl /\ ~Same(record.rel)
  BY <1>0, AppType DEF Rows, BegunOn, Same, Shape, Known, To
<1>b. proc.ret \in {"use", "goback"} => Tasks(record.rel) \subseteq OldTasks \cup NewTasks
  BY <1>0 DEF Rows, OldTasks, NewTasks
<1>3. CASE proc.ret = "use"
  BY <1>a, <1>b, <1>3 DEF SyncTo, SyncFrom, Sync, NewTasks, Tasks
<1>4. CASE proc.ret = "goback"
  BY <1>a, <1>b, <1>4 DEF SyncTo, SyncFrom, Sync, NewTasks, Tasks
<1>5. CASE proc.ret \in {"undo", "early", "choice"}
  <2>1. record.rel = BegunOn
    BY <1>5 DEF Turns, BegunOn
  <2> QED BY <1>5, <2>1 DEF SyncTo, SyncFrom, Sync, OldTasks, Tasks
<1> QED BY <1>1, <1>2, <1>3, <1>4, <1>5

(* A sync that says what it could not confirm says it of every job there may *)
(* be, those of other apps in doubt aside.                                   *)
LEMMA AllDoubted ==
  ASSUME TypeOK, Shape, Rows, Turns, Callings, Proper, Recording, Links, Synching, Active,
         proc.pc \in {"undo", "readd"}, proc.ret \notin Quiet
  PROVE  \A N : Within(jobs, N, Told(Sync.m))
<1> SUFFICES ASSUME NEW j \in jobs, App(j.rel) \notin doubt PROVE App(j.rel) \in Told(Sync.m)
  BY DEF Within, Told
<1>1. proc.ret \in {"install", "rollback", "use", "goback"} /\ Tasking(Callers)
  BY DEF TypeOK, Callers, Callings, Tasking, Quiet
<1>2. /\ j.name \in SyncTo \cup SyncFrom
      /\ proc.ret \in {"install", "rollback"} => j.name \in SyncTo \cup KeptTasks
  BY DEF Synching, Within
<1>3. j.name \in Tasks(j.rel) /\ j.rel \in Releases
  BY DEF Proper, TypeOK, Task
<1>4. \A r \in Maybe : j.name \in Tasks(r) => r \in Releases /\ App(j.rel) = App(r) /\ App(r) # None
  BY <1>3, TasksType, ReleasesAssumption DEF Tasks, App
<1>5. op.to \in Releases /\ BegunOn \in Maybe /\ record.rel \in Maybe
  BY DEF TypeOK, OpRow, Maybe, BegunOn, Shape, Known
<1>6. op.repl = None /\ BegunOn # None => App(BegunOn) = To
  BY DEF Rows, BegunOn
<1>7. App(op.to) = To
  BY <1>5, AppType DEF To
<1>8. CASE proc.ret \in {"install", "rollback", "use"}
  <2>1. Sync.m = op.to /\ SyncTo = NewTasks
    BY <1>1, <1>8, SyncNames DEF Sync
  <2>2. CASE j.name \in NewTasks
    BY <1>4, <1>5, <2>1, <2>2 DEF NewTasks, Told, Maybe
  <2>3. CASE j.name \notin NewTasks
    <3>1. op.repl = None /\ j.name \in OldTasks
      BY <1>1, <1>2, <1>8, <2>1, <2>3, SyncNames DEF KeptTasks
    <3>2. BegunOn # None /\ App(j.rel) = App(BegunOn) /\ App(BegunOn) # None
      BY <1>4, <1>5, <3>1, ReleasesAssumption DEF OldTasks
    <3> QED BY <1>6, <1>7, <2>1, <3>1, <3>2 DEF Told
  <2> QED BY <2>2, <2>3
<1>9. CASE proc.ret = "goback"
  <2>1. Sync.m = record.rel /\ SyncTo = Tasks(record.rel)
    BY <1>1, <1>9, SyncNames DEF Sync
  <2>2. CASE j.name \in SyncTo
    BY <1>4, <1>5, <2>1, <2>2 DEF Told
  <2>3. CASE j.name \notin SyncTo
    <3>1. j.name \in SyncFrom /\ SyncFrom = Tasks(op.to) /\ Same(record.rel)
      BY <1>2, <1>9, <2>3 DEF SyncFrom, Sync, Tasks
    <3> QED BY <1>4, <1>5, <1>7, <2>1, <3>1 DEF Told, Same, Maybe
  <2> QED BY <2>2, <2>3
<1> QED BY <1>1, <1>8, <1>9

(* A restart that finds nothing switched finds the old tasks only.          *)
LEMMA NotYetNames ==
  ASSUME TypeOK, Shape, Rows, Finite, Recording, Active, Spread, NotYet, op.choices # "switch"
  PROVE  record.rel = BegunOn /\ Within(jobs, OldTasks, doubt)
<1>1. op.to \in Releases /\ op.to # None
  BY AppType DEF Shape, Known
<1>2. record.rel \in {op.to, BegunOn} /\ (op.repl # None => op.from = None /\ op.repl # op.to)
  BY <1>1, AppType DEF Rows, To
<1>3. link[To] = op.from /\ Recorded = op.from
  BY DEF NotYet
<1>4. CASE op.from = None
  <2>1. record.rel # op.to
    BY <1>1, <1>3, <1>4, AppType DEF Recorded, Same, To
  <2> QED BY <1>1, <1>2, <1>3, <1>4, <2>1 DEF Spread
<1>5. CASE op.from # None
  <2>1. record.rel = op.from /\ op.repl = None
    BY <1>2, <1>3, <1>5 DEF Recorded
  <2>2. BegunOn = op.from
    BY <2>1 DEF BegunOn
  <2>3. \A n \in Tasks(record.prev) \cup (IF op.kind = "rollback" THEN {} ELSE Tasks(op.to)) :
          n \notin Tasks(op.from) => Times(n) = 0
    BY <1>3, <1>5 DEF NotYet, TasksOk, TasksAre
  <2>4. \A n \in NewTasks : n \notin OldTasks => Times(n) = 0
    BY <2>1, <2>2, <2>3 DEF Recording, NewTasks, OldTasks
  <2>5. \A n \in NewTasks : n \notin OldTasks => Named({n}) = {}
    <3>1. \A n : IsFiniteSet(Named({n}))
      BY FS_Subset DEF Finite, Named
    <3> QED BY <2>4, <3>1, FS_EmptySet DEF Times
  <2>6. Within(jobs, OldTasks \cup NewTasks, doubt) => Within(jobs, OldTasks, doubt)
    BY <2>5 DEF Within, Named
  <2>7. Within(jobs, OldTasks \cup NewTasks, doubt)
    BY WithinLess DEF Spread
  <2> QED BY <2>1, <2>2, <2>6, <2>7
<1> QED BY <1>4, <1>5

(* What jobs within a sync's manifests are within, by the caller.           *)
LEMMA SyncedSets ==
  ASSUME TypeOK, Shape, Rows, Turns, Callings, Recording, Links, Active,
         proc.pc \in {"sync", "undo", "readd"}, NEW K, NEW D,
         Within(K, SyncTo \cup SyncFrom, D),
         proc.ret \in {"install", "rollback"} => Within(K, SyncTo \cup KeptTasks, D)
  PROVE  /\ \/ Within(K, OldTasks, D) \/ Within(K, NewTasks, D)
            \/ op.repl = None /\ Within(K, OldTasks \cup NewTasks, D)
         /\ record.rel = op.to => Within(K, NewTasks, D)
         /\ op.step = 0 \/ op.choices = "tasks" \/ proc.ret \in {"undo", "early", "choice"} =>
              Within(K, OldTasks, D)
         /\ op.repl # None /\ record.rel = op.repl =>
              /\ proc.ret = "use" => Within(K, NewTasks, D)
              /\ proc.ret = "goback" => Within(K, OldTasks, D)
<1>1. Tasking(Callers) /\ proc.ret \in Callers /\ proc.ret # None
  BY Parts DEF Tasking, Callings, ProcType
<1>2. /\ proc.ret \in {"install", "rollback", "use"} => SyncTo = NewTasks
      /\ proc.ret \in {"undo", "early", "choice"} => SyncTo = OldTasks /\ SyncFrom = {}
      /\ proc.ret = "goback" => SyncTo = Tasks(record.rel)
      /\ proc.ret \in {"use", "goback"} =>
           /\ SyncTo \cup SyncFrom \subseteq OldTasks \cup NewTasks
           /\ op.repl # None => SyncFrom = {} /\ record.rel = op.repl
  BY <1>1, SyncNames
<1>3. record.rel = op.to => OldTasks = NewTasks
  BY TheNames DEF Recording, Active
<1>4. /\ op.step = 0 \/ op.choices = "tasks" => proc.ret \in {"undo", "early", "choice"}
      /\ proc.ret \in {"undo", "early", "choice"} => op.repl # None /\ record.rel = op.repl
  BY <1>1 DEF Turns, Rows, RunsAt, ChosenAt, TurnedAt, Running, Callers, Switching, None
<1>5. KeptTasks \subseteq OldTasks /\ (op.repl # None => KeptTasks = {})
      /\ (op.repl # None /\ record.rel = op.repl => Tasks(record.rel) = OldTasks)
  BY TheNames DEF BegunOn
<1>6. \A N : SyncTo \cup SyncFrom \subseteq N => Within(K, N, D)
  BY WithinLess
<1>7. \A N : proc.ret \in {"install", "rollback"} /\ SyncTo \cup KeptTasks \subseteq N => Within(K, N, D)
  BY WithinLess
<1>8. CASE proc.ret \in {"install", "rollback"}
  <2>1. Within(K, OldTasks \cup NewTasks, D) /\ (op.repl # None => Within(K, NewTasks, D))
    BY <1>2, <1>5, <1>7, <1>8
  <2> QED BY <1>3, <1>4, <1>8, <2>1
<1>9. CASE proc.ret \in {"use", "goback"}
  <2>1. Within(K, OldTasks \cup NewTasks, D)
    BY <1>2, <1>6, <1>9
  <2>2. op.repl # None => /\ proc.ret = "use" => Within(K, NewTasks, D)
                          /\ proc.ret = "goback" => Within(K, OldTasks, D)
    BY <1>2, <1>5, <1>6, <1>9
  <2> QED BY <1>3, <1>4, <1>9, <2>1, <2>2
<1>10. CASE proc.ret \in {"undo", "early", "choice"}
  <2>1. Within(K, OldTasks, D)
    BY <1>2, <1>6, <1>10
  <2> QED BY <1>3, <1>10, <2>1
<1> QED BY <1>1, <1>8, <1>9, <1>10 DEF Callers

(* The jobs are finite, so that a name of no job is counted none.           *)
LEMMA FiniteInit == Init => Finite
<1> SUFFICES ASSUME Init PROVE IsFiniteSet(jobs)
  BY DEF Finite
<1>1. PICK i \in Installed : record = [rel |-> i[1], prev |-> i[2]]
  BY DEF Init
<1>2. record.rel \in Maybe
  BY <1>1, InstalledAssumption DEF Maybe
<1>3. IsFiniteSet(Tasks(record.rel))
  BY <1>2, ReleasesAssumption, FS_EmptySet DEF Tasks, Maybe
<1> DEFINE f == [n \in Tasks(record.rel) |-> Job(n, record.rel, TRUE, 0)]
<1>4. jobs = {Job(n, record.rel, TRUE, 0) : n \in Tasks(record.rel)}
  BY DEF Init
<1>5. f \in Surjection(Tasks(record.rel), jobs)
  BY <1>4 DEF Surjection
<1> QED BY <1>3, <1>5, FS_Surjection

LEMMA FiniteStep == Finite /\ [Next]_vars => Finite'
<1> SUFFICES ASSUME Finite, [Next]_vars PROVE IsFiniteSet(jobs')
  BY DEF Finite
<1>1. \/ UNCHANGED jobs \/ (\E j : jobs' = jobs \ {j}) \/ (\E j : jobs' = jobs \cup {j})
      \/ \E i, j : jobs' = (jobs \ {j}) \cup {i}
  <2>1. CASE Fetched \/ Refused \/ Resume \/ Die \/ Rest \/ UNCHANGED vars
    BY <2>1 DEF Fetched, Refused, Resume, Die, Rest, TheRow, vars
  <2>2. CASE Owner
    BY <2>2 DEF Owner, Ask, Change, RollBack, StopApp, Choose, Toggle, Nothing, TheRow
  <2>3. CASE Removing \/ Installing
    BY <2>3 DEF Removing, Cleared, NotCleared, Stopped, TakeOff, Installing, Prepare,
       NotPrepared, Switch, NotSwitched, PutBack, NotPutBack, Drop, Outcome, Nothing,
       TheRow, TheVolume, TheJobs
  <2>4. CASE Syncing
    BY <2>4 DEF Syncing, List, NotListed, NotSynced, Synced, Undone, Readded, SyncFails,
       Check, Add, Remove, UndoAdd, Readd, Nothing, TheJobs
  <2>5. CASE Choosing \/ Ending
    BY <2>5 DEF Choosing, Rollback, Swap, PointBack, UseConfig, UseLink, GoConfig,
       GoLink, Pointed, Ending, Clean, Record, Done, RolledBack, Nothing, TheRow, TheVolume
  <2> QED BY <2>1, <2>2, <2>3, <2>4, <2>5 DEF Next, Step
<1>2. \A j : IsFiniteSet(jobs \ {j}) /\ IsFiniteSet(jobs \cup {j})
  BY FS_RemoveElement, FS_AddElement DEF Finite
<1>3. \A i, j : IsFiniteSet((jobs \ {j}) \cup {i})
  BY <1>2, FS_AddElement
<1>4. CASE UNCHANGED jobs
  BY <1>4 DEF Finite
<1>5. CASE \E j : jobs' = jobs \ {j}
  BY <1>2, <1>5
<1>6. CASE \E j : jobs' = jobs \cup {j}
  BY <1>2, <1>6
<1>7. CASE \E i, j : jobs' = (jobs \ {j}) \cup {i}
  BY <1>3, <1>7
<1> QED BY <1>1, <1>4, <1>5, <1>6, <1>7

-----------------------------------------------------------------------------
(* Every action keeps the tasks within the names of its place.              *)
LEMMA ListedStep ==
  ASSUME {"both", "recorded"} \cap Windows = {}
  PROVE  TypeOK /\ Shape /\ Rows /\ Turns /\ Callings /\ Proper /\ Finite /\ Recording /\ Links /\ Listed
         /\ [Next]_vars => Listed'
<1> SUFFICES ASSUME TypeOK, Shape, Rows, Turns, Callings, Proper, Finite,
                    Recording, Links, Listed, [Next]_vars PROVE Listed'
  OBVIOUS
<1>p. /\ RecordType /\ OpType /\ ProcType /\ AskedType /\ Known /\ Placed /\ LinkType /\ JobsType
  BY Parts DEF Shape
<1>r. /\ proc = [pc |-> proc.pc, ret |-> proc.ret, was |-> proc.was, old |-> proc.old,
               err |-> proc.err]
      /\ op = [kind |-> op.kind, to |-> op.to, from |-> op.from, repl |-> op.repl,
               step |-> op.step, st |-> op.st, choices |-> op.choices, off |-> op.off,
               conf |-> op.conf]
      /\ record = [rel |-> record.rel, prev |-> record.prev]
  BY Parts DEF ProcType, OpType, OpRow, RecordType
<1>j. UNCHANGED <<record, link, stage, jobs, op>> => (AllIn' <=> AllIn)
  BY Unjudged
<1>t. /\ proc.pc \in {"clear", "prepare", "rollback"} => op.step = 0
      /\ \/ proc.pc \in {"clear", "prepare", "switch", "back", "drop", "clean", "rollback",
                        "swap", "pointback", "outcome"}
         \/ proc.ret \in {"install", "rollback", "undo"}
         => /\ op.choices = None /\ op.st = "running"
            /\ proc.pc \notin {"record", "done"} => record.rel = BegunOn
      /\ \/ proc.pc \in {"use", "uselink", "go", "golink", "goclear"}
         \/ proc.ret \in {"use", "goback"}
         => op.choices = "switch" /\ op.step = 1
      /\ proc.pc \in {"switch", "back", "clean", "record", "landed", "done", "swap", "pointback"}
         => op.step = 1
      /\ proc.pc \in {"landed", "done"} => record.rel = op.to
  BY <1>p DEF Rows, Turns, Callings, RunsAt, Running, ChosenAt, TurnedAt, Switching
<1>a. /\ Active => To \in Apps /\ op.to \in Releases /\ App(op.to) = To
      /\ Active /\ op.repl # None => /\ App(op.repl) \in Apps /\ App(op.repl) # To
                                     /\ op.from = None /\ op.kind # "rollback"
      /\ Active /\ op.from # None => App(op.from) = To
      /\ Active => record.rel \in {op.to, BegunOn}
      /\ Active /\ op.step = 0 => record.rel = BegunOn
      /\ proc.pc \notin {"idle", "stopping"} => Active
  BY <1>p, AppType DEF Rows, OpType, OpRow, Maybe, Known, Placed, To
<1>l. \A r : LinkTo(r) /\ To \in Apps =>
        link'[To] = r /\ \A b \in Apps : b # To => link'[b] = link[b]
  BY <1>p DEF LinkTo, LinkType
<1>i. Idle.pc = "idle" /\ Idle.ret = None /\ Idle.err = None /\ Idle.old = {}
  BY DEF Idle
<1>o. op'.to = op.to /\ op'.from = op.from /\ op'.repl = op.repl =>
        /\ OldTasks' = OldTasks /\ NewTasks' = NewTasks /\ KeptTasks' = KeptTasks
        /\ BegunOn' = BegunOn /\ To' = To
  BY SameNames
<1>k. /\ KeptTasks \subseteq OldTasks /\ (op.repl = None => KeptTasks = OldTasks)
      /\ op.repl # None => KeptTasks = {}
      /\ record.rel = BegunOn => Tasks(record.rel) = OldTasks
      /\ record.rel = op.to => Tasks(record.rel) = NewTasks
      /\ record.rel = None => Tasks(record.rel) = {}
      /\ BegunOn = op.to => OldTasks = NewTasks
  BY TheNames
<1>s. UNCHANGED <<record, op>> /\ proc'.ret = proc.ret /\ proc'.was = proc.was =>
        SyncTo' = SyncTo /\ SyncFrom' = SyncFrom
  BY SameSync
<1>n. Active /\ Tasking(Callers) =>
         /\ proc.ret \in {"install", "rollback", "use"} => SyncTo = NewTasks
         /\ proc.ret \in {"undo", "early", "choice"} => SyncTo = OldTasks /\ SyncFrom = {}
         /\ proc.ret = "goback" => SyncTo = Tasks(record.rel)
         /\ proc.ret \in {"use", "goback"} =>
              /\ SyncTo \cup SyncFrom \subseteq OldTasks \cup NewTasks
              /\ op.repl # None => SyncFrom = {} /\ record.rel = op.repl
         /\ proc.ret \in {"install", "rollback"} /\ op.repl = None /\ op.from # None => SyncFrom = OldTasks
  BY SyncNames
<1>c. /\ proc.ret \in Callers
      /\ Tasking(Callers) => proc.ret # None
      /\ proc.ret \in {"undo", "early", "choice"} =>
           op.repl # None /\ record.rel = op.repl /\ record.rel = BegunOn
      /\ proc.pc = "check" => proc.ret \in {"undo", "early", "choice"}
      /\ proc.ret = "choice" => op.choices = "tasks"
      /\ proc.pc = "stopping" => ~Active
      /\ op.choices = "tasks" => op.st = "held"
  BY <1>p DEF Turns, Callings, BegunOn, ProcType, Rows, None
<1>w. \A K, N, E : K \subseteq jobs /\ doubt \subseteq E /\ Within(jobs, N, doubt) => Within(K, N, E)
  BY WithinLess
<1>v. /\ Within(jobs, KeptTasks, doubt) => Within(jobs, OldTasks, doubt)
      /\ Within(proc.old, KeptTasks, doubt) => Within(proc.old, OldTasks, doubt)
  BY <1>k, WithinLess
<1> USE <1>p, <1>r, <1>t, <1>a, <1>i, <1>o, <1>k, <1>s DEF Listed, Spread, Turned, Synching,
     Recording, Links, Tasking, Active, None, Switching
<1>1. CASE \E kind \in {"install", "update"}, r \in Releases : Ask(kind, r)
  BY <1>1 DEF Ask, Free, Request, live, past
<1>2. CASE \E kind \in {"install", "update"}, r \in Releases : Change(kind, r)
  BY <1>2, BegunListed DEF Change, Free, live, past
<1>3. CASE RollBack
  <2>1. record.prev \in Releases
    BY <1>3, AppType DEF RollBack, RecordType, Maybe
  <2> QED BY <1>3, <2>1, BegunListed DEF RollBack, Change, Free, live, past
<1>4. CASE Fetched
  BY <1>4, BegunListed DEF Fetched, AsItWas, Free, Known, Rows, live, past
<1>5. CASE Refused
  BY <1>5 DEF Refused, live, past
<1>6. CASE StopApp
  BY <1>6 DEF StopApp, At, Free, Nothing, live, past
<1>7. CASE \E j \in jobs : Toggle(j)
  <2>1. PICK j \in jobs : Toggle(j)
    BY <1>7
  <2>2. LET i == [j EXCEPT !.on = ~@] IN i.name = j.name /\ i.rel = j.rel
    BY <2>1 DEF JobsType, Task
  <2>3. UNCHANGED <<record, op, doubt, link>> /\ ~Active
    BY <2>1 DEF Toggle, Free, live
  <2>4. Within(jobs, Tasks(record.rel), doubt) => Within(jobs', Tasks(record.rel), doubt)
    BY <2>1, <2>2 DEF Toggle, Within
  <2> QED BY <2>3, <2>4
<1>8. CASE Choose
  <2>1. UNCHANGED <<record, link, stage, jobs, doubt>> /\ proc = Idle
    BY <1>8 DEF Choose, TheRow, live, past
  <2>2. CASE /\ op' = op /\ proc'.pc = "go" /\ proc'.ret = None
            /\ op.choices = "switch" /\ op.st = "held"
    BY <2>1, <2>2
  <2>5. CASE /\ op' = op /\ proc'.pc = "use" /\ proc'.ret = None
            /\ op.choices = "switch" /\ op.st = "held" /\ ~BothRun
    <3>1. op.repl # None /\ record.rel = op.repl /\ Within(jobs, OldTasks, doubt) =>
            Within(jobs, NewTasks, doubt)
      BY <2>5 DEF BothRun, OldTasks, BegunOn, Named, Within
    <3> QED BY <2>1, <2>5, <3>1
  <2>3. CASE Undo("choice") /\ op' = op /\ op.st = "held" /\ op.choices = "tasks"
    <3>1. /\ proc'.pc = "list" /\ proc'.ret = "choice" /\ op.repl # None /\ record.rel = op.repl
          /\ Within(jobs, OldTasks, doubt)
      BY <2>1, <2>3, Undoings
    <3>2. SyncTo' = OldTasks /\ SyncFrom' = {}
      BY <2>1, <2>3, <3>1 DEF SyncTo, SyncFrom, Sync, OldTasks, BegunOn, Tasks
    <3> QED BY <2>1, <2>3, <3>1, <3>2
  <2>4. CASE Decide /\ (op.st = "interrupted" \/ (op.st = "held" /\ op.choices = "retry"))
    <3>0. op.choices \notin {"tasks", "switch"}
      BY <2>1, <2>4 DEF Rows
    <3>1. CASE /\ proc' = [Idle EXCEPT !.pc = "landed"] /\ op' = op
               /\ op.step = Switching /\ AllIn
      <4>1. record.rel = op.to
        BY <2>4, <3>1, AppType DEF AllIn, Recorded
      <4>2. proc'.pc = "landed" /\ proc'.ret = None
        BY <3>1
      <4> QED BY <2>1, <2>4, <3>0, <3>1, <4>1, <4>2
    <3>2. CASE Held("switch") /\ proc' = proc /\ op.step = Switching
      <4>1. /\ op'.to = op.to /\ op'.from = op.from /\ op'.repl = op.repl /\ op'.step = op.step
            /\ op'.st = "held" /\ op'.choices = "switch" /\ proc' = Idle
        BY <2>1, <3>2, Holds
      <4> QED BY <2>1, <2>4, <3>0, <3>2, <4>1
    <3>3. CASE Undo("early") /\ op' = op /\ (op.step = Switching => NotYet /\ ~AllIn)
      <4>1. record.rel = BegunOn /\ Within(jobs, OldTasks, doubt)
        <5>1. CASE op.step = 0
          BY <2>4, <5>1
        <5>2. CASE op.step = 1
          BY <2>4, <3>0, <3>3, <5>2, NotYetNames DEF Listed, Spread
        <5> QED BY <5>1, <5>2 DEF OpType, OpRow
      <4>2. CASE /\ op.repl # None /\ record.rel = op.repl
                 /\ proc'.pc = "list" /\ proc'.ret = "early" /\ proc'.err = None
        <5>1. SyncTo' = OldTasks /\ SyncFrom' = {}
          BY <2>1, <3>3, <4>1, <4>2 DEF SyncTo, SyncFrom, Sync, OldTasks, Tasks
        <5> QED BY <2>1, <2>4, <3>0, <3>3, <4>1, <4>2, <5>1
      <4>3. CASE proc'.pc = "gone" /\ proc'.ret = None
        BY <2>1, <2>4, <3>0, <3>3, <4>1, <4>3
      <4> QED BY <3>3, <4>2, <4>3, Undoings
    <3>4. CASE Held("retry") /\ proc' = proc
      <4>1. /\ op'.to = op.to /\ op'.from = op.from /\ op'.repl = op.repl /\ op'.step = op.step
            /\ op'.st = "held" /\ op'.choices = "retry" /\ proc' = Idle
        BY <2>1, <3>4, Holds
      <4> QED BY <2>1, <2>4, <3>0, <4>1
    <3> QED BY <2>4, <3>1, <3>2, <3>3, <3>4, Decisions
  <2> QED BY <1>8, <2>2, <2>3, <2>4, <2>5 DEF Choose, Choose, UseNew, GoBack, PutTasksBack, Resume
<1>9. CASE Cleared
  <2>1. UNCHANGED <<record, link, op, jobs, doubt>> /\ Named(Tasks(Leaving)) = {}
    BY <1>9 DEF Cleared, Nothing, live, past
  <2>2. CASE proc.pc = "clear" /\ At("prepare")
    <3>1. op.repl # None /\ Tasks(Leaving) = OldTasks
      BY <2>2 DEF Callings, Leaving, OldTasks, BegunOn
    <3>2. Within(jobs, {}, doubt)
      BY <2>1, <2>2, <3>1 DEF Within, Named
    <3> QED BY <2>1, <2>2, <3>1, <3>2, <1>s DEF At
  <2>3. CASE proc.pc = "goclear" /\ proc' = [proc EXCEPT !.ret = "goback",
                                        !.pc = IF record.rel = None THEN "gone" ELSE "list"]
    <3>1. Tasks(Leaving) = NewTasks
      BY <2>3 DEF Leaving, NewTasks
    <3>2. Within(jobs, NewTasks, doubt) => Within(jobs, {}, doubt)
      BY <2>1, <3>1 DEF Within, Named
    <3>3. Within(jobs, OldTasks \cup NewTasks, doubt) => Within(jobs, OldTasks, doubt)
      BY <2>1, <3>1 DEF Within, Named
    <3>4. Within(jobs, OldTasks, doubt)
      BY <2>3, <3>2, <3>3, WithinLess
    <3>5. CASE record.rel = None
      <4>1. OldTasks = {}
        BY <2>3, <3>5 DEF BegunOn, Rows, OldTasks, Tasks
      <4> QED BY <2>1, <2>3, <3>4, <3>5, <4>1
    <3>6. CASE record.rel # None
      <4>1. record.rel = op.repl /\ op.repl # None /\ record.rel = BegunOn
        BY <2>3, <3>6 DEF BegunOn
      <4>2. SyncTo' = OldTasks
        BY <2>1, <2>3, <3>6, <4>1 DEF SyncTo, Sync, OldTasks, BegunOn, Same
      <4>3. Within(jobs, OldTasks \cup SyncFrom', doubt)
        BY <3>4, WithinLess
      <4> QED BY <2>1, <2>3, <3>4, <3>6, <4>1, <4>2, <4>3
    <3> QED BY <3>5, <3>6
  <2> QED BY <1>9, <2>2, <2>3 DEF Cleared
<1>10. CASE NotCleared
  <2>1. UNCHANGED <<record, link, op, jobs>>
    BY <1>10 DEF NotCleared, Nothing, live, past
  <2>2. CASE proc' = Idle /\ proc.pc = "stopping" /\ doubt' = Told(record.rel)
    <3>1. doubt \subseteq doubt' /\ ~Active
      BY <2>2, <1>c DEF Told
    <3>2. Within(jobs, Tasks(record.rel), doubt')
      BY <3>1, <1>w
    <3> QED BY <2>1, <2>2, <3>1, <3>2
  <2>3. CASE proc' = Idle /\ proc.pc = "goclear" /\ UNCHANGED doubt
    BY <2>1, <2>3
  <2>4. CASE proc.pc = "clear" /\ Ends("failed") /\ UNCHANGED doubt
    BY <2>1, <2>4 DEF Ends
  <2> QED BY <1>10, <2>2, <2>3, <2>4 DEF NotCleared, Nothing, past
<1>11. CASE Stopped
  <2>1. UNCHANGED <<jobs, op, link, doubt>> /\ ~Active /\ Named(Tasks(record.rel)) = {}
    BY <1>11, <1>c DEF Stopped, live
  <2>2. Within(jobs, Tasks(record.rel), doubt) => Within(jobs, Tasks(record'.rel), doubt)
    BY <2>1 DEF Within, Named
  <2> QED BY <2>1, <2>2
<1>12. CASE \E j \in jobs : TakeOff(j)
  <2>1. UNCHANGED <<op, record, link, proc, doubt>> /\ jobs' \subseteq jobs
    BY <1>12 DEF TakeOff, TheJobs, live, past
  <2>2. proc.pc \in {"clear", "stopping", "goclear"}
    BY <1>12 DEF TakeOff, Leaving, Tasks, Named
  <2>3. /\ \A N : Within(jobs, N, doubt) => Within(jobs', N, doubt)
        /\ \A N : Within(jobs \ proc.old, N, doubt) => Within(jobs' \ proc.old, N, doubt)
    BY <2>1, WithinLess
  <2> QED BY <2>1, <2>2, <2>3
<1>13. CASE Prepare
  BY <1>13 DEF Prepare, past
<1>14. CASE NotPrepared
  BY <1>14 DEF NotPrepared, TheVolume, past
<1>15. CASE Switch
  <2>1. /\ UNCHANGED <<record, op, jobs, doubt>> /\ proc.pc = "switch" /\ proc'.pc = "list"
        /\ proc'.ret = "install" /\ proc'.was = proc.was /\ link'[To] = op.to
    BY <1>15, <1>l DEF Switch, TheVolume, past
  <2>2. KeptTasks \subseteq SyncTo' \cup SyncFrom'
    <3>1. SyncFrom' = Tasks(proc.was)
      BY <2>1 DEF SyncFrom, Sync
    <3>2. op.repl = None /\ op.from # None => proc.was = op.from
      BY <2>1
    <3> QED BY <3>1, <3>2 DEF KeptTasks, OldTasks, BegunOn, Tasks
  <2>3. Within(jobs, SyncTo' \cup SyncFrom', doubt)
    BY <2>1, <2>2, WithinLess
  <2> QED BY <2>1, <2>3
<1>16. CASE NotSwitched
  <2>1. /\ UNCHANGED <<record, op, jobs, doubt>> /\ proc.pc = "switch" /\ proc'.pc = "back"
        /\ proc'.ret = proc.ret /\ (LinkTo(op.to) \/ UNCHANGED link)
    BY <1>16 DEF NotSwitched, TheVolume, live, past
  <2> QED BY <2>1, <1>l, <1>v
<1>17. CASE PutBack
  <2>1. /\ UNCHANGED <<record, op, jobs, doubt>> /\ proc.pc = "back" /\ proc'.pc = "drop"
        /\ proc'.ret = proc.ret /\ LinkTo(proc.was)
    BY <1>17 DEF PutBack, At, TheVolume, past
  <2> QED BY <2>1, <1>l, <1>v
<1>18. CASE NotPutBack
  <2>1. /\ UNCHANGED <<record, op, jobs, doubt>> /\ proc.pc = "back"
        /\ (link' = link \/ LinkTo(proc.was)) /\ Catch("held")
    BY <1>18 DEF NotPutBack, ClearStaging, TheVolume, past
  <2>2. CASE op.repl = None /\ Ends("held")
    BY <2>1, <2>2, <1>l, <1>v DEF Ends
  <2>3. CASE op.repl # None /\ proc' = [proc EXCEPT !.pc = "list", !.ret = "undo", !.err = "held"]
    <3>1. record.rel = BegunOn
      BY <2>1, <1>t
    <3>2. SyncTo' = OldTasks
      BY <2>1, <2>3, <3>1 DEF SyncTo, Sync, OldTasks
    <3>3. Within(jobs, OldTasks, doubt)
      BY <2>1, <1>v
    <3>4. Within(jobs, (SyncTo \cup SyncFrom)', doubt)
      BY <3>2, <3>3, WithinLess
    <3> QED BY <2>1, <2>3, <3>3, <3>4, <1>l
  <2> QED BY <2>1, <2>2, <2>3 DEF Catch
<1>19. CASE Drop
  <2>1. /\ UNCHANGED <<record, op, jobs, doubt>> /\ proc.pc = "drop"
        /\ (link' = link \/ LinkTo(proc.was)) /\ Catch(proc.err)
    BY <1>19 DEF Drop, ClearStaging, TheVolume, past
  <2>2. CASE op.repl = None /\ Ends(proc.err)
    BY <2>1, <2>2, <1>l, <1>v DEF Ends
  <2>3. CASE op.repl # None /\ proc' = [proc EXCEPT !.pc = "list", !.ret = "undo", !.err = proc.err]
    <3>1. record.rel = BegunOn
      BY <2>1, <1>t
    <3>2. SyncTo' = OldTasks
      BY <2>1, <2>3, <3>1 DEF SyncTo, Sync, OldTasks
    <3>3. Within(jobs, OldTasks, doubt)
      BY <2>1, <1>v
    <3>4. Within(jobs, (SyncTo \cup SyncFrom)', doubt)
      BY <3>2, <3>3, WithinLess
    <3>5. proc'.pc = "list" /\ proc'.ret = "undo" /\ proc'.err = proc.err
      BY <2>3
    <3>6. UNCHANGED <<record, op, jobs, doubt, link>>
      BY <1>19 DEF Drop, ClearStaging, TheVolume, past
    <3>7. OldTasks' = OldTasks /\ NewTasks' = NewTasks /\ BegunOn' = BegunOn /\ To' = To
      BY <3>6, <1>o
    <3>8. Spread'
      BY <2>1, <3>3, <3>5, <3>6, <3>7, <1>t, <1>a DEF Spread
    <3>9. Turned' /\ Synching'
      BY <2>1, <2>3, <3>4, <3>5, <3>6, <3>7, <1>t
    <3> QED BY <3>8, <3>9, <2>1
  <2> QED BY <2>1, <2>2, <2>3 DEF Catch
<1>20. CASE Outcome
  <2>1. UNCHANGED <<record, link, jobs, doubt>> /\ proc.pc = "outcome" /\ proc' = Idle
    BY <1>20 DEF Outcome, TheRow, live, past
  <2>2. CASE proc.err = "held" /\ Held("switch")
    <3>1. op.step = 1
      BY <2>1, <2>2 DEF Shape, Said, Turning
    <3>2. /\ op'.to = op.to /\ op'.from = op.from /\ op'.repl = op.repl /\ op'.step = op.step
          /\ op'.st = "held" /\ op'.choices = "switch"
      BY <2>2, Holds
    <3>3. OldTasks' = OldTasks /\ NewTasks' = NewTasks /\ BegunOn' = BegunOn /\ To' = To
      BY <3>2, <1>o
    <3>4. Spread'
      BY <2>1, <3>1, <3>2, <3>3, <1>i DEF Spread
    <3>5. Turned' /\ Synching'
      BY <2>1, <1>i
    <3> QED BY <3>2, <3>4, <3>5
  <2>3. CASE proc.err = "failed" /\ Over
    <3>1. Within(jobs, Tasks(record.rel), doubt)
      BY <2>1, <2>3
    <3>2. ~Active'
      BY <2>3 DEF Over
    <3> QED BY <2>1, <3>1, <3>2
  <2> QED BY <1>20, <2>2, <2>3 DEF Outcome, Callings, ProcType
<1>21. CASE List
  <2>1. /\ UNCHANGED <<record, link, jobs, op, doubt>> /\ proc.pc = "list" /\ proc'.pc = "sync"
        /\ proc'.ret = proc.ret /\ proc'.was = proc.was /\ proc'.old = Ours
    BY <1>21 DEF List, Nothing, live, past
  <2>2. Ours = Named(SyncTo \cup SyncFrom)
    BY DEF Ours, SyncTo, SyncFrom
  <2>3. Within(jobs \ Ours, SyncTo, doubt) /\ Within(Ours, SyncTo \cup SyncFrom, doubt)
    BY <2>1, <2>2 DEF Within, Named
  <2>4. proc.ret \in {"install", "rollback"} => Within(Ours, KeptTasks, doubt)
    BY <2>1, <2>2 DEF Within, Named
  <2> QED BY <2>1, <2>3, <2>4
<1>22. CASE NotListed
  <2>1. /\ UNCHANGED <<record, link, jobs, op>> /\ proc.pc \in {"list", "undo", "readd"}
        /\ SyncFails(proc.pc # "list") /\ Active
    BY <1>22 DEF NotListed, SyncFails, live
  <2>2. /\ proc'.old = {} /\ proc'.pc \in {"idle", "back", "pointback", "check"}
        /\ proc'.pc = "back" => proc.ret = "install"
        /\ proc'.pc = "pointback" => proc.ret = "rollback"
        /\ proc'.pc = "check" =>
             proc'.ret = proc.ret /\ proc.ret \notin {"use", "goback", "install", "rollback"}
        /\ proc'.pc = "idle" => proc'.ret = None /\ proc.ret \in {"use", "goback"}
    BY <2>1, Failings
  <2>0. proc.ret \in Callers /\ proc.ret # None
    BY <2>1, <1>c
  <2>3. CASE proc.pc # "list" /\ proc.ret \notin Quiet
    <3>1. \A N : Within(jobs, N, Told(Sync.m))
      BY <2>1, <2>3, AllDoubted
    <3> QED BY <2>1, <2>2, <2>3, <3>1 DEF SyncFails
  <2>4. CASE proc.pc = "list"
    BY <2>0, <2>1, <2>2, <2>4 DEF SyncFails, Callers
  <2>5. CASE proc.ret \in Quiet
    BY <2>1, <2>2, <2>5 DEF SyncFails, Quiet
  <2> QED BY <2>3, <2>4, <2>5
<1>23. CASE NotSynced
  BY <1>23 DEF NotSynced, At, Nothing, live, past
<1>24. CASE Synced
  <2>1. /\ UNCHANGED <<record, link, jobs, op, doubt>> /\ proc.pc = "sync" /\ proc.old \cap jobs = {}
        /\ proc'.ret = proc.ret
        /\ proc'.pc \in {"clean", "record", "gone", "check"}
        /\ proc'.pc = "clean" => proc.ret = "install"
        /\ proc'.pc = "record" => proc.ret \in {"rollback", "use"}
        /\ proc'.pc = "gone" => proc.ret = "goback"
    BY <1>24 DEF Synced, Nothing, live, past
  <2>2. jobs \ proc.old = jobs
    BY <2>1
  <2>3. Within(jobs, SyncTo, doubt)
    BY <2>1, <2>2
  <2>4. Tasking(Callers)
    BY <2>1, <1>c
  <2> QED BY <2>1, <2>3, <2>4, <1>n
<1>25. CASE \E n \in Names : Add(n)
  <2>1. PICK n \in Names : Add(n)
    BY <1>25
  <2>2. /\ n \in SyncTo /\ Room(n, Sync.m, ~OffBefore(n))
        /\ jobs' = jobs \cup {Another(n, Sync.m, ~OffBefore(n))}
        /\ UNCHANGED <<record, link, op, doubt>> /\ proc'.old = proc.old /\ proc'.ret = proc.ret
        /\ proc'.was = proc.was /\ proc.pc = "sync" /\ proc'.pc \in {"sync", "undo"}
    BY <2>1 DEF Add, Answered, At, TheJobs, live, past, SyncTo
  <2>3. PICK j : j.name \in SyncTo /\ jobs' = jobs \cup {j}
    BY <2>2 DEF Another, Room, Job
  <2>4. Within(jobs' \ proc.old, SyncTo, doubt)
    BY <2>2, <2>3 DEF Within
  <2>5. Within(jobs', SyncTo \cup SyncFrom, doubt)
    BY <2>2, <2>4 DEF Within
  <2>6. proc.ret \in {"install", "rollback"} => Within(jobs', SyncTo \cup KeptTasks, doubt)
    BY <2>2, <2>4 DEF Within
  <2>7. proc.ret \in {"install", "rollback"} => link[To] = op.to
    BY <2>2 DEF Shape, Linked, Pointing
  <2>8. /\ \/ Within(jobs', OldTasks, doubt) \/ Within(jobs', NewTasks, doubt)
           \/ op.repl = None /\ Within(jobs', OldTasks \cup NewTasks, doubt)
        /\ record.rel = op.to => Within(jobs', NewTasks, doubt)
        /\ op.step = 0 \/ op.choices = "tasks" \/ proc.ret \in {"undo", "early", "choice"} =>
              Within(jobs', OldTasks, doubt)
        /\ op.repl # None /\ record.rel = op.repl =>
              /\ proc.ret = "use" => Within(jobs', NewTasks, doubt)
              /\ proc.ret = "goback" => Within(jobs', OldTasks, doubt)
    BY <2>2, <2>5, <2>6, SyncedSets
  <2>9. op.from = None /\ op.choices # "switch" /\ link[To] # op.to => Within(jobs', OldTasks, doubt)
    BY <2>2, <2>7, <2>8, <1>c DEF Callers
  <2> QED BY <2>2, <2>4, <2>5, <2>8, <2>9
<1>26. CASE \E j \in jobs : Remove(j)
  <2>1. UNCHANGED <<record, link, op, doubt>> /\ proc'.old = proc.old /\ proc'.ret = proc.ret
        /\ proc'.was = proc.was /\ proc.pc \in {"sync", "undo"} /\ proc'.pc \in {"sync", "undo"}
        /\ jobs' \subseteq jobs
    BY <1>26 DEF Remove, Answered, At, TheJobs, live, past
  <2>2. /\ \A N : Within(jobs, N, doubt) => Within(jobs', N, doubt)
        /\ \A N : Within(jobs \ proc.old, N, doubt) => Within(jobs' \ proc.old, N, doubt)
    BY <2>1, WithinLess
  <2> QED BY <2>1, <2>2
<1>27. CASE \E j \in jobs : UndoAdd(j)
  <2>1. UNCHANGED <<record, link, op, doubt>> /\ proc'.old = proc.old /\ proc'.ret = proc.ret
        /\ proc'.was = proc.was /\ proc.pc \in {"sync", "undo"} /\ proc'.pc \in {"sync", "undo"}
        /\ jobs' \subseteq jobs
    BY <1>27 DEF UndoAdd, Answered, At, TheJobs, live, past
  <2>2. /\ \A N : Within(jobs, N, doubt) => Within(jobs', N, doubt)
        /\ \A N : Within(jobs \ proc.old, N, doubt) => Within(jobs' \ proc.old, N, doubt)
    BY <2>1, WithinLess
  <2> QED BY <2>1, <2>2
<1>28. CASE Undone
  BY <1>28 DEF Undone, At, Nothing, live, past
<1>29. CASE \E j \in proc.old : Readd(j)
  <2>1. PICK j \in proc.old : Readd(j)
    BY <1>29
  <2>2. /\ j \notin jobs /\ j.name \in SyncFrom /\ Room(j.name, Sync.prev, WasOn(j))
        /\ UNCHANGED <<record, link, op, doubt>> /\ proc'.ret = proc.ret
        /\ proc'.was = proc.was /\ proc.pc = "readd" /\ proc'.pc = "readd"
    BY <2>1 DEF Readd, ToReadd, Gone, TheJobs, live, past, SyncFrom
  <2>3. PICK again : /\ again.name = j.name /\ again.rel = Sync.prev
                     /\ jobs' = jobs \cup {again} /\ proc'.old = (proc.old \ {j}) \cup {again}
    BY <2>1, <2>2 DEF Readd, Another, Room, Job
  <2>4. App(again.rel) = App(j.rel)
    <3>1. j.name \in Tasks(j.rel) /\ j.name \in Tasks(again.rel)
      BY <2>2, <2>3 DEF Proper, SyncFrom
    <3>2. j.rel \in Releases /\ again.rel \in Releases
      <4>1. again.rel \in Maybe
        BY <2>3 DEF Sync, TypeOK, OpRow, Maybe
      <4> QED BY <3>1, <4>1, TasksType DEF TypeOK, Task
    <3> QED BY <3>1, <3>2, AppType, ReleasesAssumption DEF Tasks
  <2>5. \A N : Within(proc.old, N, doubt) => Within({again}, N, doubt)
    BY <2>3, <2>4 DEF Within
  <2>6. \A N : Within(proc.old, N, doubt) => Within(proc'.old, N, doubt)
    BY <2>3, <2>5 DEF Within
  <2>7. Within(jobs' \ proc'.old, SyncTo, doubt)
    BY <2>2, <2>3 DEF Within
  <2>8. Within(jobs', SyncTo \cup SyncFrom, doubt)
    BY <2>2, <2>3, <2>6, <2>7 DEF Within
  <2>9. proc.ret \in {"install", "rollback"} => Within(jobs', SyncTo \cup KeptTasks, doubt)
    BY <2>2, <2>3, <2>6, <2>7 DEF Within
  <2>10. /\ \/ Within(jobs', OldTasks, doubt) \/ Within(jobs', NewTasks, doubt)
            \/ op.repl = None /\ Within(jobs', OldTasks \cup NewTasks, doubt)
         /\ record.rel = op.to => Within(jobs', NewTasks, doubt)
         /\ op.step = 0 \/ op.choices = "tasks" \/ proc.ret \in {"undo", "early", "choice"} =>
               Within(jobs', OldTasks, doubt)
         /\ op.repl # None /\ record.rel = op.repl =>
               /\ proc.ret = "use" => Within(jobs', NewTasks, doubt)
               /\ proc.ret = "goback" => Within(jobs', OldTasks, doubt)
    BY <2>2, <2>8, <2>9, SyncedSets
  <2>11. op.from = None /\ op.choices # "switch" /\ link[To] # op.to => Within(jobs', OldTasks, doubt)
    <3>1. CASE proc.ret \in {"install", "rollback"} /\ op.from = None
      <4>1. KeptTasks = {}
        BY <3>1 DEF KeptTasks, OldTasks, BegunOn, Tasks
      <4>2. Within(proc.old, OldTasks, doubt)
        BY <2>2, <3>1, <1>v
      <4> QED BY <2>2, <2>3, <2>5, <4>2 DEF Within
    <3>2. CASE proc.ret \in {"use", "goback"}
      BY <3>2, <1>t
    <3>3. CASE proc.ret \in {"undo", "early", "choice"}
      BY <2>10, <3>3
    <3> QED BY <2>2, <3>1, <3>2, <3>3, <1>c DEF Callers
  <2>12. SyncTo' = SyncTo /\ SyncFrom' = SyncFrom
    BY <2>2
  <2>13. Synching'
    BY <2>2, <2>6, <2>7, <2>8, <2>12
  <2>14. Spread'
    BY <2>2, <2>10, <2>11
  <2>15. Turned'
    BY <2>2, <2>10
  <2> QED BY <2>2, <2>13, <2>14, <2>15
<1>30. CASE Readded
  <2>1. /\ UNCHANGED <<record, link, jobs, op>> /\ proc.pc \in {"readd"}
        /\ SyncFails(New # {} \/ Gone # {}) /\ Active
    BY <1>30 DEF Readded, SyncFails, live
  <2>2. /\ proc'.old = {} /\ proc'.pc \in {"idle", "back", "pointback", "check"}
        /\ proc'.pc = "back" => proc.ret = "install"
        /\ proc'.pc = "pointback" => proc.ret = "rollback"
        /\ proc'.pc = "check" =>
             proc'.ret = proc.ret /\ proc.ret \notin {"use", "goback", "install", "rollback"}
        /\ proc'.pc = "idle" => proc'.ret = None /\ proc.ret \in {"use", "goback"}
    BY <2>1, Failings
  <2>0. proc.ret \in Callers /\ proc.ret # None
    BY <2>1, <1>c
  <2>3. CASE (New # {} \/ Gone # {}) /\ proc.ret \notin Quiet
    <3>1. \A N : Within(jobs, N, Told(Sync.m))
      BY <2>1, <2>3, AllDoubted
    <3> QED BY <2>1, <2>2, <2>3, <3>1 DEF SyncFails
  <2>4. CASE ~(New # {} \/ Gone # {})
    <3>1. Within(jobs \ proc.old, {}, doubt)
      <4>1. \A j \in jobs : j.name \in SyncTo => j \in proc.old
        BY <2>4 DEF New, Ours, Named, SyncTo
      <4> QED BY <2>1, <4>1 DEF Within
    <3>2. proc.ret \in {"install", "rollback"} => Within(jobs, KeptTasks, doubt)
      BY <2>1, <3>1 DEF Within
    <3> QED BY <2>0, <2>1, <2>2, <2>4, <3>2 DEF SyncFails, Callers
  <2>5. CASE proc.ret \in Quiet
    BY <2>1, <2>2, <2>5 DEF SyncFails, Quiet
  <2> QED BY <2>3, <2>4, <2>5
<1>31. CASE Check
  <2>1. /\ UNCHANGED <<record, link, jobs>> /\ proc.pc = "check" /\ Active
        /\ proc.ret \in {"undo", "early", "choice"} /\ doubt \subseteq doubt'
    BY <1>31 DEF Check, live, Callings, Told
  <2>0. op.repl # None /\ record.rel = op.repl /\ record.rel = BegunOn
    BY <2>1, <1>c
  <2>6. Within(jobs, OldTasks, doubt') /\ (record.rel = op.to => Within(jobs, NewTasks, doubt'))
    BY <2>1, <1>w
  <2>2. CASE op' = op /\ proc.ret = "undo" /\ At("outcome")
    BY <2>0, <2>1, <2>2, <2>6 DEF At
  <2>3. CASE op' = op /\ At("gone") /\ proc.ret # "undo"
    BY <2>0, <2>1, <2>3, <2>6 DEF At
  <2>4. CASE op' = op /\ proc' = Idle /\ proc.ret = "choice"
    BY <2>0, <2>1, <2>4, <2>6
  <2>5. CASE proc' = Idle /\ Held("tasks") /\ proc.ret = "early"
    BY <2>0, <2>1, <2>5, <2>6, Holds
  <2> QED BY <1>31, <2>1, <2>2, <2>3, <2>4, <2>5 DEF Check
<1>32. CASE Rollback
  <2>1. /\ UNCHANGED <<record, link, jobs, doubt>> /\ proc.pc = "rollback" /\ proc'.pc = "swap"
        /\ proc'.ret = proc.ret /\ op'.to = op.to /\ op'.from = op.from /\ op'.repl = op.repl
        /\ op'.step = 1 /\ op'.choices = op.choices /\ op.choices = None /\ op.kind = "rollback"
    BY <1>32 DEF Rollback, TheRow, live, past, Callings
  <2>2. op.repl = None /\ Within(jobs, OldTasks, doubt)
    BY <2>1
  <2> QED BY <2>1, <2>2
<1>33. CASE Swap
  <2>1. UNCHANGED <<record, op, jobs, doubt>> /\ proc.pc = "swap"
    BY <1>33 DEF Swap, Pointed, Nothing, TheVolume, past
  <2>0. Within(jobs, KeptTasks, doubt) /\ Within(jobs, OldTasks, doubt) /\ record.rel = BegunOn
    BY <2>1, <1>v
  <2>2. CASE (LinkTo(op.to) \/ UNCHANGED link) /\ Sets("rollback")
    <3>1. SyncFrom' = OldTasks
      BY <2>0, <2>1, <2>2 DEF Sets, SyncFrom, Sync, OldTasks
    <3>2. Within(jobs, (SyncTo \cup SyncFrom)', doubt)
      BY <2>0, <3>1, WithinLess
    <3> QED BY <2>0, <2>1, <2>2, <3>2, <1>l DEF Sets
  <2>3. CASE (LinkTo(op.to) \/ UNCHANGED link) /\ Ends("held")
    BY <2>0, <2>1, <2>3, <1>l DEF Ends
  <2>4. CASE UNCHANGED link /\ Ends("failed")
    BY <2>0, <2>1, <2>4 DEF Ends
  <2> QED BY <1>33, <2>2, <2>3, <2>4 DEF Swap, Pointed, Nothing, live
<1>34. CASE PointBack
  <2>1. /\ UNCHANGED <<record, op, jobs, doubt>> /\ proc.pc = "pointback"
        /\ (LinkTo(proc.was) \/ UNCHANGED link)
        /\ proc'.pc = "outcome" /\ proc'.ret = proc.ret
    BY <1>34 DEF PointBack, Pointed, Ends, TheVolume, past
  <2> QED BY <2>1, <1>l, <1>v
<1>35. CASE UseConfig
  BY <1>35 DEF UseConfig, At, TheVolume, past
<1>36. CASE UseLink
  <2>1. /\ UNCHANGED <<record, op, jobs, doubt>> /\ proc.pc = "uselink"
        /\ op.choices = "switch" /\ op.step = 1
    BY <1>36 DEF UseLink, Pointed, TheVolume, past
  <2>2. CASE Sets("use")
    <3>1. SyncTo' = NewTasks /\ SyncFrom' = IF Same(record.rel) THEN Tasks(record.rel) ELSE {}
      BY <2>1, <2>2 DEF Sets, SyncTo, SyncFrom, Sync, NewTasks, Tasks, Same, To
    <3>2. Within(jobs, NewTasks, doubt)
          \/ (Within(jobs, OldTasks \cup NewTasks, doubt) /\ OldTasks \subseteq SyncFrom')
      <4>1. CASE op.repl # None \/ record.rel = op.to
        BY <2>1, <4>1 DEF BegunOn
      <4>2. CASE op.repl = None /\ record.rel # op.to
        <5>1. record.rel = op.from /\ record.rel = BegunOn
          BY <2>1, <4>2 DEF BegunOn
        <5>2. record.rel # None => SyncFrom' = OldTasks
          BY <2>1, <3>1, <5>1 DEF Same
        <5>3. record.rel = None => OldTasks = {}
          BY <5>1
        <5>4. Within(jobs, OldTasks \cup NewTasks, doubt)
          BY <2>1, WithinLess
        <5> QED BY <5>2, <5>3, <5>4
      <4> QED BY <4>1, <4>2
    <3>3. Within(jobs, (SyncTo \cup SyncFrom)', doubt)
      BY <3>1, <3>2, WithinLess
    <3> QED BY <2>1, <2>2, <3>3 DEF Sets
  <2>3. CASE proc' = Idle
    BY <2>1, <2>3
  <2> QED BY <1>36, <2>2, <2>3 DEF UseLink, Pointed
<1>37. CASE GoConfig
  BY <1>37 DEF GoConfig, At, TheVolume, past
<1>38. CASE GoLink
  <2>1. /\ UNCHANGED <<record, op, jobs, doubt>> /\ proc.pc = "golink"
        /\ op.choices = "switch" /\ op.step = 1
    BY <1>38 DEF GoLink, Pointed, TheVolume, past
  <2>2. CASE Sets("goback") /\ Same(record.rel)
    <3>0. record.rel # None /\ (op.repl # None => record.rel = op.to)
      BY <2>1, <2>2, AppType, ReleasesAssumption DEF Same, App, BegunOn, To
    <3>1. SyncTo' = Tasks(record.rel) /\ SyncFrom' = NewTasks
      BY <2>1, <2>2 DEF Sets, SyncTo, SyncFrom, Sync, NewTasks, Same, To
    <3>2. Within(jobs, Tasks(record.rel) \cup NewTasks, doubt)
      <4>1. CASE record.rel = op.to
        BY <2>1, <4>1, WithinLess
      <4>2. CASE record.rel # op.to
        <5>1. Tasks(record.rel) = OldTasks
          BY <2>1, <4>2
        <5> QED BY <2>1, <5>1, WithinLess
      <4> QED BY <4>1, <4>2
    <3> QED BY <2>1, <2>2, <3>0, <3>1, <3>2 DEF Sets
  <2>4. CASE At("goclear") /\ ~Same(record.rel)
    <3>1. record.rel # op.to /\ record.rel = BegunOn
      BY <2>1, <2>4, AppType DEF Same
    <3>2. (op.repl # None /\ record.rel = op.repl) \/ record.rel = None
      BY <2>1, <2>4, <3>1 DEF BegunOn, Same
    <3> QED BY <2>1, <2>4, <3>1, <3>2 DEF At
  <2>3. CASE proc' = Idle
    BY <2>1, <2>3
  <2> QED BY <1>38, <2>2, <2>3, <2>4 DEF GoLink, Pointed
<1>39. CASE Clean
  BY <1>39 DEF Clean, ClearStaging, At, TheVolume, past
<1>40. CASE Record
  BY <1>40 DEF Record, At, Stale, live, past
<1>41. CASE Done
  BY <1>41 DEF Done, Over, live
<1>42. CASE RolledBack
  BY <1>42 DEF RolledBack, Over, TheRow, live, past
<1>43. CASE Resume
  <2>1. UNCHANGED <<record, link, stage, jobs, doubt>> /\ proc = Idle
    BY <1>43 DEF Resume, TheRow, live, past
  <2>2. CASE /\ op' = op /\ proc'.pc = "go" /\ proc'.ret = None
            /\ op.choices = "switch" /\ op.st = "held"
    BY <2>1, <2>2
  <2>5. CASE /\ op' = op /\ proc'.pc = "use" /\ proc'.ret = None
            /\ op.choices = "switch" /\ op.st = "held" /\ ~BothRun
    <3>1. op.repl # None /\ record.rel = op.repl /\ Within(jobs, OldTasks, doubt) =>
            Within(jobs, NewTasks, doubt)
      BY <2>5 DEF BothRun, OldTasks, BegunOn, Named, Within
    <3> QED BY <2>1, <2>5, <3>1
  <2>3. CASE Undo("choice") /\ op' = op /\ op.st = "held" /\ op.choices = "tasks"
    <3>1. /\ proc'.pc = "list" /\ proc'.ret = "choice" /\ op.repl # None /\ record.rel = op.repl
          /\ Within(jobs, OldTasks, doubt)
      BY <2>1, <2>3, Undoings
    <3>2. SyncTo' = OldTasks /\ SyncFrom' = {}
      BY <2>1, <2>3, <3>1 DEF SyncTo, SyncFrom, Sync, OldTasks, BegunOn, Tasks
    <3> QED BY <2>1, <2>3, <3>1, <3>2
  <2>4. CASE Decide /\ (op.st = "interrupted" \/ (op.st = "held" /\ op.choices = "retry"))
    <3>0. op.choices \notin {"tasks", "switch"}
      BY <2>1, <2>4 DEF Rows
    <3>1. CASE /\ proc' = [Idle EXCEPT !.pc = "landed"] /\ op' = op
               /\ op.step = Switching /\ AllIn
      <4>1. record.rel = op.to
        BY <2>4, <3>1, AppType DEF AllIn, Recorded
      <4>2. proc'.pc = "landed" /\ proc'.ret = None
        BY <3>1
      <4> QED BY <2>1, <2>4, <3>0, <3>1, <4>1, <4>2
    <3>2. CASE Held("switch") /\ proc' = proc /\ op.step = Switching
      <4>1. /\ op'.to = op.to /\ op'.from = op.from /\ op'.repl = op.repl /\ op'.step = op.step
            /\ op'.st = "held" /\ op'.choices = "switch" /\ proc' = Idle
        BY <2>1, <3>2, Holds
      <4> QED BY <2>1, <2>4, <3>0, <3>2, <4>1
    <3>3. CASE Undo("early") /\ op' = op /\ (op.step = Switching => NotYet /\ ~AllIn)
      <4>1. record.rel = BegunOn /\ Within(jobs, OldTasks, doubt)
        <5>1. CASE op.step = 0
          BY <2>4, <5>1
        <5>2. CASE op.step = 1
          BY <2>4, <3>0, <3>3, <5>2, NotYetNames DEF Listed, Spread
        <5> QED BY <5>1, <5>2 DEF OpType, OpRow
      <4>2. CASE /\ op.repl # None /\ record.rel = op.repl
                 /\ proc'.pc = "list" /\ proc'.ret = "early" /\ proc'.err = None
        <5>1. SyncTo' = OldTasks /\ SyncFrom' = {}
          BY <2>1, <3>3, <4>1, <4>2 DEF SyncTo, SyncFrom, Sync, OldTasks, Tasks
        <5> QED BY <2>1, <2>4, <3>0, <3>3, <4>1, <4>2, <5>1
      <4>3. CASE proc'.pc = "gone" /\ proc'.ret = None
        BY <2>1, <2>4, <3>0, <3>3, <4>1, <4>3
      <4> QED BY <3>3, <4>2, <4>3, Undoings
    <3>4. CASE Held("retry") /\ proc' = proc
      <4>1. /\ op'.to = op.to /\ op'.from = op.from /\ op'.repl = op.repl /\ op'.step = op.step
            /\ op'.st = "held" /\ op'.choices = "retry" /\ proc' = Idle
        BY <2>1, <3>4, Holds
      <4> QED BY <2>1, <2>4, <3>0, <4>1
    <3> QED BY <2>4, <3>1, <3>2, <3>3, <3>4, Decisions
  <2> QED BY <1>43, <2>2, <2>3, <2>4, <2>5 DEF Resume, Choose, UseNew, GoBack, PutTasksBack, Resume
<1>44. CASE Die
  <2>1. /\ UNCHANGED <<record, link, jobs>> /\ proc' = Idle /\ doubt \subseteq doubt'
        /\ op'.to = op.to /\ op'.kind = op.kind /\ op'.step = op.step /\ op'.repl = op.repl
        /\ op'.from = op.from /\ op'.choices = op.choices /\ (op'.st = "over" <=> op.st = "over")
    BY <1>44 DEF Die, CutOff, Running, live, Told
  <2>2. \A N : Within(jobs, N, doubt) => Within(jobs, N, doubt')
    BY <2>1, <1>w
  <2> QED BY <2>1, <2>2
<1>45. CASE Rest
  BY <1>45 DEF Rest, vars, live, past
<1>46. CASE UNCHANGED vars
  BY <1>46 DEF vars, live, past
<1> QED BY <1>1, <1>2, <1>3, <1>4, <1>5, <1>6, <1>7, <1>8, <1>9, <1>10, <1>11, <1>12,
   <1>13, <1>14, <1>15, <1>16, <1>17, <1>18, <1>19, <1>20, <1>21, <1>22, <1>23, <1>24,
   <1>25, <1>26, <1>27, <1>28, <1>29, <1>30, <1>31, <1>32, <1>33, <1>34, <1>35, <1>36,
   <1>37, <1>38, <1>39, <1>40, <1>41, <1>42, <1>43, <1>44, <1>45, <1>46
       DEF Next, Owner, Step, Removing, Installing, Syncing, Choosing, Ending

-----------------------------------------------------------------------------
(* The invariants hold at first.                                            *)
LEMMA RowsInit == Init => Rows /\ Turns /\ Callings
<1> SUFFICES ASSUME Init PROVE Rows /\ Turns /\ Callings
  OBVIOUS
<1>1. PICK i \in Installed : record = [rel |-> i[1], prev |-> i[2]]
  BY DEF Init
<1>2. record.prev # None => record.rel # None /\ App(record.prev) = App(record.rel)
  <2>1. /\ i \in (Releases \cup {None}) \X (Releases \cup {None})
        /\ i[2] # None => i[1] # None /\ AppOf[i[1]] = AppOf[i[2]]
    BY InstalledAssumption
  <2> QED BY <1>1, <2>1, AppType DEF App
<1>3. /\ asked.kind = None /\ op.choices = None /\ op.step = 0 /\ ~Active
      /\ proc.pc = "idle" /\ proc.ret = None
  BY DEF Init, NotAsked, Active, Idle
<1> QED BY <1>2, <1>3 DEF Rows, Turns, Callings, RunsAt, ChosenAt, ResumedAt, TurnedAt,
                          Tasking, None

(* Where the configuration is, throughout.                                  *)
LEMMA ConfigInvariant ==
  ASSUME {"cleared", "recorded"} \cap Windows = {}
  PROVE  Spec => [](Rows /\ Turns /\ Callings /\ ConfigWhere)
<1> DEFINE I == TypeOK /\ Shape /\ Rows /\ Turns /\ Callings /\ ConfigWhere
<1>1. Init => I
  <2>1. Init => ConfigWhere
    BY DEF Init, ConfigWhere, Active
  <2> QED BY <2>1, InitShape, RowsInit
<1>2. I /\ [Next]_vars => I'
  BY TypeStep, ShapeStep, RowsStep, TurnsStep, CallingsStep, ConfigStep DEF Shape
<1> QED BY <1>1, <1>2, PTL DEF Spec

(* A change that failed, that a restart rolled back, or that its owner went *)
(* back from leaves the configuration as the last change that held wrote it *)
(* (apps.ts, installRelease and its catch; appOperations.ts, the restart    *)
(* rule, useNew, goBack), but for a death in the windows "cleared" and      *)
(* "recorded".                                                              *)
THEOREM ConfigKeptByAll ==
  ASSUME {"cleared", "recorded"} \cap Windows = {}
  PROVE  Spec => []ConfigKept
<1>1. ConfigWhere => ConfigKept
  BY DEF ConfigWhere, ConfigKept, Settled
<1> QED BY <1>1, ConfigInvariant, PTL

-----------------------------------------------------------------------------
LEMMA ListedInit == Init => Proper /\ Recording /\ Links /\ Listed
<1> SUFFICES ASSUME Init PROVE Proper /\ Recording /\ Links /\ Listed
  OBVIOUS
<1>1. jobs = {Job(n, record.rel, TRUE, 0) : n \in Tasks(record.rel)} /\ proc.old = {} /\ ~Active
  BY DEF Init, Idle, Active
<1>2. \A j \in jobs : j.name \in Tasks(record.rel) /\ j.rel = record.rel
  BY <1>1 DEF Job
<1>3. record.rel # None => link[App(record.rel)] = record.rel
  <2>1. record.rel \in Maybe
    BY InitShape, Parts DEF RecordType
  <2>2. record.rel # None => App(record.rel) \in Apps
    BY <2>1, AppType DEF Maybe
  <2> QED BY <2>2 DEF Init
<1> QED BY <1>1, <1>2, <1>3 DEF Proper, Recording, Links, Listed, Within

(* Which tasks are on the agent, throughout.                                *)
LEMMA ListedInvariant ==
  ASSUME {"both", "recorded"} \cap Windows = {}
  PROVE  Spec => [](TypeOK /\ Shape /\ Rows /\ Proper /\ Listed)
<1> DEFINE I == /\ TypeOK /\ Shape /\ Rows /\ Turns /\ Callings
                /\ Proper /\ Finite /\ Recording /\ Links /\ Listed
<1>1. Init => I
  BY InitShape, RowsInit, FiniteInit, ListedInit
<1>2. I /\ [Next]_vars => I'
  <2> SUFFICES ASSUME I, [Next]_vars PROVE I'
    OBVIOUS
  <2>1. TypeOK' /\ Shape' /\ Rows' /\ Turns' /\ Callings'
    BY TypeStep, ShapeStep, RowsStep, TurnsStep, CallingsStep DEF Shape
  <2>2. Proper' /\ Finite'
    BY ProperStep, FiniteStep
  <2>3. Recording' /\ Links' /\ Listed'
    BY LinksStep, ListedStep
  <2> QED BY <2>1, <2>2, <2>3
<1> QED BY <1>1, <1>2, PTL DEF Spec

(* Jobs within the names of one app's releases are of that app.             *)
LEMMA WithinOneApp ==
  ASSUME TypeOK, Proper, NEW S, S \subseteq Maybe,
         \A r, s \in S \cap Releases : App(r) = App(s),
         Within(jobs, UNION {Tasks(r) : r \in S}, doubt)
  PROVE  OneApp
<1> SUFFICES ASSUME NEW i \in jobs, NEW j \in jobs,
                    App(i.rel) \notin doubt, App(j.rel) \notin doubt
             PROVE  App(i.rel) = App(j.rel)
  BY DEF OneApp
<1>1. ASSUME NEW k \in jobs, App(k.rel) \notin doubt
      PROVE  \E r \in S \cap Releases : App(k.rel) = App(r)
  <2>1. PICK r \in S : k.name \in Tasks(r)
    BY <1>1 DEF Within
  <2>2. k.name \in Tasks(k.rel) /\ k.rel \in Releases /\ r \in Releases
    BY <1>1, <2>1, TasksType DEF Proper, TypeOK, Task
  <2>3. AppOf[k.rel] = AppOf[r]
    BY <2>1, <2>2, ReleasesAssumption DEF Tasks
  <2> QED BY <2>2, <2>3, AppType
<1> QED BY <1>1

(* The tasks of two apps never run at once, while one replaces the other or *)
(* gives way to it, unless the owner of one was told to look (apps.ts,      *)
(* removeTasks, syncTasks and putTasksBack), but for "Use the new one" with *)
(* the old tasks running ("both") and a death in "recorded".                *)
THEOREM OneAppAtATime ==
  ASSUME {"both", "recorded"} \cap Windows = {}
  PROVE  Spec => []OneApp
<1>1. ASSUME TypeOK, Shape, Rows, Proper, Listed PROVE OneApp
  <2>0. record.rel \in Maybe /\ op.to \in Maybe /\ BegunOn \in Maybe
    BY <1>1 DEF TypeOK, OpRow, BegunOn
  <2>1. \A r \in Maybe : Within(jobs, Tasks(r), doubt) => OneApp
    <3> SUFFICES ASSUME NEW r \in Maybe, Within(jobs, Tasks(r), doubt) PROVE OneApp
      OBVIOUS
    <3> DEFINE S == {r}
    <3>1. UNION {Tasks(s) : s \in S} = Tasks(r)
      OBVIOUS
    <3>2. S \subseteq Maybe /\ \A q, s \in S \cap Releases : App(q) = App(s)
      OBVIOUS
    <3> HIDE DEF S
    <3> QED BY <1>1, <3>1, <3>2, WithinOneApp
  <2>2. Active /\ op.repl = None /\ Within(jobs, OldTasks \cup NewTasks, doubt) => OneApp
    <3> SUFFICES ASSUME Active, op.repl = None, Within(jobs, OldTasks \cup NewTasks, doubt)
                 PROVE  OneApp
      OBVIOUS
    <3> DEFINE S == {BegunOn, op.to}
    <3>1. UNION {Tasks(s) : s \in S} = OldTasks \cup NewTasks
      BY DEF OldTasks, NewTasks
    <3>2. S \subseteq Maybe /\ \A r, s \in S \cap Releases : App(r) = App(s)
      BY <1>1, <2>0, AppType DEF Rows, BegunOn, Shape, Known, To
    <3> HIDE DEF S
    <3> QED BY <1>1, <3>1, <3>2, WithinOneApp
  <2> QED BY <1>1, <2>0, <2>1, <2>2 DEF Listed, Spread, OldTasks, NewTasks
<1> QED BY <1>1, ListedInvariant, PTL
=============================================================================
