--------------------------- MODULE AppTasksProofs ---------------------------
(***************************************************************************)
(* The app in an agent, continued: how often its tasks are on the agent,    *)
(* and which of them are on.                                                *)
(*                                                                         *)
(* AppsProofs says which names the jobs are within; a sync, though, has the *)
(* old job of a task and its new one beside each other, so Agrees needs to  *)
(* know of which release the jobs are and that none is there twice.         *)
(* Counted says so place by place, and of the list a sync began with, from  *)
(* which a failed one is put back.  A restart then finds each task once     *)
(* only if the jobs are those of one release; a put-back that only looks    *)
(* for names finds them once because none was there twice before it.        *)
(*                                                                         *)
(* AsLeft adds to it what the owner turned off: every job is on or off as   *)
(* they left it, and a task they turned off always has a job to go by, or   *)
(* is named in the operation's row.                                         *)
(***************************************************************************)
EXTENDS AppsProofs

(* Of the app of a release, outside doubt: its jobs in J are that release's *)
(* and no two are of one task; each of its tasks has one; each just one.    *)
Solo(J, r, D) ==
  App(r) \notin D => \A i \in J : App(i.rel) = App(r) =>
                       i.rel = r /\ \A j \in J : j.name = i.name => j = i
Full(J, r, D) == App(r) \notin D => \A n \in Tasks(r) : \E j \in J : j.name = n
Once(J, r, D) == Solo(J, r, D) /\ Full(J, r, D)

Listing == proc.pc \in {"sync", "undo", "readd"}

(* Where the tasks are those there were when the change began.              *)
Standing ==
  \/ proc.pc = "outcome"
  \/ op.repl = None /\ op.step = 0
  \/ op.repl = None /\ proc.pc \in {"prepare", "switch", "swap", "back", "drop", "pointback"}
  \/ op.repl = None /\ proc.pc = "list" /\ proc.ret \in {"install", "rollback"}
  \/ /\ op.from \notin {None, op.to} /\ record.rel = op.from /\ op.choices # "switch"
     /\ link[To] = op.from
(* Where they are the new release's, and where they are the record's again. *)
Settling == \/ proc.pc \in {"clean", "record", "landed", "done"}
            \/ record.rel = op.to /\ BegunOn # op.to
Returned == proc.pc \in {"gone", "rolled"}
(* A replaced app's own are taken off, and put back, one by one.            *)
Giving ==
  /\ op.repl # None /\ record.rel = op.repl /\ op.choices # "switch"
  /\ ~(proc.pc \in {"sync", "undo"} /\ proc.ret \in Quiet)

(* A sync: what it added, and the list it began with.                       *)
AddedOnce == \A i \in New : i.rel = Sync.m /\ \A j \in New : j.name = i.name => j = i
Synced1 ==
  Listing =>
    /\ AddedOnce
    /\ proc.ret \in Quiet => Solo(proc.old, op.repl, doubt)
    /\ op.repl = None /\ proc.ret \in {"install", "rollback"} => Once(proc.old, BegunOn, doubt)

(* A change of values on the commit it had has jobs of that commit only.    *)
OneRelease ==
  op.from = op.to => \A j \in jobs \cup proc.old : j.rel = op.to \/ App(j.rel) \in doubt

Counted ==
  /\ ~Active => /\ Solo(jobs, record.rel, doubt)
                /\ proc.pc # "stopping" => Full(jobs, record.rel, doubt)
  /\ Active => /\ Standing => Once(jobs, BegunOn, doubt)
               /\ Settling => Once(jobs, op.to, doubt)
               /\ Returned => Once(jobs, record.rel, doubt)
               /\ Giving => Solo(jobs, op.repl, doubt)
               /\ Synced1 /\ OneRelease

(* As the owner left them.                                                  *)
Right(J, O, D) == \A j \in J : App(j.rel) \in D \/ (j.on <=> j.name \notin O)
There(J, O, r) == \A n \in O \cap Tasks(r) : \E j \in J : j.name = n
Choices ==
  \/ proc.pc \in {"idle", "use", "uselink", "go", "golink"}
  \/ proc.pc = "list" /\ proc.ret \in {"use", "goback"}
AsLeft ==
  /\ Right(jobs, offs, doubt) /\ (Listing => Right(proc.old, offs, doubt))
  /\ ~Active => offs \subseteq Tasks(record.rel)
  /\ Active =>
       /\ offs \subseteq OldTasks
       /\ op.repl # None => op.off = offs \/ App(op.repl) \in doubt
       /\ op.repl = None /\ To \notin doubt =>
            /\ Choices => There(jobs, offs, record.rel)
            /\ Listing => There(proc.old, offs, record.rel)
-----------------------------------------------------------------------------
(* Fewer jobs, and more doubt.                                              *)
LEMMA SoloLess ==
  \A J, K, r, D, E : Solo(J, r, D) /\ K \subseteq J /\ D \subseteq E => Solo(K, r, E)
BY DEF Solo

LEMMA FullMore ==
  \A J, K, r, D, E : Full(J, r, D) /\ J \subseteq K /\ D \subseteq E => Full(K, r, E)
BY DEF Full

LEMMA OnceMore ==
  \A J, r, D, E : Once(J, r, D) /\ D \subseteq E => Once(J, r, E)
BY SoloLess, FullMore DEF Once

(* With no release, or one in doubt, there is nothing to say.               *)
LEMMA OnceDoubted ==
  \A J, r, D : App(r) \in D => Once(J, r, D)
BY DEF Once, Solo, Full

LEMMA OnceNone ==
  ASSUME NEW J, NEW D, \A j \in J : j.rel \in Releases PROVE Once(J, None, D)
<1>1. \A j \in J : App(j.rel) # None
  BY ReleasesAssumption DEF App
<1> QED BY <1>1 DEF Once, Solo, Full, App, Tasks

(* A job in the place of another of its task.                               *)
LEMMA SoloSwap ==
  ASSUME NEW J, NEW r, NEW D, NEW j \in J, NEW i, i.name = j.name, App(i.rel) = App(j.rel),
         i.rel \in {j.rel, r}
  PROVE  /\ Solo(J, r, D) => Solo((J \ {j}) \cup {i}, r, D)
         /\ Full(J, r, D) => Full((J \ {j}) \cup {i}, r, D)
<1> DEFINE K == (J \ {j}) \cup {i}
<1>1. ASSUME Solo(J, r, D) PROVE Solo(K, r, D)
  <2> SUFFICES ASSUME App(r) \notin D, NEW k \in K, App(k.rel) = App(r)
               PROVE  k.rel = r /\ \A l \in K : l.name = k.name => l = k
    BY DEF Solo
  <2>1. \A m \in J : App(m.rel) = App(r) => m.rel = r /\ \A l \in J : l.name = m.name => l = m
    BY <1>1 DEF Solo
  <2>2. CASE k = i
    BY <2>1, <2>2
  <2>3. CASE k # i /\ k \in J /\ k # j
    BY <2>1, <2>3
  <2> QED BY <2>2, <2>3
<1>2. ASSUME Full(J, r, D) PROVE Full(K, r, D)
  <2>1. \A m \in J : \E l \in K : l.name = m.name
    OBVIOUS
  <2> QED BY <1>2, <2>1 DEF Full
<1> QED BY <1>1, <1>2

(* A name two manifests share is of one app.                                *)
LEMMA OneAppOfName ==
  ASSUME NEW r \in Maybe, NEW s \in Maybe, NEW n, n \in Tasks(r), n \in Tasks(s)
  PROVE  r \in Releases /\ s \in Releases /\ App(r) = App(s) /\ App(r) # None
<1>1. r \in Releases /\ s \in Releases
  BY TasksType
<1> QED BY <1>1, AppType, ReleasesAssumption DEF Tasks

(* Jobs within an app's names, outside doubt, are of that app.              *)
LEMMA OfTheApp ==
  ASSUME TypeOK, Proper, NEW r \in Maybe, NEW D, NEW j \in jobs, App(j.rel) \notin D,
         Within(jobs, Tasks(r), D)
  PROVE  j.name \in Tasks(r) /\ App(j.rel) = App(r)
<1>1. j.name \in Tasks(r) /\ j.name \in Tasks(j.rel) /\ j.rel \in Maybe
  BY DEF Within, Proper, TypeOK, Task, Maybe
<1> QED BY <1>1, OneAppOfName

(* What a count of one says, and when it is one.                            *)
LEMMA CountOne ==
  ASSUME Finite, NEW n
  PROVE  /\ Times(n) = 1 => \E j \in jobs : j.name = n /\ \A i \in jobs : i.name = n => i = j
         /\ (\E j \in jobs : j.name = n /\ \A i \in jobs : i.name = n => i = j) => Times(n) = 1
<1>1. IsFiniteSet(Named({n}))
  BY FS_Subset DEF Finite, Named
<1>2. ASSUME Times(n) = 1
      PROVE  \E j \in jobs : j.name = n /\ \A i \in jobs : i.name = n => i = j
  <2>1. PICK j : Named({n}) = {j}
    BY <1>1, <1>2, FS_Singleton DEF Times
  <2> QED BY <2>1 DEF Named
<1>3. ASSUME NEW j \in jobs, j.name = n, \A i \in jobs : i.name = n => i = j
      PROVE  Times(n) = 1
  <2>1. Named({n}) = {j}
    BY <1>3 DEF Named
  <2> QED BY <2>1, FS_Singleton DEF Times
<1> QED BY <1>2, <1>3

-----------------------------------------------------------------------------
(* What is known of the places and the names, for the steps below.          *)
Sound == /\ TypeOK /\ Shape /\ Rows /\ Turns /\ Callings
         /\ Proper /\ Finite /\ Recording /\ Links /\ Listed

(* The two releases of a change.                                            *)
LEMMA Ends2 ==
  ASSUME Sound, Active
  PROVE  /\ op.to \in Releases /\ op.to # None /\ App(op.to) = To /\ To \in Apps /\ To # None
         /\ BegunOn \in Maybe /\ record.rel \in Maybe
         /\ op.repl # None => /\ op.from = None /\ op.kind # "rollback" /\ BegunOn = op.repl
                              /\ App(op.repl) # To /\ op.repl # op.to /\ BegunOn # op.to
         /\ op.repl = None => /\ BegunOn = op.from
                              /\ BegunOn # None => App(BegunOn) = To
         /\ op.from # None => op.repl = None /\ App(op.from) = To
         /\ record.rel \in {op.to, BegunOn}
<1>1. op.to \in Releases /\ op.to # None /\ App(op.to) = To /\ To \in Apps /\ To # None
  BY AppType, ReleasesAssumption DEF Sound, Shape, Known, To
<1>2. BegunOn \in Maybe /\ record.rel \in Maybe
  BY DEF Sound, TypeOK, OpRow, BegunOn
<1>3. op.repl # None => App(op.repl) # To /\ op.from = None /\ op.kind # "rollback"
  BY DEF Sound, Rows
<1>4. op.from # None => App(op.from) = To
  BY DEF Sound, Rows
<1>5. record.rel \in {op.to, BegunOn}
  BY DEF Sound, Rows
<1> QED BY <1>1, <1>2, <1>3, <1>4, <1>5 DEF BegunOn

(* The row, by the place; and that the record is the one from before.       *)
LEMMA ByPlace ==
  ASSUME Sound
  PROVE  /\ proc.pc \notin {"idle", "stopping"} => Active
         /\ proc.pc = "stopping" => ~Active
         /\ Active /\ op.choices = "switch" => op.step = 1 /\ op.st = "held"
         /\ RunsAt => /\ op.choices = None /\ op.st = "running"
                      /\ proc.pc \notin {"record", "done"} => record.rel = BegunOn
         /\ ChosenAt => op.choices = "switch"
         /\ TurnedAt => op.step = 1
         /\ proc.pc \in {"clear", "prepare", "rollback"} => op.step = 0
         /\ proc.pc = "clear" => op.repl # None
         /\ proc.pc \in {"rollback", "swap", "pointback"} \/ proc.ret = "rollback" =>
              op.kind = "rollback" /\ (Active => op.repl = None)
         /\ proc.pc \in {"landed", "done"} => record.rel = op.to
         /\ Tasking(Callers) => proc.ret \in Callers \ {None}
         /\ proc.ret \in Quiet => /\ op.repl # None /\ record.rel = op.repl
                                  /\ op.choices # "switch"
         /\ proc.pc = "check" => proc.ret \in Quiet
         /\ Active /\ record.rel = op.to /\ BegunOn # op.to =>
              proc.pc \in {"landed", "done"} \/ (proc.pc = "idle" /\ op.choices # "switch")
<1>1. OpType /\ ProcType
  BY Parts DEF Sound
<1>2. Active => op.repl = None \/ op.kind # "rollback"
  BY DEF Sound, Rows
<1>3. op.choices # None => op.st = "held"
  BY DEF Sound, Rows
<1>4. /\ proc.pc \notin {"idle", "stopping"} => Active
      /\ proc.pc = "stopping" => ~Active
      /\ ChosenAt => op.choices = "switch"
      /\ TurnedAt => op.step = 1
      /\ op.choices = "switch" => op.step = 1
      /\ proc.pc \in {"clear", "prepare", "rollback"} => op.step = 0
      /\ RunsAt => op.st = "running" /\ (proc.pc \notin {"record", "done"} => record.rel = BegunOn)
      /\ proc.ret = "choice" => op.choices = "tasks"
      /\ proc.ret = "early" => op.choices # "switch"
      /\ proc.ret \in {"undo", "early", "choice"} => op.repl # None /\ record.rel = op.repl
  BY DEF Sound, Shape, Placed, Turns, Switching, Running, TurnedAt, ResumedAt
<1>5. /\ Tasking(Callers) => proc.ret # None
      /\ proc.pc = "check" => proc.ret \in {"undo", "early", "choice"}
      /\ proc.pc \in {"rollback", "swap", "pointback"} \/ proc.ret = "rollback" => op.kind = "rollback"
      /\ proc.pc = "clear" => op.repl # None
      /\ proc.pc \in {"landed", "done"} => record.rel = op.to
  BY DEF Sound, Callings
<1>6. Active /\ record.rel = op.to /\ BegunOn # op.to =>
        proc.pc \in {"landed", "done"} \/ (proc.pc = "idle" /\ op.choices # "switch")
  BY DEF Sound, Recording
<1>7. proc.ret = "undo" => RunsAt
  BY DEF RunsAt
<1> QED BY <1>1, <1>2, <1>3, <1>4, <1>5, <1>6, <1>7 DEF Quiet, ProcType, None

(* While tasks are set nothing is standing, but for the new ones to come.   *)
LEMMA NotStanding ==
  ASSUME Sound, Active,
         \/ proc.pc \in {"sync", "undo", "readd", "check"}
         \/ proc.pc = "list" /\ proc.ret \notin {"install", "rollback"}
         \/ proc.pc \notin {"outcome", "prepare", "switch", "swap", "back", "drop",
                            "pointback", "list"} /\ op.choices = "switch"
  PROVE  ~Standing
<1>1. /\ op.repl # None => op.from = None
      /\ proc.ret \in Quiet => op.repl # None
      /\ Tasking(Callers) => proc.ret \in Callers \ {None}
      /\ ChosenAt => op.choices = "switch"
      /\ op.choices = "switch" => op.step = 1
      /\ TurnedAt => op.step = 1
      /\ proc.pc = "check" => proc.ret \in Quiet
      /\ proc.ret \in Callers
  BY Ends2, ByPlace, Parts DEF Sound, ProcType
<1>2. Pointing => link[To] = op.to
  BY DEF Sound, Shape, Linked
<1>3. CASE op.choices = "switch"
  BY <1>1, <1>3 DEF Standing
<1>4. CASE op.choices # "switch"
  <2>1. proc.ret \in {"install", "rollback"} \cup Quiet
    BY <1>1, <1>4 DEF Tasking, Callers, ChosenAt, Quiet
  <2>2. CASE proc.ret \in Quiet
    BY <1>1, <1>4, <2>2 DEF Standing
  <2>3. CASE proc.ret \in {"install", "rollback"} /\ proc.pc \in {"sync", "undo", "readd"}
    BY <1>1, <1>2, <1>4, <2>3 DEF Standing, Pointing, TurnedAt
  <2> QED BY <1>1, <1>4, <2>1, <2>2, <2>3 DEF Quiet
<1> QED BY <1>3, <1>4

(* The manifest a sync sets, and the one it comes from.                     *)
LEMMA SyncReleases ==
  ASSUME Sound, Active, Tasking(Callers)
  PROVE  /\ Sync.m \in Maybe /\ Sync.prev \in Maybe
         /\ proc.ret \in {"install", "rollback", "use"} => Sync.m = op.to
         /\ proc.ret \in Quiet => Sync.m = op.repl /\ Sync.prev = None
         /\ proc.ret = "goback" => Sync.m = record.rel
         /\ op.from = op.to => Sync.m = op.to /\ Sync.prev \in {op.to, None}
         /\ proc.ret \in {"install", "rollback"} /\ op.repl = None /\ op.from # None =>
              Sync.prev = op.from
<1>1. /\ proc.ret \in Callers \ {None} /\ (proc.ret \in Quiet => record.rel = op.repl /\ op.repl # None)
      /\ record.rel \in Maybe /\ op.to \in Maybe /\ proc.was \in Maybe
      /\ record.rel \in {op.to, BegunOn}
      /\ op.from # None => op.repl = None
      /\ op.repl = None => BegunOn = op.from
      /\ op.to # None
      /\ proc.ret = "rollback" => record.rel = BegunOn
  BY Ends2, ByPlace, Parts DEF Maybe, Sound, ProcType, Tasking, RunsAt
<1>2. op.repl = None /\ op.from # None /\ proc.ret \in {"install", "rollback"} => proc.was = op.from
  BY DEF Sound, Links, Tasking
<1>3. Sync.m \in Maybe /\ Sync.prev \in Maybe
  BY <1>1 DEF Sync, Maybe
<1> QED BY <1>1, <1>2, <1>3 DEF Sync, Quiet, Callers, None

(* Fewer jobs are still of the one release.                                 *)
LEMMA OneReleaseLess ==
  ASSUME OneRelease, op'.from = op.from, op'.to = op.to, doubt \subseteq doubt',
         jobs' \subseteq jobs, proc'.old \subseteq jobs \cup proc.old
  PROVE  OneRelease'
BY DEF OneRelease

(* A put-back with no task there twice has each job of the app once.        *)
LEMMA QuietSolo ==
  ASSUME Sound, Active, Synced1, proc.pc \in {"sync", "undo"}, proc.ret \in Quiet,
         ~LeftTwice \/ New = {}
  PROVE  Solo(jobs, op.repl, doubt)
<1>1. Tasking(Callers) /\ proc.ret \in {"undo", "early", "choice"} /\ Sync.m = op.repl
  BY SyncReleases, Parts DEF Tasking, Sound, ProcType, Quiet
<1>2. Within(jobs, SyncTo, doubt)
  <2>1. SyncTo = OldTasks
    BY <1>1, SyncNames DEF Sound
  <2> QED BY <1>1, <2>1 DEF Sound, Listed, Spread, Tasking
<1> SUFFICES ASSUME App(op.repl) \notin doubt, NEW i \in jobs, App(i.rel) = App(op.repl)
             PROVE  i.rel = op.repl /\ \A j \in jobs : j.name = i.name => j = i
  BY DEF Solo
<1>3. i \in Ours /\ \A j \in jobs : j.name = i.name => j \in Ours
  BY <1>2 DEF Within, Ours, Named, SyncTo
<1>4. i \in New => i.rel = op.repl
  BY <1>1 DEF Synced1, Listing, AddedOnce
<1>5. \A k \in proc.old : App(k.rel) = App(op.repl) =>
        k.rel = op.repl /\ \A j \in proc.old : j.name = k.name => j = k
  BY DEF Synced1, Listing, Solo
<1>6. CASE New = {}
  BY <1>3, <1>5, <1>6 DEF New
<1>7. CASE ~LeftTwice
  BY <1>3, <1>4, <1>5, <1>7 DEF New, LeftTwice
<1> QED BY <1>6, <1>7

(* A sync that is through has each of its tasks once.                       *)
LEMMA SyncedOnce ==
  ASSUME Sound, Active, Synced1, proc.pc = "sync", AllAdded, proc.old \cap jobs = {}
  PROVE  Once(jobs, Sync.m, doubt)
<1>1. Tasking(Callers) /\ Within(jobs, SyncTo, doubt)
  <2>1. jobs \ proc.old = jobs
    OBVIOUS
  <2>2. Within(jobs \ proc.old, SyncTo, doubt)
    BY DEF Sound, Listed, Synching
  <2> QED BY <2>1, <2>2, Parts DEF Tasking, Sound, ProcType
<1>2. AddedOnce
  BY DEF Synced1, Listing
<1>3. Full(jobs, Sync.m, doubt)
  BY DEF Full, AllAdded, Added, New, Ours, Named
<1>4. Solo(jobs, Sync.m, doubt)
  <2> SUFFICES ASSUME App(Sync.m) \notin doubt, NEW i \in jobs, App(i.rel) = App(Sync.m)
               PROVE  i.rel = Sync.m /\ \A j \in jobs : j.name = i.name => j = i
    BY DEF Solo
  <2>1. \A j \in jobs : j.name \in SyncTo => j \in New
    BY DEF New, Ours, Named, SyncTo
  <2>2. i.name \in SyncTo
    BY <1>1 DEF Within
  <2> QED BY <1>2, <2>1, <2>2 DEF AddedOnce
<1> QED BY <1>3, <1>4 DEF Once

(* A sync that failed and is sure of it has left what there was.            *)
LEMMA FailedOnce ==
  ASSUME Sound, Active, Counted, proc.pc = "readd", New = {}, Gone = {},
         proc.ret \in {"install", "rollback"}, op.repl = None
  PROVE  Once(jobs, BegunOn, doubt)
<1>1. Once(proc.old, BegunOn, doubt)
  BY DEF Counted, Synced1, Listing
<1>2. Within(jobs, SyncTo \cup SyncFrom, doubt)
  <2>1. Within(jobs \ proc.old, SyncTo, doubt) /\ Within(proc.old, SyncTo \cup SyncFrom, doubt)
    BY DEF Sound, Listed, Synching
  <2> QED BY <2>1 DEF Within
<1>3. \A j \in jobs : j.name \in SyncTo \cup SyncFrom => j \in proc.old
  BY DEF New, Ours, Named, SyncTo, SyncFrom
<1>4. Full(jobs, BegunOn, doubt)
  BY <1>1, FullMore DEF Once, Gone
<1>5. Solo(jobs, BegunOn, doubt)
  BY <1>1, <1>2, <1>3 DEF Once, Solo, Within
<1> QED BY <1>4, <1>5 DEF Once

(* Where a sync that failed goes on.                                        *)
LEMMA FailedAt ==
  ASSUME Sound, proc.pc \in {"list", "undo", "readd"}, NEW u, SyncFails(u)
  PROVE  /\ \/ proc.ret \in {"use", "goback"} /\ proc'.pc = "idle"
            \/ proc.ret = "install" /\ proc'.pc = "back"
            \/ proc.ret = "rollback" /\ proc'.pc = "pointback"
            \/ proc.ret \in Quiet /\ proc'.pc = "check" /\ proc'.ret = proc.ret
         /\ proc'.old = {}
<1>1. ProcType /\ Tasking(Callers)
  BY Parts DEF Sound, Tasking, ProcType
<1>2. proc.ret \in {"use", "goback", "install", "rollback"} \cup Quiet
  BY <1>1, ByPlace DEF Callers, Quiet
<1>3. \/ proc.ret \in {"use", "goback"} /\ proc' = Idle
      \/ proc.ret = "install" /\ proc' = [proc EXCEPT !.old = {}, !.pc = "back", !.err = "failed"]
      \/ proc.ret = "rollback" /\ proc' = [proc EXCEPT !.old = {}, !.pc = "pointback"]
      \/ /\ proc.ret \notin {"use", "goback", "install", "rollback"}
         /\ proc' = [proc EXCEPT !.old = {}, !.pc = "check"]
  BY <1>1, Failings
<1>4. Idle.pc = "idle" /\ Idle.old = {}
  BY DEF Idle
<1>5. proc = [pc |-> proc.pc, ret |-> proc.ret, was |-> proc.was, old |-> proc.old,
              err |-> proc.err]
  BY <1>1 DEF ProcType
<1> QED BY <1>2, <1>3, <1>4, <1>5 DEF Quiet

(* Wherever a sync that failed goes on, the count holds.                    *)
LEMMA FailedCounted ==
  ASSUME Sound, Active, Counted, proc.pc \in {"list", "undo", "readd"}, NEW u \in BOOLEAN, SyncFails(u),
         proc.ret \in Quiet /\ proc.pc = "undo" => ~LeftTwice,
         ~u => proc.pc = "list" \/ (proc.pc = "readd" /\ New = {} /\ Gone = {})
  PROVE  Counted'
<1>1. /\ UNCHANGED <<record, link, jobs, op>> /\ doubt \subseteq doubt' /\ Active'
      /\ u /\ proc.ret \notin Quiet => doubt' = Told(Sync.m)
  BY DEF SyncFails, live, Told, Active
<1>2. /\ \/ proc.ret \in {"use", "goback"} /\ proc'.pc = "idle"
         \/ proc.ret = "install" /\ proc'.pc = "back"
         \/ proc.ret = "rollback" /\ proc'.pc = "pointback"
         \/ proc.ret \in Quiet /\ proc'.pc = "check" /\ proc'.ret = proc.ret
      /\ proc'.old = {}
  BY FailedAt
<1>3. BegunOn' = BegunOn /\ To' = To
  BY <1>1 DEF BegunOn, To
<1>4. OneRelease'
  BY <1>1, <1>2, OneReleaseLess DEF Counted
<1>5. Synced1' /\ ~Returned'
  BY <1>2 DEF Synced1, Listing, Returned
<1>6. record.rel = op.to => BegunOn = op.to
  BY ByPlace
<1>7. ~Settling'
  BY <1>1, <1>2, <1>3, <1>6 DEF Settling
<1>8. op.repl # None => op.from = None
  BY Ends2
<1>9. CASE proc.ret \in {"use", "goback"}
  <2>1. op.choices = "switch" /\ op.step = 1
    BY <1>9, ByPlace DEF ChosenAt
  <2>2. ~Standing' /\ ~Giving'
    BY <1>1, <1>2, <1>9, <2>1 DEF Standing, Giving, Quiet
  <2> QED BY <1>1, <1>4, <1>5, <1>7, <2>2 DEF Counted
<1>10. CASE proc.ret \in {"install", "rollback"}
  <2>1. op.repl = None => Once(jobs, BegunOn, doubt')
    <3>1. CASE u
      <4>1. Sync.m = op.to /\ App(op.to) = To /\ (op.repl = None /\ BegunOn # None => App(BegunOn) = To)
            /\ To # None
        BY <1>10, Ends2, SyncReleases, Parts DEF Tasking, Sound, ProcType
      <4>2. op.repl = None /\ BegunOn # None => App(BegunOn) \in doubt'
        BY <1>1, <1>10, <3>1, <4>1 DEF Told, Quiet
      <4>3. Once(jobs, None, doubt')
        BY OnceNone DEF Sound, TypeOK, Task
      <4> QED BY <4>2, <4>3, OnceDoubted
    <3>2. CASE proc.pc = "list"
      <4>1. op.repl = None => Standing
        BY <1>10, <3>2 DEF Standing
      <4> QED BY <1>1, <4>1, OnceMore DEF Counted
    <3>3. CASE proc.pc = "readd" /\ New = {} /\ Gone = {}
      BY <1>1, <1>10, <3>3, FailedOnce, OnceMore
    <3> QED BY <3>1, <3>2, <3>3
  <2>2. op.repl # None /\ record.rel = op.repl /\ op.choices # "switch" => Solo(jobs, op.repl, doubt')
    BY <1>1, <1>10, SoloLess DEF Counted, Giving, Quiet
  <2>3. Standing' => Once(jobs, BegunOn, doubt')
    BY <1>1, <1>2, <1>3, <1>8, <1>10, <2>1 DEF Standing
  <2>4. Giving' => Solo(jobs, op.repl, doubt')
    BY <1>1, <2>2 DEF Giving
  <2> QED BY <1>1, <1>3, <1>4, <1>5, <1>7, <2>3, <2>4 DEF Counted
<1>11. CASE proc.ret \in Quiet
  <2>1. op.repl # None /\ record.rel = op.repl /\ op.choices # "switch"
    BY <1>11, ByPlace
  <2>2. Solo(jobs, op.repl, doubt)
    <3>1. CASE proc.pc = "undo"
      BY <1>11, <3>1, QuietSolo DEF Counted
    <3>2. CASE proc.pc # "undo"
      BY <2>1, <3>2 DEF Counted, Giving
    <3> QED BY <3>1, <3>2
  <2>3. Solo(jobs, op.repl, doubt')
    BY <1>1, <2>2, SoloLess
  <2>4. ~Standing'
    BY <1>1, <1>2, <1>3, <1>8, <1>11, <2>1 DEF Standing, Quiet
  <2> QED BY <1>1, <1>4, <1>5, <1>7, <2>3, <2>4 DEF Counted
<1> QED BY <1>2, <1>9, <1>10, <1>11
(* A step that leaves the tasks alone, and sets none.                       *)
LEMMA CountedMoves ==
  ASSUME Sound, Counted, Active, Active', UNCHANGED <<record, jobs, doubt>>,
         op'.to = op.to, op'.from = op.from, op'.repl = op.repl,
         proc'.pc \notin {"sync", "undo", "readd"}, proc'.old \subseteq jobs \cup proc.old,
         Standing' => Standing \/ Once(jobs, BegunOn, doubt),
         Settling' => Settling \/ Once(jobs, op.to, doubt),
         Returned' => Returned \/ Once(jobs, record.rel, doubt),
         Giving' => Giving \/ Solo(jobs, op.repl, doubt)
  PROVE  Counted'
<1>1. OneRelease'
  BY OneReleaseLess DEF Counted
<1>2. Synced1'
  BY DEF Synced1, Listing
<1>3. BegunOn' = BegunOn
  BY DEF BegunOn
<1>4. (Standing' => Once(jobs, BegunOn, doubt)') /\ (Settling' => Once(jobs, op.to, doubt)')
  BY <1>3 DEF Counted
<1>5. (Returned' => Once(jobs, record.rel, doubt)') /\ (Giving' => Solo(jobs, op.repl, doubt)')
  BY DEF Counted
<1> QED BY <1>1, <1>2, <1>4, <1>5 DEF Counted

(* A change begins with the tasks of the recorded release, each once.       *)
LEMMA BegunCounted ==
  ASSUME Sound, Counted, ~Active, proc.pc # "stopping", NEW kind, NEW to \in Releases,
         Begin(kind, to, record.rel), UNCHANGED <<record, jobs, doubt>>
  PROVE  Counted'
<1>1. /\ op'.to = to /\ op'.step = 0 /\ op'.st = "running" /\ op'.choices = None
      /\ IF App(record.rel) = AppOf[to] THEN op'.from = record.rel /\ op'.repl = None
                                 ELSE op'.from = None /\ op'.repl = record.rel
      /\ proc'.pc \in {"rollback", "prepare", "clear"}
  BY BegunRow
<1>2. BegunOn' = record.rel /\ to # None /\ proc'.old = {} /\ App(to) = AppOf[to]
  BY <1>1, AppType DEF BegunOn, Begin, Idle
<1>3. Once(jobs, record.rel, doubt)
  BY DEF Counted, Once
<1>4. ~Settling' /\ ~Returned' /\ ~Listing'
  BY <1>1, <1>2 DEF Settling, Returned, Listing
<1>5. op'.repl # None => op'.repl = record.rel
  BY <1>1
<1>6. OneRelease'
  <2> SUFFICES ASSUME op'.from = op'.to, NEW j \in jobs, App(j.rel) \notin doubt PROVE j.rel = op'.to
    BY <1>2 DEF OneRelease
  <2>1. record.rel = to /\ record.rel \in Maybe
    BY <1>1, <1>2 DEF Maybe
  <2>2. App(j.rel) = App(record.rel)
    BY <2>1, OfTheApp DEF Sound, Listed
  <2> QED BY <1>1, <1>3, <2>1, <2>2 DEF Once, Solo
<1> QED BY <1>1, <1>2, <1>3, <1>4, <1>5, <1>6 DEF Counted, Active, Giving, Synced1, Once

(* A restart that finds nothing switched finds each old task once.          *)
LEMMA NotYetOnce ==
  ASSUME Sound, Counted, Active, op.repl = None, op.choices # "switch", proc.pc = "idle",
         op.step = 0 \/ NotYet
  PROVE  record.rel = BegunOn /\ Once(jobs, BegunOn, doubt)
<1>1. BegunOn = op.from /\ op.to # None /\ App(op.to) = To /\ op.step \in {0, 1}
      /\ (op.from # None => App(op.from) = To)
  BY Ends2 DEF Sound, TypeOK, OpRow, Switching
<1>2. CASE op.step = 0
  BY <1>1, <1>2 DEF Counted, Standing, Sound, Rows
<1>3. CASE op.step # 0
  <2>1. link[To] = op.from /\ Recorded = op.from /\ TasksOk /\ NotYet
    BY <1>3 DEF NotYet
  <2>2. record.rel = BegunOn
    BY <2>1, NotYetNames DEF Sound, Listed
  <2>3. CASE op.from = None
    BY <1>1, <2>2, <2>3, OnceNone DEF Sound, TypeOK, Task
  <2>4. CASE op.from # None /\ op.from # op.to
    BY <1>1, <2>1, <2>2, <2>4 DEF Counted, Standing
  <2>5. CASE op.from # None /\ op.from = op.to
    <3>1. \A n \in Tasks(op.from) : Times(n) = 1
      BY <2>1, <2>5 DEF TasksOk, TasksAre
    <3>2. \A n \in Tasks(op.from) : \E j \in jobs : j.name = n /\ \A i \in jobs : i.name = n => i = j
      BY <3>1, CountOne DEF Sound
    <3>3. ASSUME NEW i \in jobs, App(i.rel) = App(op.from), App(op.from) \notin doubt
          PROVE  i.rel = op.from /\ i.name \in Tasks(op.from)
      BY <2>5, <3>3 DEF Counted, OneRelease, Sound, Proper
    <3> QED BY <1>1, <2>2, <3>2, <3>3 DEF Once, Solo, Full
  <2> QED BY <2>3, <2>4, <2>5
<1> QED BY <1>2, <1>3

(* One that finds all is in finds each new task once.                       *)
LEMMA AllInOnce ==
  ASSUME Sound, Counted, Active, AllIn
  PROVE  record.rel = op.to /\ Once(jobs, op.to, doubt)
<1>1. op.to # None /\ record.rel = op.to /\ Recorded = op.to
  BY Ends2 DEF AllIn, Recorded
<1>2. CASE BegunOn # op.to
  BY <1>1, <1>2 DEF Counted, Settling
<1>3. CASE BegunOn = op.to
  <2>1. op.from = op.to
    BY <1>3, Ends2
  <2>2. \A n \in Tasks(op.to) : Times(n) = 1
    BY <1>1 DEF AllIn, TasksOk, TasksAre
  <2>3. \A n \in Tasks(op.to) : \E j \in jobs : j.name = n /\ \A i \in jobs : i.name = n => i = j
    BY <2>2, CountOne DEF Sound
  <2>4. ASSUME NEW i \in jobs, App(i.rel) = App(op.to), App(op.to) \notin doubt
        PROVE  i.rel = op.to /\ i.name \in Tasks(op.to)
    BY <2>1, <2>4 DEF Counted, OneRelease, Sound, Proper
  <2> QED BY <1>1, <2>3, <2>4 DEF Once, Solo, Full
<1> QED BY <1>2, <1>3

(* The restart's decision, or a retry of it.                                *)
LEMMA DecidedCounted ==
  ASSUME Sound, Counted, Active, proc = Idle, Decide, UNCHANGED <<record, link, stage, jobs, doubt>>,
         op.choices \notin {"tasks", "switch"}
  PROVE  Counted'
<1>1. OpType /\ proc.pc = "idle" /\ proc.old = {} /\ proc.ret = None /\ op.step \in {0, 1}
  BY Parts DEF Sound, Idle, TypeOK, OpRow, Switching
<1>2. CASE /\ proc' = [Idle EXCEPT !.pc = "landed"] /\ op' = op
           /\ op.step = Switching /\ AllIn
  <2>1. proc'.pc = "landed" /\ proc'.old = {} /\ Active' /\ op.step = 1
    BY <1>2 DEF Idle, Active, Switching
  <2>2. record.rel = op.to /\ Once(jobs, op.to, doubt) /\ op.repl # op.to /\ (op.from # None => op.repl = None)
    BY <1>2, AllInOnce, Ends2
  <2>3. ~Standing' /\ ~Returned' /\ ~Giving'
    BY <1>2, <2>1, <2>2 DEF Standing, Returned, Giving
  <2> QED BY <1>2, <2>1, <2>2, <2>3, CountedMoves
<1>3. CASE Held("switch") /\ proc' = proc /\ op.step = Switching
  <2>1. /\ op'.to = op.to /\ op'.from = op.from /\ op'.repl = op.repl /\ op'.step = 1
        /\ op'.choices = "switch" /\ Active'
    BY <1>1, <1>3, Holds DEF Active, Switching
  <2>2. BegunOn' = BegunOn
    BY <2>1, SameNames
  <2>3. ~Standing' /\ ~Returned' /\ ~Giving' /\ (Settling' => Settling)
    BY <1>1, <1>3, <2>1, <2>2 DEF Standing, Returned, Giving, Settling
  <2> QED BY <1>1, <1>3, <2>1, <2>3, CountedMoves
<1>4. CASE Held("retry") /\ proc' = proc
  <2>1. /\ op'.to = op.to /\ op'.from = op.from /\ op'.repl = op.repl /\ op'.step = op.step
        /\ op'.choices = "retry" /\ Active'
    BY <1>1, <1>4, Holds DEF Active
  <2>2. BegunOn' = BegunOn /\ To' = To
    BY <2>1, SameNames
  <2>3. ~Returned' /\ (Standing' => Standing) /\ (Giving' => Giving) /\ (Settling' => Settling)
    BY <1>1, <1>4, <2>1, <2>2 DEF Standing, Returned, Giving, Settling
  <2> QED BY <1>1, <1>4, <2>1, <2>3, CountedMoves
<1>5. CASE Undo("early") /\ op' = op /\ (op.step = Switching => NotYet /\ ~AllIn)
  <2>0. BegunOn' = BegunOn /\ To' = To /\ Active'
    BY <1>5, SameNames DEF Active
  <2>1. CASE op.repl # None /\ record.rel = op.repl
    <3>1. proc'.pc = "list" /\ proc'.ret = "early" /\ proc'.old = {}
      BY <1>5, <2>1 DEF Undo, Idle
    <3>2. op.from = None /\ op.repl # op.to
      BY <2>1, Ends2
    <3>3. ~Standing' /\ ~Returned' /\ ~Settling' /\ (Giving' => Giving)
      BY <1>1, <1>5, <2>0, <2>1, <3>1, <3>2 DEF Standing, Returned, Giving, Settling
    <3> QED BY <1>5, <2>0, <3>1, <3>3, CountedMoves
  <2>2. CASE ~(op.repl # None /\ record.rel = op.repl)
    <3>1. proc'.pc = "gone" /\ proc'.old = {}
      BY <1>5, <2>2 DEF Undo, Idle
    <3>2. op.repl = None
      <4>1. CASE op.step = 0
        BY <2>2, <4>1 DEF Sound, Rows, BegunOn
      <4>2. CASE op.step # 0
        <5>1. record.rel = BegunOn
          BY <1>1, <1>5, <4>2, NotYetNames DEF Sound, Listed, Switching
        <5> QED BY <2>2, <5>1 DEF BegunOn
      <4> QED BY <4>1, <4>2
    <3>3. record.rel = BegunOn /\ Once(jobs, BegunOn, doubt)
      BY <1>1, <1>5, <3>2, NotYetOnce DEF Switching
    <3>4. ~Giving' /\ (Settling' => Settling)
      BY <1>1, <1>5, <2>0, <3>1, <3>2 DEF Giving, Settling
    <3> QED BY <1>5, <2>0, <3>1, <3>3, <3>4, CountedMoves
  <2> QED BY <2>1, <2>2
<1> QED BY <1>2, <1>3, <1>4, <1>5, Decisions
(* The steps of a sync.                                                     *)
LEMMA ListCounted == Sound /\ Counted /\ List => Counted'
<1> SUFFICES ASSUME Sound, Counted, List PROVE Counted'
  OBVIOUS
<1>1. /\ UNCHANGED <<record, link, jobs, op, doubt>> /\ proc.pc = "list" /\ proc'.pc = "sync"
      /\ proc'.ret = proc.ret /\ proc'.was = proc.was /\ proc'.old = Ours /\ Active /\ Active'
  BY ByPlace, Parts DEF List, Nothing, live, past, Active, Sound, ProcType
<1>2. BegunOn' = BegunOn /\ To' = To
  BY <1>1 DEF BegunOn, To
<1>3. Tasking(Callers)
  BY <1>1, Parts DEF Tasking, Sound, ProcType
<1>4. Ours \subseteq jobs
  BY DEF Ours, Named
<1>5. OneRelease'
  BY <1>1, <1>4, OneReleaseLess DEF Counted
<1>6. Synced1'
  <2>1. Sync' = Sync
    BY <1>1 DEF Sync, Same, To
  <2>2. New' = {}
    BY <1>1, <2>1 DEF New, Ours, Named
  <2>3. proc.ret \in Quiet => Solo(Ours, op.repl, doubt)
    BY <1>1, <1>4, ByPlace, SoloLess DEF Counted, Giving
  <2>4. op.repl = None /\ proc.ret \in {"install", "rollback"} => Once(Ours, BegunOn, doubt)
    <3> SUFFICES ASSUME op.repl = None, proc.ret \in {"install", "rollback"}
                 PROVE  Once(Ours, BegunOn, doubt)
      OBVIOUS
    <3>1. Once(jobs, BegunOn, doubt)
      BY <1>1 DEF Counted, Standing
    <3>2. Solo(Ours, BegunOn, doubt)
      BY <1>4, <3>1, SoloLess DEF Once
    <3>3. Tasks(BegunOn) \subseteq Tasks(Sync.m) \cup Tasks(Sync.prev)
      BY <1>1, <1>3, SyncReleases, Ends2 DEF Tasks
    <3>4. Full(Ours, BegunOn, doubt)
      BY <3>1, <3>3 DEF Once, Full, Ours, Named
    <3> QED BY <3>2, <3>4 DEF Once
  <2> QED BY <1>1, <1>2, <2>2, <2>3, <2>4 DEF Synced1, AddedOnce
<1>7. record.rel = op.to => BegunOn = op.to
  BY <1>1, ByPlace
<1>8. ~Settling' /\ ~Returned'
  BY <1>1, <1>2, <1>7 DEF Settling, Returned
<1>9. ~Standing'
  <2>1. /\ proc.ret \in Quiet => op.repl # None
        /\ op.from # None => op.repl = None
        /\ proc.ret \in {"install", "rollback", "use", "goback"} => op.step = 1
        /\ proc.ret \in {"use", "goback"} => op.choices = "switch"
        /\ proc.ret \in {"install", "rollback", "use", "goback"} \cup Quiet
    BY <1>1, <1>3, ByPlace, Ends2 DEF TurnedAt, ChosenAt, Callers, Quiet
  <2>2. proc.ret \in {"install", "rollback"} => link[To] = op.to
    BY <1>1 DEF Sound, Shape, Linked, Pointing
  <2> QED BY <1>1, <1>2, <2>1, <2>2 DEF Standing
<1>10. Giving' => Solo(jobs, op.repl, doubt)
  BY <1>1 DEF Counted, Giving
<1> QED BY <1>1, <1>5, <1>6, <1>8, <1>9, <1>10 DEF Counted

(* What a step while tasks are set keeps to, to keep the count.             *)
LEMMA SyncCounted ==
  ASSUME Sound, Counted, Active, UNCHANGED <<record, link, op, doubt>>,
         proc.pc \in {"sync", "undo", "readd"}, proc'.pc \in {"sync", "undo", "readd"},
         proc'.ret = proc.ret, proc'.was = proc.was, OneRelease', AddedOnce',
         proc.ret \in Quiet => Solo(proc'.old, op.repl, doubt),
         op.repl = None /\ proc.ret \in {"install", "rollback"} => Once(proc'.old, BegunOn, doubt),
         Giving' => Solo(jobs', op.repl, doubt)
  PROVE  Counted'
<1>1. BegunOn' = BegunOn /\ To' = To
  BY DEF BegunOn, To
<1>2. Synced1'
  BY <1>1 DEF Synced1
<1>3. record.rel = op.to => BegunOn = op.to
  BY ByPlace
<1>4. ~Settling' /\ ~Returned'
  BY <1>1, <1>3 DEF Settling, Returned
<1>5. ~Standing'
  <2>1. ~Standing
    BY NotStanding
  <2> QED BY <1>1, <2>1 DEF Standing
<1> QED BY <1>2, <1>4, <1>5 DEF Counted, Active

(* Fewer jobs, the list as it was.                                          *)
LEMMA LessCounted ==
  ASSUME Sound, Counted, Active, UNCHANGED <<record, link, op, doubt>>,
         proc.pc \in {"sync", "undo", "readd"}, proc'.pc \in {"sync", "undo", "readd"},
         proc'.ret = proc.ret, proc'.was = proc.was, proc'.old = proc.old, jobs' \subseteq jobs,
         Giving' => Solo(jobs, op.repl, doubt)
  PROVE  Counted'
<1>1. Sync' = Sync /\ New' \subseteq New
  BY DEF Sync, Same, To, New, Ours, Named
<1>2. AddedOnce'
  BY <1>1 DEF Counted, Synced1, Listing, AddedOnce
<1>3. OneRelease'
  BY OneReleaseLess DEF Counted
<1>4. Giving' => Solo(jobs', op.repl, doubt)
  BY SoloLess
<1> QED BY <1>2, <1>3, <1>4, SyncCounted DEF Counted, Synced1, Listing

LEMMA RemoveCounted ==
  Sound /\ Counted /\ (NotSynced \/ Undone \/ \E j \in jobs : Remove(j) \/ UndoAdd(j))
    /\ "twice" \notin Windows => Counted'
<1> SUFFICES ASSUME Sound, Counted, "twice" \notin Windows,
                    NotSynced \/ Undone \/ \E j \in jobs : Remove(j) \/ UndoAdd(j)
             PROVE  Counted'
  OBVIOUS
<1>1. /\ UNCHANGED <<record, link, op, doubt>> /\ jobs' \subseteq jobs
      /\ proc.pc \in {"sync", "undo"} /\ proc'.pc \in {"sync", "undo", "readd"}
      /\ proc'.ret = proc.ret /\ proc'.was = proc.was /\ proc'.old = proc.old
      /\ proc'.pc = "readd" => Undone
  <2>1. proc = [pc |-> proc.pc, ret |-> proc.ret, was |-> proc.was, old |-> proc.old,
                err |-> proc.err]
    BY Parts DEF Sound, ProcType
  <2>2. CASE NotSynced
    BY <2>1, <2>2 DEF NotSynced, At, Nothing, live, past
  <2>3. CASE Undone
    BY <2>1, <2>3 DEF Undone, At, Nothing, live, past
  <2>4. CASE \E j \in jobs : Remove(j) \/ UndoAdd(j)
    BY <2>1, <2>4 DEF Remove, UndoAdd, Answered, At, TheJobs, live, past
  <2> QED BY <2>2, <2>3, <2>4
<1>2. Active
  BY <1>1, ByPlace
<1>3. CASE proc'.pc = "readd"
  <2>1. proc.ret \in Quiet => Solo(jobs, op.repl, doubt)
    <3>1. New = {} \/ ~LeftTwice
      BY <1>1, <1>3 DEF Undone
    <3> QED BY <1>1, <1>2, <3>1, QuietSolo DEF Counted
  <2>2. Giving' => Solo(jobs, op.repl, doubt)
    BY <1>1, <1>2, <2>1 DEF Giving, Counted
  <2> QED BY <1>1, <1>2, <2>2, LessCounted
<1>4. CASE proc'.pc # "readd"
  <2>1. Giving' => Solo(jobs, op.repl, doubt)
    BY <1>1, <1>2, <1>4 DEF Giving, Counted
  <2> QED BY <1>1, <1>2, <2>1, LessCounted
<1> QED BY <1>3, <1>4
LEMMA AddCounted ==
  ASSUME Sound, Counted, NEW n \in Names, Add(n) PROVE Counted'
<1>1. /\ UNCHANGED <<record, link, op, doubt>> /\ proc.pc = "sync" /\ proc'.pc \in {"sync", "undo"}
      /\ proc'.ret = proc.ret /\ proc'.was = proc.was /\ proc'.old = proc.old
      /\ n \in Tasks(Sync.m) /\ n \notin Added /\ Room(n, Sync.m, ~OffBefore(n))
      /\ jobs' = jobs \cup {Another(n, Sync.m, ~OffBefore(n))}
  <2>1. proc = [pc |-> proc.pc, ret |-> proc.ret, was |-> proc.was, old |-> proc.old,
                err |-> proc.err]
    BY Parts DEF Sound, ProcType
  <2> QED BY <2>1 DEF Add, Answered, At, TheJobs, live, past
<1>2. PICK a : a.name = n /\ a.rel = Sync.m /\ jobs' = jobs \cup {a}
  BY <1>1 DEF Another, Job
<1>3. Active /\ Tasking(Callers)
  BY <1>1, ByPlace, Parts DEF Tasking, Sound, ProcType
<1>4. Sync' = Sync
  BY <1>1 DEF Sync, Same, To
<1>5. AddedOnce'
  <2>1. New' \subseteq New \cup {a}
    BY <1>1, <1>2, <1>4 DEF New, Ours, Named
  <2>2. \A i \in New : i.name # a.name
    BY <1>1, <1>2 DEF Added
  <2>3. AddedOnce
    BY <1>1, <1>3 DEF Counted, Synced1, Listing
  <2> QED BY <1>2, <1>4, <2>1, <2>2, <2>3 DEF AddedOnce
<1>6. OneRelease'
  BY <1>1, <1>2, <1>3, SyncReleases DEF Counted, OneRelease
<1>7. Giving' => Solo(jobs', op.repl, doubt)
  <2> SUFFICES ASSUME Giving' PROVE Solo(jobs', op.repl, doubt)
    OBVIOUS
  <2>1. op.repl # None /\ op.choices # "switch" /\ proc.ret \notin Quiet /\ record.rel = op.repl
    BY <1>1 DEF Giving
  <2>2. Solo(jobs, op.repl, doubt)
    BY <1>1, <1>3, <2>1 DEF Counted, Giving
  <2>3. Sync.m = op.to /\ App(op.to) # App(op.repl) /\ op.to \in Maybe
    BY <1>3, <2>1, SyncReleases, Ends2, ByPlace DEF Callers, Quiet, Tasking, ChosenAt, Maybe
  <2>4. \A i \in jobs : i.name = a.name => App(i.rel) # App(op.repl)
    <3> SUFFICES ASSUME NEW i \in jobs, i.name = a.name PROVE App(i.rel) = App(op.to)
      BY <2>3
    <3>1. i.name \in Tasks(i.rel) /\ i.rel \in Maybe /\ i.name \in Tasks(op.to)
      BY <1>1, <1>2, <2>3 DEF Sound, Proper, TypeOK, Task, Maybe
    <3> QED BY <2>3, <3>1, OneAppOfName
  <2> QED BY <1>2, <2>2, <2>3, <2>4 DEF Solo
<1> QED BY <1>1, <1>3, <1>5, <1>6, <1>7, SyncCounted DEF Counted, Synced1, Listing

LEMMA ReaddCounted ==
  ASSUME Sound, Counted, NEW j \in proc.old, Readd(j) PROVE Counted'
<1>1. /\ UNCHANGED <<record, link, op, doubt>> /\ proc.pc = "readd" /\ proc'.pc = "readd"
      /\ proc'.ret = proc.ret /\ proc'.was = proc.was
      /\ j \notin jobs /\ j.name \in Tasks(Sync.prev) /\ Room(j.name, Sync.prev, WasOn(j))
  BY DEF Readd, ToReadd, Gone, TheJobs, live, past
<1>2. PICK again : /\ again.name = j.name /\ again.rel = Sync.prev
                   /\ jobs' = jobs \cup {again} /\ proc'.old = (proc.old \ {j}) \cup {again}
  <2>1. proc = [pc |-> proc.pc, ret |-> proc.ret, was |-> proc.was, old |-> proc.old,
                err |-> proc.err]
    BY Parts DEF Sound, ProcType
  <2>2. /\ jobs' = jobs \cup {Another(j.name, Sync.prev, WasOn(j))}
        /\ proc' = [proc EXCEPT !.old = (@ \ {j}) \cup {Another(j.name, Sync.prev, WasOn(j))}]
    BY DEF Readd
  <2>3. proc'.old = (proc.old \ {j}) \cup {Another(j.name, Sync.prev, WasOn(j))}
    BY <2>1, <2>2
  <2> QED BY <2>2, <2>3 DEF Another, Job
<1>3. Active /\ Tasking(Callers)
  BY <1>1, ByPlace, Parts DEF Tasking, Sound, ProcType
<1>4. Sync' = Sync
  BY <1>1 DEF Sync, Same, To
<1>5. App(again.rel) = App(j.rel) /\ j.rel \in Releases
  <2>1. j.rel \in Releases /\ j.name \in Tasks(j.rel) /\ Sync.prev \in Maybe
    BY <1>3, SyncReleases DEF Sound, Proper, TypeOK, Task
  <2> QED BY <1>1, <1>2, <2>1, OneAppOfName DEF Maybe
<1>6. AddedOnce'
  <2>1. New' \subseteq New
    BY <1>1, <1>2, <1>4 DEF New, Ours, Named
  <2>2. AddedOnce
    BY <1>1, <1>3 DEF Counted, Synced1, Listing
  <2> QED BY <1>4, <2>1, <2>2 DEF AddedOnce
<1>7. proc.ret \notin Quiet
  <2>1. proc.ret \in Quiet => Tasks(Sync.prev) = {}
    BY <1>3, SyncReleases DEF Tasks
  <2> QED BY <1>1, <2>1
<1>8. OneRelease'
  <2>1. op.from = op.to => again.rel = op.to
    <3>1. op.from = op.to => Sync.prev \in {op.to, None}
      BY <1>3, SyncReleases
    <3> QED BY <1>1, <1>2, <3>1 DEF Tasks
  <2>2. OneRelease
    BY <1>3 DEF Counted
  <2> QED BY <1>1, <1>2, <2>1, <2>2 DEF OneRelease
<1>9. op.repl = None /\ proc.ret \in {"install", "rollback"} => Once(proc'.old, BegunOn, doubt)
  <2> SUFFICES ASSUME op.repl = None, proc.ret \in {"install", "rollback"}
               PROVE  Once(proc'.old, BegunOn, doubt)
    OBVIOUS
  <2>1. Once(proc.old, BegunOn, doubt) /\ BegunOn = op.from
    BY <1>1, Ends2, <1>3 DEF Counted, Synced1, Listing
  <2>2. CASE op.from = None
    <3>1. \A i \in proc'.old : App(i.rel) # None
      <4>1. \A i \in proc.old : App(i.rel) # None
        BY AppType, ReleasesAssumption DEF Sound, TypeOK, Task, App
      <4> QED BY <1>2, <1>5, <4>1
    <3> QED BY <2>1, <2>2, <3>1 DEF Once, Solo, Full, App, Tasks
  <2>3. CASE op.from # None
    <3>1. again.rel = op.from
      BY <1>2, <1>3, <2>3, SyncReleases
    <3>2. again.rel \in {j.rel, op.from}
      BY <3>1
    <3>3. /\ Solo(proc.old, op.from, doubt) => Solo((proc.old \ {j}) \cup {again}, op.from, doubt)
          /\ Full(proc.old, op.from, doubt) => Full((proc.old \ {j}) \cup {again}, op.from, doubt)
      BY <1>2, <1>5, <3>2, SoloSwap
    <3> QED BY <1>2, <2>1, <3>3 DEF Once
  <2> QED BY <2>2, <2>3
<1>10. Giving' => Solo(jobs', op.repl, doubt)
  <2> SUFFICES ASSUME Giving' PROVE Solo(jobs', op.repl, doubt)
    OBVIOUS
  <2>1. op.repl # None /\ op.choices # "switch" /\ record.rel = op.repl
    BY <1>1 DEF Giving
  <2>2. Solo(jobs, op.repl, doubt)
    BY <1>1, <1>3, <2>1 DEF Counted, Giving
  <2>3. proc.ret \in {"install", "rollback"}
    BY <1>3, <1>7, <2>1, ByPlace DEF Callers, Quiet, ChosenAt
  <2>4. App(j.rel) \in doubt
    <3>1. KeptTasks = {} /\ Within(proc.old, KeptTasks, doubt)
      BY <1>1, <1>3, <2>1, <2>3, TheNames DEF Sound, Listed, Synching
    <3> QED BY <3>1 DEF Within
  <2>5. \A i \in jobs : i.name = again.name => App(i.rel) = App(again.rel)
    <3> SUFFICES ASSUME NEW i \in jobs, i.name = again.name PROVE App(i.rel) = App(again.rel)
      OBVIOUS
    <3>1. i.name \in Tasks(i.rel) /\ i.rel \in Maybe /\ i.name \in Tasks(Sync.prev) /\ Sync.prev \in Maybe
      BY <1>1, <1>2, <1>3, SyncReleases DEF Sound, Proper, TypeOK, Task, Maybe
    <3> QED BY <1>2, <3>1, OneAppOfName
  <2> QED BY <1>2, <1>5, <2>2, <2>4, <2>5 DEF Solo
<1> QED BY <1>1, <1>3, <1>6, <1>7, <1>8, <1>9, <1>10, SyncCounted

LEMMA SyncedCounted == Sound /\ Counted /\ Synced => Counted'
<1> SUFFICES ASSUME Sound, Counted, Synced PROVE Counted'
  OBVIOUS
<1>1. /\ UNCHANGED <<record, link, jobs, op, doubt>> /\ proc.pc = "sync" /\ AllAdded
      /\ proc.old \cap jobs = {} /\ proc'.old = {} /\ proc'.ret = proc.ret
      /\ proc'.pc = CASE proc.ret = "install"              -> "clean"
                      [] proc.ret \in {"rollback", "use"} -> "record"
                      [] proc.ret = "goback"               -> "gone"
                      [] OTHER                             -> "check"
  <2>1. proc = [pc |-> proc.pc, ret |-> proc.ret, was |-> proc.was, old |-> proc.old,
                err |-> proc.err]
    BY Parts DEF Sound, ProcType
  <2> QED BY <2>1 DEF Synced, Nothing, live, past
<1>2. Active /\ Active' /\ Tasking(Callers) /\ proc.ret \in {"install", "rollback", "use", "goback"} \cup Quiet
  <2>1. Active /\ Tasking(Callers)
    BY <1>1, ByPlace, Parts DEF Tasking, Sound, ProcType
  <2> QED BY <1>1, <2>1, ByPlace DEF Active, Callers, Quiet
<1>3. Once(jobs, Sync.m, doubt)
  BY <1>1, <1>2, SyncedOnce DEF Counted
<1>4. BegunOn' = BegunOn /\ To' = To
  BY <1>1 DEF BegunOn, To
<1>5. /\ op.from # None => op.repl = None
      /\ op.repl # None => op.repl # op.to
      /\ proc.ret \in Quiet => op.repl # None /\ record.rel = op.repl
      /\ TurnedAt => op.step = 1
      /\ ChosenAt => op.choices = "switch"
      /\ record.rel = op.to => BegunOn = op.to
  BY <1>1, <1>2, Ends2, ByPlace
<1>6. ~Standing'
  <2>1. proc.ret \in {"install", "rollback", "use"} => link[To] = op.to
    BY <1>1 DEF Sound, Shape, Linked, Pointing
  <2>2. proc.ret \notin Quiet => op.step = 1
    BY <1>2, <1>5 DEF TurnedAt
  <2>3. proc.ret = "goback" => op.choices = "switch"
    BY <1>5 DEF ChosenAt
  <2> QED BY <1>1, <1>2, <1>4, <1>5, <2>1, <2>2, <2>3 DEF Standing, Quiet
<1>7. CASE proc.ret \in {"install", "rollback", "use"}
  <2>1. Sync.m = op.to /\ proc'.pc \in {"clean", "record"}
    BY <1>1, <1>2, <1>7, SyncReleases
  <2>2. ~Returned' /\ (Giving' => Giving)
    BY <1>1, <1>7, <2>1 DEF Returned, Giving, Quiet
  <2> QED BY <1>1, <1>2, <1>3, <1>6, <2>1, <2>2, CountedMoves
<1>8. CASE proc.ret = "goback"
  <2>1. Sync.m = record.rel /\ proc'.pc = "gone"
    BY <1>1, <1>2, <1>8, SyncReleases
  <2>2. ~Settling' /\ ~Giving'
    BY <1>1, <1>4, <1>5, <1>8, <2>1 DEF Settling, Giving, ChosenAt
  <2> QED BY <1>1, <1>2, <1>3, <1>6, <2>1, <2>2, CountedMoves
<1>9. CASE proc.ret \in Quiet
  <2>1. Sync.m = op.repl /\ proc'.pc = "check"
    BY <1>1, <1>2, <1>9, SyncReleases DEF Quiet
  <2>2. ~Settling' /\ ~Returned'
    BY <1>1, <1>4, <1>5, <2>1 DEF Settling, Returned
  <2> QED BY <1>1, <1>2, <1>3, <1>6, <2>1, <2>2, CountedMoves DEF Once
<1> QED BY <1>2, <1>7, <1>8, <1>9
(* A look after a put-back.                                                 *)
LEMMA CheckCounted == Sound /\ Counted /\ Check => Counted'
<1> SUFFICES ASSUME Sound, Counted, Check PROVE Counted'
  OBVIOUS
<1>1. /\ UNCHANGED <<record, link, jobs>> /\ proc.pc = "check" /\ doubt \subseteq doubt'
      /\ proc.ret \in Quiet /\ Active
  BY ByPlace DEF Check, live, Told
<1>2. /\ op.repl # None /\ record.rel = op.repl /\ op.choices # "switch" /\ op.from = None
      /\ BegunOn = op.repl /\ op.repl # op.to
  BY <1>1, ByPlace, Ends2
<1>3. Solo(jobs, op.repl, doubt)
  BY <1>1, <1>2 DEF Counted, Giving
<1>4. BackOn => Once(jobs, op.repl, doubt)
  BY <1>2, <1>3 DEF Once, Full, BackOn, Named
<1>5. proc = [pc |-> proc.pc, ret |-> proc.ret, was |-> proc.was, old |-> proc.old,
              err |-> proc.err]
  BY Parts DEF Sound, ProcType
<1>6. /\ op'.to = op.to /\ op'.from = op.from /\ op'.repl = op.repl /\ op'.choices # "switch"
      /\ Active'
      /\ proc'.old \subseteq proc.old
      /\ \/ proc'.pc = "outcome" /\ (BackOn \/ doubt' = Told(record.rel))
         \/ proc'.pc = "gone" /\ BackOn
         \/ proc'.pc = "idle"
  <2>0. BackOn \in BOOLEAN
    BY DEF BackOn
  <2>1. CASE op' = op /\ At("outcome") /\ (BackOn \/ doubt' = Told(record.rel))
    BY <1>1, <1>2, <1>5, <2>1 DEF At, Active
  <2>2. CASE op' = op /\ At("gone") /\ BackOn
    BY <1>1, <1>2, <1>5, <2>2 DEF At, Active
  <2>3. CASE op' = op /\ proc' = Idle
    BY <1>1, <1>2, <2>3 DEF Idle, Active
  <2>4. CASE Held("tasks") /\ proc' = Idle
    BY <1>1, <1>2, <2>4, Holds, Parts DEF Idle, Active, Sound
  <2>5. PICK back \in {BackOn, FALSE} :
          CASE proc.ret = "undo"  -> /\ At("outcome") /\ UNCHANGED op
                                     /\ doubt' = IF back THEN doubt ELSE Told(record.rel)
            [] proc.ret = "early" -> /\ UNCHANGED doubt
                                     /\ IF back THEN At("gone") /\ UNCHANGED op
                                        ELSE proc' = Idle /\ Held("tasks")
            [] OTHER              -> /\ UNCHANGED <<op, doubt>>
                                     /\ IF back THEN At("gone") ELSE proc' = Idle
    BY DEF Check
  <2>9. (back = TRUE /\ BackOn) \/ back = FALSE
    BY <2>0
  <2>6. CASE proc.ret = "undo"
    <3>1. op' = op /\ At("outcome") /\ doubt' = IF back THEN doubt ELSE Told(record.rel)
      BY <2>5, <2>6
    <3> QED BY <2>1, <2>9, <3>1
  <2>7. CASE proc.ret = "early"
    <3>1. IF back THEN At("gone") /\ op' = op ELSE proc' = Idle /\ Held("tasks")
      BY <2>5, <2>7
    <3> QED BY <2>2, <2>4, <2>9, <3>1
  <2>8. CASE proc.ret \notin {"undo", "early"}
    <3>1. op' = op /\ IF back THEN At("gone") ELSE proc' = Idle
      BY <2>5, <2>8
    <3> QED BY <2>2, <2>3, <2>9, <3>1
  <2> QED BY <2>6, <2>7, <2>8
<1>7. OneRelease'
  BY <1>1, <1>6, OneReleaseLess DEF Counted
<1>8. Synced1' /\ ~Settling' /\ BegunOn' = BegunOn
  BY <1>1, <1>2, <1>6 DEF Synced1, Listing, Settling, BegunOn
<1>9. Standing' => Once(jobs, op.repl, doubt')
  <2>1. Standing' => proc'.pc = "outcome"
    BY <1>2, <1>6 DEF Standing
  <2>2. App(op.repl) \notin doubt' => doubt' # Told(record.rel)
    BY <1>1, <1>2, Ends2, AppType, ReleasesAssumption DEF Told, App, Maybe
  <2> QED BY <1>1, <1>4, <1>6, <2>1, <2>2, OnceMore, OnceDoubted
<1>10. Returned' => Once(jobs, op.repl, doubt')
  BY <1>1, <1>4, <1>6, OnceMore DEF Returned
<1>11. Solo(jobs, op.repl, doubt')
  BY <1>1, <1>3, SoloLess
<1> QED BY <1>1, <1>2, <1>6, <1>7, <1>8, <1>9, <1>10, <1>11 DEF Counted

(* Every action keeps the tasks counted.                                    *)
LEMMA CountedStep ==
  ASSUME {"clearing", "twice"} \cap Windows = {}
  PROVE  Sound /\ Counted /\ [Next]_vars => Counted'
<1> SUFFICES ASSUME Sound, Counted, [Next]_vars PROVE Counted'
  OBVIOUS
<1>p. RecordType /\ OpType /\ ProcType /\ AskedType /\ Known
  BY Parts DEF Sound, Shape
<1>r. /\ proc = [pc |-> proc.pc, ret |-> proc.ret, was |-> proc.was, old |-> proc.old,
               err |-> proc.err]
      /\ op = [kind |-> op.kind, to |-> op.to, from |-> op.from, repl |-> op.repl,
               step |-> op.step, st |-> op.st, choices |-> op.choices, off |-> op.off,
               conf |-> op.conf]
  BY <1>p DEF ProcType, OpType, OpRow
<1>i. Idle.pc = "idle" /\ Idle.ret = None /\ Idle.old = {}
  BY DEF Idle
<1>e. Active =>
      /\ op.repl # None => op.from = None /\ op.repl # op.to /\ BegunOn = op.repl
      /\ op.repl = None => BegunOn = op.from
      /\ op.from # None => op.repl = None
      /\ op.to # None
  BY Ends2
<1>b. /\ proc.pc \notin {"idle", "stopping"} => Active
      /\ proc.pc = "stopping" => ~Active
      /\ Active /\ op.choices = "switch" => op.step = 1 /\ op.st = "held"
      /\ RunsAt => /\ op.choices = None /\ op.st = "running"
                   /\ proc.pc \notin {"record", "done"} => record.rel = BegunOn
      /\ ChosenAt => op.choices = "switch"
      /\ TurnedAt => op.step = 1
      /\ proc.pc \in {"clear", "prepare", "rollback"} => op.step = 0
      /\ proc.pc = "clear" => op.repl # None
      /\ proc.pc \in {"rollback", "swap", "pointback"} /\ Active => op.repl = None
      /\ proc.pc \in {"landed", "done"} => record.rel = op.to
      /\ Active /\ record.rel = op.to /\ BegunOn # op.to =>
           proc.pc \in {"landed", "done"} \/ (proc.pc = "idle" /\ op.choices # "switch")
  BY ByPlace
<1>o. op'.to = op.to /\ op'.from = op.from /\ op'.repl = op.repl => BegunOn' = BegunOn /\ To' = To
  BY SameNames
<1>u. \A K, r : Solo(jobs, r, doubt) /\ K \subseteq jobs => Solo(K, r, doubt)
  BY SoloLess
<1>n. \A D : Once(jobs, None, D)
  BY OnceNone DEF Sound, TypeOK, Task
<1>d. \A r, D : doubt \subseteq D =>
        (Solo(jobs, r, doubt) => Solo(jobs, r, D)) /\ (Once(jobs, r, doubt) => Once(jobs, r, D))
  BY SoloLess, OnceMore
<1>1. CASE \E kind \in {"install", "update"}, r \in Releases : Ask(kind, r)
  <2>1. UNCHANGED <<record, link, jobs, op, proc, doubt>>
    BY <1>1 DEF Ask, live, past
  <2> QED BY <2>1 DEF Counted, Active, Standing, Settling, Returned, Giving, Synced1, Listing,
     OneRelease, AddedOnce, New, Ours, Sync, Same, To, Named, BegunOn
<1>2. CASE \E kind \in {"install", "update"}, r \in Releases : Change(kind, r)
  BY <1>2, <1>i, BegunCounted DEF Change, Free, live, past
<1>3. CASE RollBack
  <2>1. record.prev \in Releases
    BY <1>3, <1>p, AppType DEF RollBack, RecordType, Maybe
  <2> QED BY <1>3, <1>i, <2>1, BegunCounted DEF RollBack, Change, Free, live, past
<1>4. CASE Fetched
  <2>1. asked.had = record.rel /\ asked.to \in Releases
    BY <1>4, <1>p DEF Fetched, AsItWas, Known, Sound, Rows
  <2> QED BY <1>4, <1>i, <2>1, BegunCounted DEF Fetched, Free, live, past
<1>5. CASE Refused
  <2>1. UNCHANGED <<record, link, jobs, op, proc, doubt>>
    BY <1>5 DEF Refused, live, past
  <2> QED BY <2>1 DEF Counted, Active, Standing, Settling, Returned, Giving, Synced1, Listing,
     OneRelease, AddedOnce, New, Ours, Sync, Same, To, Named, BegunOn
<1>6. CASE StopApp
  <2>1. UNCHANGED <<record, jobs, op, doubt>> /\ ~Active
    BY <1>6 DEF StopApp, Free, Nothing, live, past
  <2>2. Solo(jobs, record.rel, doubt) /\ proc'.pc = "stopping"
    BY <1>6, <2>1 DEF Counted, StopApp, At
  <2> QED BY <2>1, <2>2 DEF Counted, Active
<1>7. CASE \E j \in jobs : Toggle(j)
  <2>1. PICK j \in jobs : Toggle(j)
    BY <1>7
  <2>2. UNCHANGED <<record, op, doubt, proc>> /\ ~Active /\ proc = Idle
    BY <2>1 DEF Toggle, Free, live
  <2> DEFINE i == [j EXCEPT !.on = ~@]
  <2>3. i.name = j.name /\ i.rel = j.rel
    BY DEF Sound, TypeOK, Task
  <2>4. jobs' = (jobs \ {j}) \cup {i}
    BY <2>1 DEF Toggle
  <2> HIDE DEF i
  <2>5. /\ Solo(jobs, record.rel, doubt) => Solo(jobs', record.rel, doubt)
        /\ Full(jobs, record.rel, doubt) => Full(jobs', record.rel, doubt)
    <3>1. App(i.rel) = App(j.rel) /\ i.rel \in {j.rel, record.rel}
      BY <2>3
    <3> QED BY <2>3, <2>4, <3>1, SoloSwap
  <2> QED BY <1>i, <2>2, <2>5 DEF Counted, Active
<1>8. CASE Choose
  <2>1. UNCHANGED <<record, link, stage, jobs, doubt>> /\ proc = Idle /\ op.st = "held" /\ Active
    BY <1>8 DEF Choose, TheRow, live, past, Active
  <2>2. CASE op.choices = "switch" /\ op' = op /\ proc'.pc \in {"use", "go"} /\ proc'.old = {}
    <3>1. ~Standing' /\ ~Returned' /\ ~Giving' /\ (Settling' => Settling) /\ Active'
      BY <1>b, <1>i, <1>o, <2>1, <2>2 DEF Standing, Returned, Giving, Settling, Active
    <3> QED BY <2>1, <2>2, <3>1, CountedMoves
  <2>3. CASE op.choices = "tasks" /\ Undo("choice") /\ op' = op
    <3>1. op.repl # None /\ record.rel = op.repl
      BY <2>1, <2>3 DEF Sound, Recording
    <3>2. proc'.pc = "list" /\ proc'.ret = "choice" /\ proc'.old = {}
      BY <2>3, <3>1, <1>i DEF Undo, Idle
    <3>3. ~Standing' /\ ~Returned' /\ ~Settling' /\ (Giving' => Giving) /\ Active'
      BY <1>e, <1>i, <1>o, <2>1, <2>3, <3>1, <3>2 DEF Standing, Returned, Giving, Settling, Active
    <3> QED BY <2>1, <2>3, <3>2, <3>3, CountedMoves
  <2>4. CASE op.choices = "retry" /\ Decide
    BY <2>1, <2>4, DecidedCounted
  <2> QED BY <1>8, <1>i, <2>1, <2>2, <2>3, <2>4 DEF Choose, UseNew, GoBack, PutTasksBack, Idle
<1>9. CASE Cleared
  <2>1. UNCHANGED <<record, link, op, jobs, doubt>>
    BY <1>9 DEF Cleared, Nothing, live, past
  <2>2. CASE proc.pc = "clear" /\ At("prepare")
    <3>1. ~Standing' /\ ~Returned' /\ (Settling' => Settling) /\ (Giving' => Giving) /\ Active /\ Active'
          /\ proc'.old = proc.old /\ proc'.pc = "prepare"
      BY <1>b, <1>e, <1>o, <1>r, <2>1, <2>2 DEF At, Standing, Returned, Giving, Settling, Active
    <3> QED BY <2>1, <3>1, CountedMoves
  <2>3. CASE proc.pc = "goclear" /\ proc' = [proc EXCEPT !.ret = "goback",
                                        !.pc = IF record.rel = None THEN "gone" ELSE "list"]
    <3>1. op.choices = "switch" /\ op.step = 1 /\ Active /\ Active' /\ proc'.old = proc.old
          /\ proc'.ret = "goback"
          /\ ((proc'.pc = "gone" /\ record.rel = None) \/ proc'.pc = "list")
      BY <1>b, <1>r, <2>1, <2>3 DEF ChosenAt, Active
    <3>2. ~Standing' /\ (Settling' => Settling) /\ ~Giving' /\ (Returned' => Once(jobs, record.rel, doubt))
      BY <1>n, <1>o, <2>1, <2>3, <3>1 DEF Standing, Returned, Giving, Settling
    <3> QED BY <2>1, <3>1, <3>2, CountedMoves
  <2> QED BY <1>9, <2>2, <2>3 DEF Cleared
<1>10. CASE NotCleared
  <2>1. UNCHANGED <<record, link, op, jobs>>
    BY <1>10 DEF NotCleared, Nothing, live, past
  <2>2. CASE proc' = Idle /\ proc.pc = "stopping" /\ doubt' = Told(record.rel)
    <3>1. ~Active /\ (record.rel # None => App(record.rel) \in doubt')
      BY <1>b, <1>p, <2>2, AppType, ReleasesAssumption DEF Told, RecordType, Maybe
    <3>2. Once(jobs, record.rel, doubt')
      BY <1>n, <3>1, OnceDoubted
    <3> QED BY <2>1, <3>1, <3>2 DEF Counted, Active, Once
  <2>3. CASE proc' = Idle /\ proc.pc = "goclear" /\ UNCHANGED doubt
    <3>1. op.choices = "switch" /\ op.step = 1 /\ Active /\ Active'
      BY <1>b, <2>1, <2>3 DEF ChosenAt, Active
    <3>2. ~Standing' /\ ~Settling' /\ ~Giving' /\ ~Returned'
      BY <1>b, <1>i, <1>o, <2>1, <2>3, <3>1 DEF Standing, Returned, Giving, Settling
    <3> QED BY <1>i, <2>1, <2>3, <3>1, <3>2, CountedMoves
  <2> QED BY <1>10, <2>2, <2>3 DEF NotCleared, Nothing, past
<1>11. CASE Stopped
  <2>1. UNCHANGED <<jobs, op>> /\ ~Active /\ record'.rel = None
    BY <1>11, <1>b DEF Stopped, live
  <2> QED BY <1>n, <2>1 DEF Counted, Active, Once
<1>12. CASE \E j \in jobs : TakeOff(j)
  <2>1. UNCHANGED <<op, record, link, proc, doubt>> /\ jobs' \subseteq jobs
    BY <1>12 DEF TakeOff, TheJobs, live, past
  <2>2. proc.pc \in {"clear", "stopping", "goclear"}
    BY <1>12 DEF TakeOff, Leaving, Tasks, Named
  <2>3. CASE proc.pc = "stopping"
    BY <1>b, <1>u, <2>1, <2>3 DEF Counted, Active
  <2>4. CASE proc.pc # "stopping"
    <3>1. Active /\ record.rel # op.to
      <4>1. Active
        BY <1>b, <2>2, <2>4
      <4>2. proc.pc = "goclear" => (op.repl # None /\ record.rel = op.repl) \/ record.rel = None
        BY <4>1 DEF Sound, Listed, Turned
      <4> QED BY <1>b, <1>e, <2>2, <2>4, <4>1, <4>2 DEF RunsAt
    <3>2. ~Standing' /\ ~Settling' /\ ~Returned' /\ (Giving' => Giving)
      BY <1>b, <1>e, <1>o, <2>1, <2>2, <2>4, <3>1 DEF Standing, Returned, Giving, Settling, ChosenAt
    <3>3. OneRelease' /\ Synced1'
      BY <2>1, <2>2, <3>1, OneReleaseLess DEF Counted, Synced1, Listing
    <3> QED BY <1>u, <2>1, <3>1, <3>2, <3>3 DEF Counted, Active
  <2> QED BY <2>3, <2>4
<1>13. CASE Prepare \/ NotPrepared \/ Switch \/ NotSwitched \/ PutBack
  <2>1. /\ UNCHANGED <<record, jobs, doubt>> /\ proc'.old = proc.old /\ RunsAt
        /\ proc.pc \in {"prepare", "switch", "back"}
        /\ proc'.pc \in {"drop", "switch", "back"} \/ (proc'.pc = "list" /\ proc'.ret = "install")
        /\ op'.to = op.to /\ op'.from = op.from /\ op'.repl = op.repl /\ op'.choices = op.choices
        /\ op'.st = op.st
    <3>1. CASE Prepare
      BY <1>r, <3>1 DEF Prepare, past, RunsAt
    <3>2. CASE NotPrepared \/ PutBack
      BY <1>r, <3>2 DEF NotPrepared, PutBack, At, TheVolume, past, RunsAt
    <3>3. CASE Switch \/ NotSwitched
      BY <1>r, <3>3 DEF Switch, NotSwitched, TheVolume, past, RunsAt
    <3> QED BY <1>13, <3>1, <3>2, <3>3
  <2>2. Active /\ Active' /\ record.rel = BegunOn /\ op.choices = None
    BY <1>b, <2>1 DEF Active
  <2>3. ~Returned' /\ (Settling' => Settling) /\ (Giving' => Giving)
    BY <1>o, <2>1, <2>2 DEF Settling, Returned, Giving, Quiet
  <2>4. Standing' => op.repl = None
    BY <1>e, <2>1, <2>2 DEF Standing
  <2>5. op.repl = None => Standing
    BY <2>1 DEF Standing
  <2> QED BY <2>1, <2>2, <2>3, <2>4, <2>5, CountedMoves
<1>18. CASE NotPutBack \/ Drop
  <2>1. /\ UNCHANGED <<record, jobs, doubt, op>> /\ proc.pc \in {"back", "drop"}
        /\ \E e : Catch(e)
    BY <1>18 DEF NotPutBack, Drop, ClearStaging, TheVolume, past
  <2>2. /\ proc'.old = proc.old
        /\ \/ op.repl = None /\ proc'.pc = "outcome"
           \/ op.repl # None /\ proc'.pc = "list" /\ proc'.ret = "undo"
    BY <1>r, <2>1, Catches DEF Ends
  <2>3. Active /\ Active' /\ record.rel = BegunOn /\ op.choices = None
    BY <1>b, <2>1 DEF Active, RunsAt
  <2>4. ~Returned' /\ (Settling' => Settling) /\ (Giving' => Giving)
    BY <1>o, <2>1, <2>2, <2>3 DEF Settling, Returned, Giving, Quiet
  <2>5. Standing' => Standing
    BY <1>e, <2>1, <2>2, <2>3 DEF Standing
  <2> QED BY <2>1, <2>2, <2>3, <2>4, <2>5, CountedMoves
<1>20. CASE Outcome
  <2>1. /\ UNCHANGED <<record, link, jobs, doubt>> /\ proc.pc = "outcome" /\ proc' = Idle /\ Active
        /\ record.rel = BegunOn
    BY <1>20, <1>b DEF Outcome, TheRow, live, past, RunsAt
  <2>2. Once(jobs, BegunOn, doubt)
    BY <2>1 DEF Counted, Standing
  <2>3. CASE proc.err = "held" /\ Held("switch")
    <3>1. op.step = 1
      BY <2>1, <2>3 DEF Sound, Shape, Said, Turning, Switching
    <3>2. /\ op'.to = op.to /\ op'.from = op.from /\ op'.repl = op.repl /\ op'.step = op.step
          /\ op'.choices = "switch" /\ Active'
      BY <1>p, <2>3, Holds DEF Active
    <3>3. ~Settling' /\ ~Giving' /\ ~Returned'
      BY <1>b, <1>i, <1>o, <2>1, <3>2 DEF Returned, Giving, Settling
    <3> QED BY <1>i, <2>1, <2>2, <3>2, <3>3, CountedMoves
  <2>4. CASE Over
    <3>1. ~Active'
      BY <1>r, <2>4 DEF Over, Active
    <3> QED BY <2>1, <2>2, <3>1 DEF Counted, Once
  <2> QED BY <1>20, <2>3, <2>4 DEF Outcome
<1>21. CASE List
  BY <1>21, ListCounted
<1>22. CASE NotListed
  <2>1. proc.pc \in {"list", "undo", "readd"} /\ SyncFails(proc.pc # "list") /\ ~LeftTwice
    BY <1>22 DEF NotListed
  <2> QED BY <1>b, <2>1, FailedCounted
<1>24. CASE Synced
  BY <1>24, SyncedCounted
<1>25. CASE \E n \in Names : Add(n)
  BY <1>25, AddCounted
<1>26. CASE NotSynced \/ Undone \/ \E j \in jobs : Remove(j) \/ UndoAdd(j)
  BY <1>26, RemoveCounted
<1>29. CASE \E j \in proc.old : Readd(j)
  BY <1>29, ReaddCounted
<1>30. CASE Readded
  <2>1. proc.pc = "readd" /\ SyncFails(New # {} \/ Gone # {})
    BY <1>30 DEF Readded
  <2>2. (New # {} \/ Gone # {}) \in BOOLEAN
    OBVIOUS
  <2> QED BY <1>b, <2>1, <2>2, FailedCounted
<1>31. CASE Check
  BY <1>31, CheckCounted
<1>32. CASE Rollback \/ Swap \/ PointBack
  <2>1. /\ UNCHANGED <<record, jobs, doubt>> /\ proc'.old = proc.old /\ RunsAt
        /\ proc.pc \in {"rollback", "swap", "pointback"}
        /\ proc'.pc \in {"swap", "outcome"} \/ (proc'.pc = "list" /\ proc'.ret = "rollback")
        /\ op'.to = op.to /\ op'.from = op.from /\ op'.repl = op.repl /\ op'.choices = op.choices
        /\ op'.st = op.st
    <3>1. CASE Rollback
      BY <1>r, <3>1 DEF Rollback, TheRow, live, past, RunsAt
    <3>2. CASE Swap \/ PointBack
      BY <1>r, <3>2 DEF Swap, PointBack, Pointed, Ends, Sets, TheVolume, Nothing, live, past, RunsAt
    <3> QED BY <1>32, <3>1, <3>2
  <2>2. Active /\ Active' /\ record.rel = BegunOn /\ op.repl = None
    BY <1>b, <2>1 DEF Active
  <2>3. ~Returned' /\ (Settling' => Settling) /\ ~Giving' /\ Standing
    BY <1>b, <1>o, <2>1, <2>2 DEF Settling, Returned, Giving, Standing
  <2> QED BY <2>1, <2>2, <2>3, CountedMoves
<1>35. CASE UseConfig \/ UseLink \/ GoConfig \/ GoLink
  <2>1. /\ UNCHANGED <<record, jobs, doubt, op>> /\ ChosenAt
        /\ proc.pc \in {"use", "uselink", "go", "golink"}
        /\ proc'.old \subseteq proc.old
        /\ \/ proc'.pc \in {"idle", "uselink", "golink", "goclear"}
           \/ proc'.pc = "list" /\ proc'.ret \in {"use", "goback"}
    <3>1. CASE UseConfig \/ GoConfig
      BY <1>i, <1>r, <3>1 DEF UseConfig, GoConfig, At, TheVolume, past, ChosenAt
    <3>2. CASE UseLink \/ GoLink
      BY <1>i, <1>r, <3>2 DEF UseLink, GoLink, Pointed, Sets, At, TheVolume, past, ChosenAt
    <3> QED BY <1>35, <3>1, <3>2
  <2>2. Active /\ Active' /\ op.choices = "switch" /\ op.step = 1
    BY <1>b, <2>1 DEF Active
  <2>3. ~Standing' /\ ~Returned' /\ ~Settling' /\ ~Giving'
    BY <1>b, <1>o, <2>1, <2>2 DEF Settling, Returned, Giving, Standing
  <2> QED BY <2>1, <2>2, <2>3, CountedMoves
<1>39. CASE Clean
  <2>1. /\ UNCHANGED <<record, link, jobs, doubt, op>> /\ proc'.old = proc.old /\ proc'.ret = proc.ret
        /\ \/ proc.pc \in {"clean", "landed"} /\ proc'.pc \in {"record", "done"}
           \/ proc.pc = "gone" /\ proc'.pc = "rolled"
    BY <1>39, <1>r DEF Clean, ClearStaging, At, TheVolume, past
  <2>2. Active /\ Active'
    BY <1>b, <2>1 DEF Active
  <2>3. (Standing' => Standing) /\ (Returned' => Returned) /\ (Settling' => Settling) /\ (Giving' => Giving)
    BY <1>b, <1>o, <2>1 DEF Settling, Returned, Giving, Standing
  <2> QED BY <2>1, <2>2, <2>3, CountedMoves
<1>40. CASE Record
  <2>1. /\ UNCHANGED <<link, jobs, doubt, op>> /\ proc.pc = "record" /\ record'.rel = op.to
        /\ proc'.pc \in {"landed", "done"} /\ proc'.old = proc.old
    BY <1>40, <1>r DEF Record, At, live, past
  <2>2. Active /\ Active' /\ op.step = 1
    BY <1>b, <2>1 DEF Active, TurnedAt
  <2>3. ~Standing' /\ ~Returned' /\ ~Giving'
    BY <1>e, <2>1, <2>2 DEF Standing, Returned, Giving
  <2>4. Once(jobs, op.to, doubt)
    BY <2>1, <2>2 DEF Counted, Settling
  <2>5. OneRelease' /\ Synced1'
    BY <2>1, <2>2, OneReleaseLess DEF Counted, Synced1, Listing
  <2> QED BY <2>1, <2>2, <2>3, <2>4, <2>5 DEF Counted
<1>41. CASE Done \/ RolledBack
  <2>1. /\ UNCHANGED <<record, jobs, doubt>> /\ proc.pc \in {"done", "rolled"} /\ Over
    BY <1>41 DEF Done, RolledBack, TheRow, live, past
  <2>2. Active /\ ~Active' /\ Once(jobs, record.rel, doubt)
    BY <1>b, <1>r, <2>1 DEF Over, Active, Counted, Settling, Returned
  <2> QED BY <2>1, <2>2 DEF Counted, Once
<1>43. CASE Resume
  <2>1. UNCHANGED <<record, link, stage, jobs, doubt>> /\ proc = Idle /\ Decide /\ Active
        /\ op.choices \notin {"tasks", "switch"}
    BY <1>43 DEF Resume, TheRow, live, past, Active, Sound, Rows, None
  <2> QED BY <2>1, DecidedCounted
<1>44. CASE Die
  <2>1. /\ UNCHANGED <<record, link, jobs>> /\ proc' = Idle /\ doubt \subseteq doubt'
        /\ op'.to = op.to /\ op'.step = op.step /\ op'.repl = op.repl /\ ~LeftTwice
        /\ op'.from = op.from /\ op'.choices = op.choices /\ (Active' <=> Active)
    BY <1>44, <1>r DEF Die, CutOff, Running, live, Told, Active
  <2>2. CASE ~Active
    <3>1. CASE proc.pc = "stopping"
      <4>1. doubt' = Told(record.rel)
        BY <1>44, <3>1 DEF Die
      <4>2. record.rel # None => App(record.rel) \in doubt'
        BY <1>p, <4>1, AppType, ReleasesAssumption DEF Told, RecordType, Maybe
      <4>3. Once(jobs, record.rel, doubt')
        BY <1>n, <4>2, OnceDoubted
      <4> QED BY <2>1, <2>2, <4>3 DEF Counted, Once
    <3>2. CASE proc.pc # "stopping"
      <4>1. Once(jobs, record.rel, doubt)
        BY <2>2, <3>2 DEF Counted, Once
      <4> QED BY <1>d, <2>1, <2>2, <4>1 DEF Counted, Once
    <3> QED BY <3>1, <3>2
  <2>3. CASE Active
    <3>1. doubt' = doubt
      BY <1>44, <1>b, <2>3 DEF Die
    <3>2. (Standing' => Standing) /\ (Settling' => Settling) /\ ~Returned'
      BY <1>i, <1>o, <2>1 DEF Standing, Settling, Returned
    <3>3. Giving' => Solo(jobs, op.repl, doubt)
      <4>1. CASE proc.pc \in {"sync", "undo"} /\ proc.ret \in Quiet
        BY <2>1, <2>3, <4>1, QuietSolo DEF Counted
      <4>2. CASE ~(proc.pc \in {"sync", "undo"} /\ proc.ret \in Quiet)
        BY <2>1, <2>3, <4>2 DEF Counted, Giving
      <4> QED BY <4>1, <4>2
    <3> QED BY <1>i, <2>1, <2>3, <3>1, <3>2, <3>3, CountedMoves
  <2> QED BY <2>2, <2>3
<1>45. CASE Rest \/ UNCHANGED vars
  <2>1. UNCHANGED <<record, link, jobs, op, proc, doubt>>
    BY <1>45 DEF Rest, vars, live, past
  <2> QED BY <2>1 DEF Counted, Active, Standing, Settling, Returned, Giving, Synced1, Listing,
     OneRelease, AddedOnce, New, Ours, Sync, Same, To, Named, BegunOn
<1> QED BY <1>1, <1>2, <1>3, <1>4, <1>5, <1>6, <1>7, <1>8, <1>9, <1>10, <1>11, <1>12,
   <1>13, <1>18, <1>20, <1>21, <1>22, <1>24, <1>25, <1>26, <1>29, <1>30, <1>31, <1>32,
   <1>35, <1>39, <1>40, <1>41, <1>43, <1>44, <1>45
       DEF Next, Owner, Step, Removing, Installing, Syncing, Choosing, Ending
-----------------------------------------------------------------------------
(* What holds at first and throughout.                                      *)
LEMMA SoundCounted ==
  ASSUME {"clearing", "both", "recorded", "twice"} \cap Windows = {}
  PROVE  /\ Init => Sound /\ Counted
         /\ Sound /\ Counted /\ [Next]_vars => Sound' /\ Counted'
<1>1. ASSUME Init PROVE Sound /\ Counted
  <2>1. Sound
    BY <1>1, InitShape, RowsInit, FiniteInit, ListedInit DEF Sound
  <2>2. jobs = {Job(n, record.rel, TRUE, 0) : n \in Tasks(record.rel)} /\ ~Active
    BY <1>1 DEF Init, Active
  <2>3. Once(jobs, record.rel, doubt)
    <3>1. \A n : Job(n, record.rel, TRUE, 0).name = n /\ Job(n, record.rel, TRUE, 0).rel = record.rel
      BY DEF Job
    <3>2. \A j \in jobs : j = Job(j.name, record.rel, TRUE, 0)
      BY <2>2, <3>1
    <3>3. \A n \in Tasks(record.rel) : Job(n, record.rel, TRUE, 0) \in jobs
      BY <2>2
    <3> QED BY <3>1, <3>2, <3>3 DEF Once, Solo, Full
  <2> QED BY <2>1, <2>2, <2>3 DEF Counted, Once
<1>2. ASSUME Sound, Counted, [Next]_vars PROVE Sound' /\ Counted'
  <2>1. TypeOK' /\ Shape' /\ Rows' /\ Turns' /\ Callings'
    BY <1>2, TypeStep, ShapeStep, RowsStep, TurnsStep, CallingsStep DEF Shape, Sound
  <2>2. Proper' /\ Finite'
    BY <1>2, ProperStep, FiniteStep DEF Sound
  <2>3. Recording' /\ Links' /\ Listed'
    BY <1>2, LinksStep, ListedStep DEF Sound
  <2> QED BY <1>2, <2>1, <2>2, <2>3, CountedStep DEF Sound
<1> QED BY <1>1, <1>2

(* Once a change is over, with its owner told that all is well, the link is *)
(* at the recorded release, each of its tasks is on the agent once and no   *)
(* job of another release or app is, whatever failed or died on the way     *)
(* (apps.ts, appOperations.ts): but for a replaced app's tasks that do not  *)
(* all come off ("clearing"), "Use the new one" with the old ones running   *)
(* ("both"), a death in "recorded", and a put-back that fails or dies with  *)
(* a task there twice ("twice").                                            *)
THEOREM SettledAgrees ==
  ASSUME {"clearing", "both", "recorded", "twice"} \cap Windows = {}
  PROVE  Spec => []Agrees
<1>1. ASSUME Sound, Counted PROVE Agrees
  <2> SUFFICES ASSUME Settled, App(record.rel) \notin doubt
               PROVE  /\ record.rel # None => link[App(record.rel)] = record.rel
                      /\ \A n \in Tasks(record.rel) : Times(n) = 1
                      /\ \A j \in jobs : j.rel = record.rel \/ App(j.rel) \in doubt
    BY DEF Agrees
  <2>1. ~Active /\ proc.pc = "idle" /\ record.rel \in Maybe
    BY <1>1 DEF Settled, Idle, Sound, TypeOK
  <2>2. /\ Solo(jobs, record.rel, doubt) /\ Full(jobs, record.rel, doubt)
        /\ Within(jobs, Tasks(record.rel), doubt)
    BY <1>1, <2>1 DEF Counted, Sound, Listed
  <2>3. record.rel # None => link[App(record.rel)] = record.rel
    BY <1>1, <2>1 DEF Sound, Links
  <2>4. ASSUME NEW n \in Tasks(record.rel) PROVE Times(n) = 1
    <3>1. PICK j \in jobs : j.name = n
      BY <2>2 DEF Full
    <3>2. App(j.rel) = App(record.rel)
      <4>1. j.name \in Tasks(j.rel) /\ j.rel \in Maybe
        BY <1>1 DEF Sound, Proper, TypeOK, Task, Maybe
      <4> QED BY <2>1, <2>4, <3>1, <4>1, OneAppOfName
    <3>3. \A i \in jobs : i.name = n => i = j
      BY <2>2, <3>1, <3>2 DEF Solo
    <3> QED BY <1>1, <3>1, <3>3, CountOne DEF Sound
  <2>5. ASSUME NEW j \in jobs, App(j.rel) \notin doubt PROVE j.rel = record.rel
    <3>1. App(j.rel) = App(record.rel)
      BY <1>1, <2>1, <2>2, <2>5, OfTheApp DEF Sound
    <3> QED BY <2>2, <3>1 DEF Solo
  <2> QED BY <2>3, <2>4, <2>5
<1> QED BY <1>1, SoundCounted, PTL DEF Spec
-----------------------------------------------------------------------------
(* What the owner turned off.  Fewer jobs, and more doubt.                  *)
LEMMA RightLess ==
  \A J, K, O, D, E : Right(J, O, D) /\ K \subseteq J /\ D \subseteq E => Right(K, O, E)
BY DEF Right

LEMMA ThereMore ==
  \A J, K, O, r : There(J, O, r) /\ J \subseteq K => There(K, O, r)
BY DEF There

LEMMA ThereNone == \A J, O : There(J, O, None)
BY DEF There, Tasks

(* A step of a change that adds no job keeps what was off.                  *)
LEMMA AsLeftKeeps ==
  ASSUME Sound, AsLeft, Active, Active', UNCHANGED <<record, offs>>, jobs' \subseteq jobs,
         doubt \subseteq doubt', op'.to = op.to, op'.from = op.from, op'.repl = op.repl,
         op'.off = op.off,
         Listing' => Right(proc'.old, offs, doubt'),
         op.repl = None /\ To \notin doubt' =>
           /\ Choices' => There(jobs', offs, record.rel)
           /\ Listing' => There(proc'.old, offs, record.rel)
  PROVE  AsLeft'
<1>1. OldTasks' = OldTasks /\ To' = To
  BY SameNames
<1>2. Right(jobs', offs, doubt')
  BY RightLess DEF AsLeft
<1> QED BY <1>1, <1>2 DEF AsLeft

(* One that sets no tasks besides, and leaves them alone.                   *)
LEMMA AsLeftMoves ==
  ASSUME Sound, AsLeft, Active, Active', UNCHANGED <<record, offs, jobs, doubt>>,
         op'.to = op.to, op'.from = op.from, op'.repl = op.repl, op'.off = op.off,
         proc'.pc \notin {"sync", "undo", "readd"},
         op.repl = None /\ To \notin doubt /\ Choices' => Choices \/ There(jobs, offs, record.rel)
  PROVE  AsLeft'
<1>1. ~Listing'
  BY DEF Listing
<1> QED BY <1>1, AsLeftKeeps DEF AsLeft

(* The old tasks that are off have a job each, while nothing is set yet.    *)
LEMMA StandingThere ==
  ASSUME Sound, Active, op.repl = None, To \notin doubt, Once(jobs, BegunOn, doubt)
  PROVE  There(jobs, offs, BegunOn)
<1>1. CASE BegunOn = None
  BY <1>1, ThereNone
<1>2. CASE BegunOn # None
  BY <1>2, Ends2 DEF Once, Full, There
<1> QED BY <1>1, <1>2

(* While tasks are set the record is the one from before.                   *)
LEMMA TaskingRecord ==
  ASSUME Sound, Active, proc.pc \notin {"idle", "landed", "done"}
  PROVE  /\ record.rel = BegunOn /\ OldTasks = Tasks(record.rel)
         /\ op.repl = None /\ record.rel # None => Same(record.rel) /\ App(record.rel) = To
         /\ op.repl # None => record.rel = op.repl /\ ~Same(record.rel)
<1>1. record.rel = BegunOn
  BY Ends2, ByPlace
<1> QED BY <1>1, Ends2 DEF OldTasks, Same

(* A change begins with a note of what was off.                             *)
LEMMA BegunAsLeft ==
  ASSUME Sound, Counted, AsLeft, ~Active, proc.pc # "stopping", NEW kind, NEW to \in Releases,
         Begin(kind, to, record.rel), UNCHANGED <<record, jobs, doubt, offs>>
  PROVE  AsLeft'
<1>1. /\ IF App(record.rel) = AppOf[to] THEN op'.from = record.rel /\ op'.repl = None
                                 ELSE op'.from = None /\ op'.repl = record.rel
      /\ proc'.pc \in {"rollback", "prepare", "clear"} /\ Active'
  BY BegunRow DEF Active
<1>2. OldTasks' = Tasks(record.rel)
  BY <1>1 DEF OldTasks, BegunOn
<1>3. ~Choices' /\ ~Listing'
  BY <1>1 DEF Choices, Listing
<1>4. op'.repl # None => op'.off = offs \/ App(op'.repl) \in doubt
  <2> SUFFICES ASSUME op'.repl # None, App(op'.repl) \notin doubt PROVE op'.off = offs
    OBVIOUS
  <2>1. op'.repl = record.rel /\ record.rel \in Maybe /\ offs \subseteq Tasks(record.rel)
    BY <1>1 DEF Sound, TypeOK, AsLeft
  <2>2. op'.off = {j.name : j \in {i \in Named(Tasks(record.rel)) : ~i.on}}
    BY <1>1, <2>1 DEF Begin
  <2>3. Full(jobs, record.rel, doubt) /\ Right(jobs, offs, doubt)
    BY DEF Counted, AsLeft
  <2>4. \A j \in jobs : j.name \in Tasks(record.rel) => App(j.rel) = App(record.rel)
    <3> SUFFICES ASSUME NEW j \in jobs, j.name \in Tasks(record.rel)
                 PROVE  App(j.rel) = App(record.rel)
      OBVIOUS
    <3>1. j.name \in Tasks(j.rel) /\ j.rel \in Maybe
      BY DEF Sound, Proper, TypeOK, Task, Maybe
    <3> QED BY <2>1, <3>1, OneAppOfName
  <2>5. \A j \in jobs : j.name \in Tasks(record.rel) => (j.on <=> j.name \notin offs)
    BY <2>1, <2>3, <2>4 DEF Right
  <2>6. \A n \in offs : \E j \in jobs : j.name = n
    BY <2>1, <2>3 DEF Full
  <2> QED BY <2>1, <2>2, <2>5, <2>6 DEF Named
<1> QED BY <1>1, <1>2, <1>3, <1>4 DEF AsLeft

LEMMA ListAsLeft == Sound /\ Counted /\ AsLeft /\ List => AsLeft'
<1> SUFFICES ASSUME Sound, Counted, AsLeft, List PROVE AsLeft'
  OBVIOUS
<1>1. /\ UNCHANGED <<record, jobs, op, doubt, offs>> /\ proc.pc = "list" /\ proc'.pc = "sync"
      /\ proc'.old = Ours /\ Active /\ Active'
  BY ByPlace, Parts DEF List, Nothing, live, past, Active, Sound, ProcType
<1>2. Tasking(Callers) /\ proc.ret \in {"install", "rollback", "use", "goback"} \cup Quiet
  <2>1. Tasking(Callers)
    BY <1>1, Parts DEF Tasking, Sound, ProcType
  <2> QED BY <2>1, ByPlace DEF Callers, Quiet
<1>3. Right(Ours, offs, doubt)
  BY RightLess DEF AsLeft, Ours, Named
<1>4. ASSUME op.repl = None, To \notin doubt PROVE There(Ours, offs, record.rel)
  <2>1. record.rel = BegunOn
    BY <1>1, TaskingRecord
  <2>2. There(jobs, offs, record.rel)
    <3>1. CASE proc.ret \in {"install", "rollback"}
      <4>1. Once(jobs, BegunOn, doubt)
        BY <1>1, <1>4, <3>1 DEF Counted, Standing
      <4> QED BY <1>1, <1>4, <2>1, <4>1, StandingThere
    <3>2. CASE proc.ret \in {"use", "goback"}
      BY <1>1, <1>4, <3>2 DEF AsLeft, Choices
    <3>3. CASE proc.ret \in Quiet
      BY <1>4, <3>3, ByPlace
    <3> QED BY <1>2, <3>1, <3>2, <3>3
  <2>3. Tasks(record.rel) \subseteq Tasks(Sync.m) \cup Tasks(Sync.prev)
    <3>1. CASE record.rel = None
      BY <3>1 DEF Tasks
    <3>2. CASE record.rel # None
      <4>1. Same(record.rel) /\ proc.ret \notin Quiet /\ op.from = record.rel
        BY <1>1, <1>4, <2>1, <3>2, TaskingRecord, ByPlace, Ends2
      <4>2. record.rel \in {Sync.m, Sync.prev}
        <5>1. CASE proc.ret \in {"install", "rollback"}
          BY <1>1, <1>2, <1>4, <3>2, <4>1, <5>1, SyncReleases
        <5>2. CASE proc.ret \in {"use", "goback"}
          BY <4>1, <5>2 DEF Sync
        <5> QED BY <1>2, <4>1, <5>1, <5>2
      <4> QED BY <4>2
    <3> QED BY <3>1, <3>2
  <2> QED BY <2>2, <2>3 DEF There, Ours, Named
<1>5. ~Choices'
  BY <1>1 DEF Choices
<1> QED BY <1>1, <1>3, <1>4, <1>5, AsLeftKeeps

(* A sync that failed: the caller whose choice it was goes back to waiting. *)
LEMMA FailedAsLeft ==
  ASSUME Sound, AsLeft, Active, proc.pc \in {"list", "undo", "readd"}, NEW u \in BOOLEAN, SyncFails(u),
         ~u => proc.pc = "list" \/ (proc.pc = "readd" /\ New = {} /\ Gone = {})
  PROVE  AsLeft'
<1>1. /\ UNCHANGED <<record, jobs, op, offs>> /\ doubt \subseteq doubt' /\ Active'
      /\ u /\ proc.ret \notin Quiet => doubt' = Told(Sync.m)
  BY DEF SyncFails, live, Told, Active
<1>2. /\ proc'.pc \in {"idle", "back", "pointback", "check"}
      /\ proc'.pc = "idle" => proc.ret \in {"use", "goback"}
  BY FailedAt DEF Quiet
<1>3. ~Listing' /\ (Choices' => proc.ret \in {"use", "goback"})
  BY <1>2 DEF Listing, Choices
<1>4. ASSUME op.repl = None, To \notin doubt', proc.ret \in {"use", "goback"}
      PROVE  There(jobs, offs, record.rel)
  <2>0. To \notin doubt
    BY <1>1, <1>4
  <2>1. CASE proc.pc = "list"
    BY <1>4, <2>0, <2>1 DEF AsLeft, Choices
  <2>2. CASE proc.pc = "readd" /\ New = {} /\ Gone = {}
    <3>1. There(proc.old, offs, record.rel)
      BY <1>4, <2>0, <2>2 DEF AsLeft, Listing
    <3> QED BY <2>2, <3>1, ThereMore DEF Gone
  <2>3. CASE u /\ proc.pc # "list"
    <3>1. Tasking(Callers) /\ doubt' = Told(Sync.m)
      BY <1>1, <1>4, <2>3, Parts DEF Tasking, Sound, ProcType, Quiet
    <3>2. Sync.m \in {op.to, record.rel}
      BY <1>4, <3>1, SyncReleases
    <3>3. record.rel # None => App(record.rel) = To
      BY <1>4, TaskingRecord
    <3>4. Sync.m # None => To \in doubt'
      BY <3>1, <3>2, <3>3, Ends2 DEF Told
    <3>5. Sync.m = None => record.rel = None
      BY <3>2, Ends2
    <3> QED BY <1>4, <3>4, <3>5, ThereNone
  <2> QED BY <2>1, <2>2, <2>3
<1> QED BY <1>1, <1>3, <1>4, AsLeftKeeps

(* A task set anew is on or off as the old job of its name was; with none,  *)
(* as the operation's row says.                                             *)
LEMMA OffAsLeft ==
  ASSUME Sound, AsLeft, Active, proc.pc = "sync", NEW n \in Tasks(Sync.m), App(Sync.m) \notin doubt
  PROVE  OffBefore(n) <=> n \in offs
<1>1. Tasking(Callers) /\ proc.ret \in {"install", "rollback", "use", "goback"} \cup Quiet
  <2>1. Tasking(Callers)
    BY Parts DEF Tasking, Sound, ProcType
  <2> QED BY <2>1, ByPlace DEF Callers, Quiet
<1>2. Sync.m \in Releases /\ Sync.m # None /\ op.to \in Maybe /\ BegunOn \in Maybe
  BY <1>1, SyncReleases, TasksType, Ends2 DEF Maybe, Tasks
<1>3. /\ Right(proc.old, offs, doubt) /\ offs \subseteq OldTasks
      /\ op.repl # None => op.off = offs \/ App(op.repl) \in doubt
      /\ op.repl = None /\ To \notin doubt => There(proc.old, offs, record.rel)
  BY DEF AsLeft, Listing
<1>4. ASSUME NEW j \in proc.old, j.name = n PROVE j.on <=> n \notin offs
  <2>1. j.name \in Tasks(j.rel) /\ j.rel \in Maybe /\ Sync.m \in Maybe
    BY <1>2, <1>4 DEF Sound, Proper, TypeOK, Task, Maybe
  <2>2. App(j.rel) = App(Sync.m)
    BY <1>4, <2>1, OneAppOfName
  <2> QED BY <1>3, <1>4, <2>2 DEF Right
<1>5. CASE {j \in proc.old : j.name = n} # {}
  BY <1>4, <1>5 DEF OffBefore
<1>6. CASE {j \in proc.old : j.name = n} = {}
  <2>1. OffBefore(n) <=> n \in Sync.off
    BY <1>6 DEF OffBefore
  <2>2. record.rel = BegunOn /\ OldTasks = Tasks(record.rel)
    BY TaskingRecord
  <2>3. CASE op.repl = None
    <3>1. To \notin doubt /\ proc.ret \notin Quiet
      <4>1. Sync.m \in {op.to, record.rel} /\ proc.ret \notin Quiet
        BY <1>1, <2>3, SyncReleases, ByPlace
      <4>2. App(Sync.m) = To
        BY <1>2, <2>3, <4>1, TaskingRecord, Ends2
      <4> QED BY <4>1, <4>2
    <3>2. n \notin offs
      BY <1>3, <1>6, <2>2, <2>3, <3>1 DEF There
    <3>3. proc.ret = "goback" => Same(record.rel)
      BY <1>1, <1>2, <2>3, SyncReleases, TaskingRecord
    <3>4. Sync.off = {}
      BY <1>1, <3>1, <3>3 DEF Sync, Quiet
    <3> QED BY <2>1, <3>2, <3>4
  <2>4. CASE op.repl # None
    <3>0. record.rel = op.repl /\ ~Same(record.rel) /\ OldTasks = Tasks(op.repl) /\ op.repl \in Maybe
      BY <2>2, <2>4, TaskingRecord, Ends2
    <3>1. CASE proc.ret \in {"goback"} \cup Quiet
      <4>1. Sync.m = op.repl
        BY <1>1, <3>0, <3>1, SyncReleases
      <4>2. Sync.off = op.off
        BY <3>0, <3>1 DEF Sync, Quiet
      <4> QED BY <1>3, <2>1, <2>4, <4>1, <4>2
    <3>2. CASE proc.ret \in {"install", "rollback", "use"}
      <4>1. Sync.m = op.to /\ Sync.off = {}
        BY <1>1, <3>2, SyncReleases DEF Sync
      <4>2. n \notin Tasks(op.repl)
        BY <1>2, <2>4, <3>0, <4>1, OneAppOfName, Ends2
      <4> QED BY <1>3, <2>1, <3>0, <4>1, <4>2
    <3> QED BY <1>1, <3>1, <3>2
  <2> QED BY <2>3, <2>4
<1> QED BY <1>5, <1>6

LEMMA AddAsLeft ==
  ASSUME Sound, AsLeft, NEW n \in Names, Add(n) PROVE AsLeft'
<1>1. /\ UNCHANGED <<record, op, doubt, offs>> /\ proc.pc = "sync" /\ proc'.pc \in {"sync", "undo"}
      /\ proc'.old = proc.old
      /\ n \in Tasks(Sync.m)
      /\ jobs' = jobs \cup {Another(n, Sync.m, ~OffBefore(n))}
  <2>1. proc = [pc |-> proc.pc, ret |-> proc.ret, was |-> proc.was, old |-> proc.old,
                err |-> proc.err]
    BY Parts DEF Sound, ProcType
  <2> QED BY <2>1 DEF Add, Answered, At, TheJobs, live, past
<1>2. PICK a : a.name = n /\ a.rel = Sync.m /\ (a.on <=> ~OffBefore(n)) /\ jobs' = jobs \cup {a}
  <2>1. OffBefore(n) \in BOOLEAN
    <3>1. CASE {j \in proc.old : j.name = n} = {}
      <4>1. OffBefore(n) = (n \in Sync.off)
        BY <3>1 DEF OffBefore
      <4> QED BY <4>1
    <3>2. CASE {j \in proc.old : j.name = n} # {}
      <4>1. OffBefore(n) = (\A j \in {i \in proc.old : i.name = n} : ~j.on)
        BY <3>2 DEF OffBefore
      <4> QED BY <4>1
    <3> QED BY <3>1, <3>2
  <2> DEFINE o == ~OffBefore(n)
  <2>2. PICK k : Another(n, Sync.m, o) = Job(n, Sync.m, o, k)
    BY DEF Another
  <2>3. o \in BOOLEAN
    BY <2>1
  <2> HIDE DEF o
  <2>4. LET a == Job(n, Sync.m, o, k) IN a.name = n /\ a.rel = Sync.m /\ (a.on <=> o)
    BY <2>3 DEF Job
  <2> QED BY <1>1, <2>2, <2>4 DEF o
<1>3. Active /\ Active'
  BY <1>1, ByPlace DEF Active
<1>4. App(a.rel) \notin doubt => (a.on <=> n \notin offs)
  BY <1>1, <1>2, <1>3, OffAsLeft
<1>5. Right(jobs', offs, doubt)
  BY <1>2, <1>4 DEF AsLeft, Right
<1>6. OldTasks' = OldTasks /\ To' = To /\ ~Choices'
  BY <1>1 DEF OldTasks, BegunOn, To, Choices
<1> QED BY <1>1, <1>3, <1>5, <1>6 DEF AsLeft, Listing

LEMMA ReaddAsLeft ==
  ASSUME Sound, AsLeft, NEW j \in proc.old, Readd(j) PROVE AsLeft'
<1>1. /\ UNCHANGED <<record, op, doubt, offs>> /\ proc.pc = "readd" /\ proc'.pc = "readd"
      /\ j.name \in Tasks(Sync.prev)
  BY DEF Readd, ToReadd, Gone, TheJobs, live, past
<1>2. PICK again : /\ again.name = j.name /\ again.rel = Sync.prev /\ again.on = j.on
                   /\ jobs' = jobs \cup {again} /\ proc'.old = (proc.old \ {j}) \cup {again}
  <2>1. proc = [pc |-> proc.pc, ret |-> proc.ret, was |-> proc.was, old |-> proc.old,
                err |-> proc.err]
    BY Parts DEF Sound, ProcType
  <2>2. /\ jobs' = jobs \cup {Another(j.name, Sync.prev, WasOn(j))}
        /\ proc' = [proc EXCEPT !.old = (@ \ {j}) \cup {Another(j.name, Sync.prev, WasOn(j))}]
    BY DEF Readd
  <2>3. proc'.old = (proc.old \ {j}) \cup {Another(j.name, Sync.prev, WasOn(j))}
    BY <2>1, <2>2
  <2> QED BY <2>2, <2>3 DEF Another, Job, WasOn
<1>3. Active /\ Active' /\ Tasking(Callers)
  BY <1>1, ByPlace, Parts DEF Tasking, Sound, ProcType, Active
<1>4. App(again.rel) = App(j.rel)
  <2>1. j.rel \in Maybe /\ j.name \in Tasks(j.rel) /\ Sync.prev \in Maybe
    BY <1>3, SyncReleases DEF Sound, Proper, TypeOK, Task, Maybe
  <2> QED BY <1>1, <1>2, <2>1, OneAppOfName
<1>5. Right(proc.old, offs, doubt) /\ Right(jobs, offs, doubt)
  BY <1>1 DEF AsLeft, Listing
<1>6. App(again.rel) \in doubt \/ (again.on <=> again.name \notin offs)
  BY <1>2, <1>4, <1>5 DEF Right
<1>7. Right(jobs', offs, doubt) /\ Right(proc'.old, offs, doubt)
  BY <1>2, <1>5, <1>6 DEF Right
<1>8. \A r : There(proc.old, offs, r) => There(proc'.old, offs, r)
  BY <1>2 DEF There
<1>9. OldTasks' = OldTasks /\ To' = To /\ ~Choices'
  BY <1>1 DEF OldTasks, BegunOn, To, Choices
<1> QED BY <1>1, <1>3, <1>7, <1>8, <1>9 DEF AsLeft, Listing

(* Every action keeps the tasks as the owner left them.                     *)
LEMMA AsLeftStep ==
  ASSUME "renamed" \notin Windows
  PROVE  Sound /\ Counted /\ AsLeft /\ [Next]_vars => AsLeft'
<1> SUFFICES ASSUME Sound, Counted, AsLeft, [Next]_vars PROVE AsLeft'
  OBVIOUS
<1>p. RecordType /\ OpType /\ ProcType /\ AskedType /\ Known
  BY Parts DEF Sound, Shape
<1>r. /\ proc = [pc |-> proc.pc, ret |-> proc.ret, was |-> proc.was, old |-> proc.old,
               err |-> proc.err]
      /\ op = [kind |-> op.kind, to |-> op.to, from |-> op.from, repl |-> op.repl,
               step |-> op.step, st |-> op.st, choices |-> op.choices, off |-> op.off,
               conf |-> op.conf]
  BY <1>p DEF ProcType, OpType, OpRow
<1>i. Idle.pc = "idle" /\ Idle.old = {} /\ Idle.ret = None
  BY DEF Idle
<1>b. /\ proc.pc \notin {"idle", "stopping"} => Active
      /\ proc.pc = "stopping" => ~Active
      /\ proc.pc \in {"landed", "done"} => record.rel = op.to
  BY ByPlace
<1>w. AsLeft /\ ~Active /\ UNCHANGED <<record, op, jobs, offs>> /\ doubt \subseteq doubt'
        /\ proc'.pc \notin {"sync", "undo", "readd"} => AsLeft'
  BY RightLess DEF AsLeft, Active, Listing
<1>1. CASE \/ \E kind \in {"install", "update"}, r \in Releases : Ask(kind, r)
           \/ StopApp
  <2>1. UNCHANGED <<record, jobs, op, offs, doubt>> /\ ~Active /\ proc'.pc \in {"idle", "stopping"}
    BY <1>1, <1>i, <1>r DEF Ask, StopApp, Free, At, Nothing, live, past
  <2> QED BY <1>w, <2>1
<1>2. CASE \E kind \in {"install", "update"}, r \in Releases : Change(kind, r)
  BY <1>2, <1>i, BegunAsLeft DEF Change, Free, live, past
<1>3. CASE RollBack
  <2>1. record.prev \in Releases
    BY <1>3, <1>p, AppType DEF RollBack, RecordType, Maybe
  <2> QED BY <1>3, <1>i, <2>1, BegunAsLeft DEF RollBack, Change, Free, live, past
<1>4. CASE Fetched
  <2>1. asked.had = record.rel /\ asked.to \in Releases
    BY <1>4, <1>p DEF Fetched, AsItWas, Known, Sound, Rows
  <2> QED BY <1>4, <1>i, <2>1, BegunAsLeft DEF Fetched, Free, live, past
<1>5. CASE Refused \/ Rest \/ UNCHANGED vars
  <2>1. UNCHANGED <<record, jobs, op, proc, offs, doubt>>
    BY <1>5 DEF Refused, Rest, vars, live, past
  <2> QED BY <2>1 DEF AsLeft, Active, Listing, Choices, OldTasks, BegunOn, To
<1>7. CASE \E j \in jobs : Toggle(j)
  <2>1. PICK j \in jobs : Toggle(j)
    BY <1>7
  <2>2. /\ UNCHANGED <<record, op, doubt, proc>> /\ ~Active /\ proc.pc = "idle"
        /\ j.name \in Tasks(record.rel)
        /\ offs' = IF j.on THEN offs \cup {j.name} ELSE offs \ {j.name}
    BY <1>i, <2>1 DEF Toggle, Free, live
  <2> DEFINE i == [j EXCEPT !.on = ~@]
  <2>3. i.name = j.name /\ i.rel = j.rel /\ (i.on <=> ~j.on) /\ j.on \in BOOLEAN
    BY DEF Sound, TypeOK, Task
  <2>4. jobs' = (jobs \ {j}) \cup {i}
    BY <2>1 DEF Toggle
  <2> HIDE DEF i
  <2>5. \A k \in jobs : App(k.rel) \notin doubt /\ k.name = j.name => k = j
    <3> SUFFICES ASSUME NEW k \in jobs, App(k.rel) \notin doubt, k.name = j.name PROVE k = j
      OBVIOUS
    <3>1. Solo(jobs, record.rel, doubt) /\ record.rel \in Maybe
      BY <1>p, <2>2 DEF Counted, RecordType
    <3>2. /\ k.name \in Tasks(k.rel) /\ k.rel \in Maybe /\ k.name \in Tasks(record.rel)
      BY <2>2 DEF Sound, Proper, TypeOK, Task, Maybe
    <3>3. App(k.rel) = App(record.rel)
      BY <3>1, <3>2, OneAppOfName
    <3> QED BY <3>1, <3>3 DEF Solo
  <2>6. Right(jobs', offs', doubt)
    <3> SUFFICES ASSUME NEW k \in jobs', App(k.rel) \notin doubt PROVE k.on <=> k.name \notin offs'
      BY DEF Right
    <3>1. CASE k = i
      BY <2>2, <2>3, <3>1
    <3>2. CASE k \in jobs /\ k # j
      <4>1. k.name # j.name
        BY <2>5, <3>2
      <4>2. k.on <=> k.name \notin offs
        BY <3>2 DEF AsLeft, Right
      <4> QED BY <2>2, <4>1, <4>2
    <3> QED BY <2>4, <3>1, <3>2
  <2>7. offs' \subseteq Tasks(record.rel)
    BY <2>2 DEF AsLeft
  <2> QED BY <2>2, <2>6, <2>7 DEF AsLeft, Active, Listing
<1>8. CASE Choose \/ Resume
  <2>1. UNCHANGED <<record, jobs, doubt, offs>> /\ proc = Idle /\ Active
    BY <1>8 DEF Choose, Resume, TheRow, live, past, Active
  <2>2. /\ op'.to = op.to /\ op'.from = op.from /\ op'.repl = op.repl /\ op'.off = op.off /\ Active'
        /\ proc'.pc \in {"use", "go", "idle", "list", "landed", "gone"}
        /\ proc'.pc = "list" => op.repl # None
    <3>1. CASE op' = op /\ proc'.pc \in {"use", "go"}
      BY <2>1, <3>1 DEF Active
    <3>2. CASE op' = op /\ (Undo("choice") \/ Undo("early"))
      BY <2>1, <3>2, Undoings DEF Active
    <3>3. CASE Decide
      <4>1. CASE proc' = [Idle EXCEPT !.pc = "landed"] /\ op' = op
        BY <2>1, <4>1 DEF Idle, Active
      <4>2. CASE (Held("switch") \/ Held("retry")) /\ proc' = proc
        BY <1>i, <1>p, <2>1, <4>2, Holds DEF Active
      <4> QED BY <3>2, <3>3, <4>1, <4>2, Decisions
    <3> QED BY <1>8, <3>1, <3>2, <3>3 DEF Choose, Resume, UseNew, GoBack, PutTasksBack, Idle
  <2>3. Choices
    BY <1>i, <2>1 DEF Choices
  <2> QED BY <2>1, <2>2, <2>3, AsLeftMoves
<1>9. CASE Cleared \/ NotCleared
  <2>1. UNCHANGED <<record, link, op, jobs, offs>> /\ doubt \subseteq doubt'
        /\ proc.pc \in {"clear", "stopping", "goclear"}
    BY <1>9 DEF Cleared, NotCleared, Nothing, live, past, Told
  <2>2. CASE proc.pc = "stopping"
    <3>1. proc'.pc = "idle"
      BY <1>9, <1>i, <2>2 DEF Cleared, NotCleared
    <3> QED BY <1>b, <1>w, <2>1, <2>2, <3>1
  <2>3. CASE proc.pc = "clear"
    <3>1. proc'.pc \in {"prepare", "outcome"} /\ doubt' = doubt
      BY <1>9, <1>r, <2>3 DEF Cleared, NotCleared, At, Ends, Nothing, past
    <3>2. Active /\ Active' /\ ~Choices'
      BY <1>b, <2>1, <2>3, <3>1 DEF Active, Choices
    <3> QED BY <2>1, <3>1, <3>2, AsLeftMoves
  <2>4. CASE proc.pc = "goclear"
    <3>1. proc'.pc \in {"gone", "list", "idle"} /\ doubt' = doubt
      BY <1>9, <1>i, <1>r, <2>4 DEF Cleared, NotCleared, Nothing, past
    <3>2. Active /\ Active' /\ ((op.repl # None /\ record.rel = op.repl) \/ record.rel = None)
      BY <1>b, <2>1, <2>4 DEF Active, Sound, Listed, Turned
    <3>3. op.repl = None => There(jobs, offs, record.rel)
      BY <3>2, ThereNone
    <3> QED BY <2>1, <3>1, <3>2, <3>3, AsLeftMoves
  <2> QED BY <2>1, <2>2, <2>3, <2>4
<1>11. CASE Stopped
  <2>1. /\ UNCHANGED <<jobs, op, doubt>> /\ ~Active /\ Named(Tasks(record.rel)) = {}
        /\ offs' = {} /\ proc' = Idle
    BY <1>11, <1>b DEF Stopped, live
  <2>2. Within(jobs, Tasks(record.rel), doubt)
    BY <2>1 DEF Sound, Listed
  <2>3. Right(jobs, {}, doubt)
    BY <2>1, <2>2 DEF Right, Within, Named
  <2> QED BY <1>i, <2>1, <2>3 DEF AsLeft, Active, Listing
<1>12. CASE \E j \in jobs : TakeOff(j)
  <2>1. UNCHANGED <<op, record, proc, doubt, offs>> /\ jobs' \subseteq jobs
    BY <1>12 DEF TakeOff, TheJobs, live, past
  <2>2. proc.pc \in {"clear", "stopping", "goclear"}
    BY <1>12 DEF TakeOff, Leaving, Tasks, Named
  <2>3. ~Choices' /\ ~Listing' /\ (Active' <=> Active)
    BY <2>1, <2>2 DEF Choices, Listing, Active
  <2>4. CASE Active
    BY <2>1, <2>3, <2>4, AsLeftKeeps
  <2>5. CASE ~Active
    BY <2>1, <2>3, <2>5, RightLess DEF AsLeft
  <2> QED BY <2>4, <2>5
<1>13. CASE Installing /\ ~Outcome
  <2>1. /\ UNCHANGED <<record, jobs, doubt, offs>> /\ proc.pc \in {"prepare", "switch", "back", "drop"}
        /\ \/ proc'.pc \in {"drop", "switch", "back", "outcome"}
           \/ proc'.pc = "list" /\ proc'.ret \in {"install", "undo"}
        /\ op'.to = op.to /\ op'.from = op.from /\ op'.repl = op.repl /\ op'.off = op.off
        /\ op'.st = op.st
    <3>1. CASE Prepare
      BY <1>r, <3>1 DEF Prepare, past
    <3>2. CASE NotPrepared \/ PutBack
      BY <1>r, <3>2 DEF NotPrepared, PutBack, At, TheVolume, past
    <3>3. CASE Switch \/ NotSwitched
      BY <1>r, <3>3 DEF Switch, NotSwitched, TheVolume, past
    <3>4. CASE NotPutBack \/ Drop
      BY <1>r, <3>4 DEF NotPutBack, Drop, ClearStaging, Catch, Ends, TheVolume, past
    <3> QED BY <1>13, <3>1, <3>2, <3>3, <3>4 DEF Installing
  <2>2. Active /\ Active' /\ ~Choices'
    BY <1>b, <2>1 DEF Active, Choices
  <2> QED BY <2>1, <2>2, AsLeftMoves
<1>20. CASE Outcome
  <2>1. UNCHANGED <<record, jobs, doubt, offs>> /\ proc.pc = "outcome" /\ proc' = Idle /\ Active
    BY <1>20, <1>b DEF Outcome, TheRow, live, past
  <2>2. record.rel = BegunOn /\ OldTasks = Tasks(record.rel) /\ Once(jobs, BegunOn, doubt)
    BY <2>1, TaskingRecord DEF Counted, Standing
  <2>3. CASE Held("switch")
    <3>1. /\ op'.to = op.to /\ op'.from = op.from /\ op'.repl = op.repl /\ op'.off = op.off
          /\ Active'
      BY <1>p, <2>3, Holds DEF Active
    <3> QED BY <1>i, <2>1, <2>2, <3>1, StandingThere, AsLeftMoves
  <2>4. CASE Over
    <3>1. ~Active'
      BY <1>r, <2>4 DEF Over, Active
    <3> QED BY <1>i, <2>1, <2>2, <3>1 DEF AsLeft, Listing
  <2> QED BY <1>20, <2>3, <2>4 DEF Outcome
<1>21. CASE List
  BY <1>21, ListAsLeft
<1>22. CASE NotListed
  <2>1. proc.pc \in {"list", "undo", "readd"} /\ SyncFails(proc.pc # "list")
    BY <1>22 DEF NotListed
  <2> QED BY <1>b, <2>1, FailedAsLeft
<1>24. CASE Synced \/ Check
  <2>1. /\ UNCHANGED <<record, jobs, offs>> /\ doubt \subseteq doubt' /\ proc.pc \in {"sync", "check"}
        /\ proc'.pc \in {"clean", "record", "gone", "check", "outcome", "idle"}
        /\ proc'.pc = "idle" => proc.pc = "check"
        /\ op'.to = op.to /\ op'.from = op.from /\ op'.repl = op.repl /\ op'.off = op.off
        /\ (op'.st = op.st \/ op'.st = "held")
    <3>1. CASE Synced
      BY <1>r, <3>1 DEF Synced, Nothing, live, past
    <3>2. CASE Check
      BY <1>i, <1>r, <3>2 DEF Check, At, Held, live, Told
    <3> QED BY <1>24, <3>1, <3>2
  <2>2. Active /\ Active' /\ ~Listing' /\ (Choices' => op.repl # None)
    BY <1>b, <2>1, ByPlace DEF Active, Listing, Choices
  <2> QED BY <2>1, <2>2, AsLeftKeeps
<1>25. CASE \E n \in Names : Add(n)
  BY <1>25, AddAsLeft
<1>26. CASE NotSynced \/ Undone \/ \E j \in jobs : Remove(j) \/ UndoAdd(j)
  <2>1. /\ UNCHANGED <<record, op, doubt, offs>> /\ jobs' \subseteq jobs
        /\ proc.pc \in {"sync", "undo"} /\ proc'.pc \in {"sync", "undo", "readd"}
        /\ proc'.old = proc.old
    <3>1. CASE NotSynced \/ Undone
      BY <1>r, <3>1 DEF NotSynced, Undone, At, Nothing, live, past
    <3>2. CASE \E j \in jobs : Remove(j) \/ UndoAdd(j)
      BY <1>r, <3>2 DEF Remove, UndoAdd, Answered, At, TheJobs, live, past
    <3> QED BY <1>26, <3>1, <3>2
  <2>2. Active /\ Active' /\ Listing /\ ~Choices'
    BY <1>b, <2>1 DEF Active, Listing, Choices
  <2> QED BY <2>1, <2>2, AsLeftKeeps DEF AsLeft
<1>29. CASE \E j \in proc.old : Readd(j)
  BY <1>29, ReaddAsLeft
<1>30. CASE Readded
  <2>1. proc.pc = "readd" /\ SyncFails(New # {} \/ Gone # {})
    BY <1>30 DEF Readded
  <2>2. (New # {} \/ Gone # {}) \in BOOLEAN
    OBVIOUS
  <2> QED BY <1>b, <2>1, <2>2, FailedAsLeft
<1>32. CASE Rollback \/ Swap \/ PointBack
  <2>1. /\ UNCHANGED <<record, jobs, doubt, offs>>
        /\ proc.pc \in {"rollback", "swap", "pointback"}
        /\ proc'.pc \in {"swap", "outcome"} \/ (proc'.pc = "list" /\ proc'.ret = "rollback")
        /\ op'.to = op.to /\ op'.from = op.from /\ op'.repl = op.repl /\ op'.off = op.off
        /\ op'.st = op.st
    <3>1. CASE Rollback
      BY <1>r, <3>1 DEF Rollback, TheRow, live, past
    <3>2. CASE Swap \/ PointBack
      BY <1>r, <3>2 DEF Swap, PointBack, Pointed, Ends, Sets, TheVolume, Nothing, live, past
    <3> QED BY <1>32, <3>1, <3>2
  <2>2. Active /\ Active' /\ ~Choices'
    BY <1>b, <2>1 DEF Active, Choices
  <2> QED BY <2>1, <2>2, AsLeftMoves
<1>35. CASE UseConfig \/ UseLink \/ GoConfig \/ GoLink
  <2>1. /\ UNCHANGED <<record, jobs, doubt, op, offs>>
        /\ proc.pc \in {"use", "uselink", "go", "golink"}
        /\ proc'.pc \in {"idle", "uselink", "golink", "goclear", "list"}
    <3>1. CASE UseConfig \/ GoConfig
      BY <1>i, <1>r, <3>1 DEF UseConfig, GoConfig, At, TheVolume, past
    <3>2. CASE UseLink \/ GoLink
      BY <1>i, <1>r, <3>2 DEF UseLink, GoLink, Pointed, Sets, At, TheVolume, past
    <3> QED BY <1>35, <3>1, <3>2
  <2>2. Active /\ Active' /\ Choices
    BY <1>b, <2>1 DEF Active, Choices
  <2> QED BY <2>1, <2>2, AsLeftMoves
<1>39. CASE Clean
  <2>1. /\ UNCHANGED <<record, jobs, doubt, op, offs>>
        /\ proc.pc \in {"clean", "landed", "gone"} /\ proc'.pc \in {"record", "done", "rolled"}
    BY <1>39, <1>r DEF Clean, ClearStaging, At, TheVolume, past
  <2>2. Active /\ Active' /\ ~Choices'
    BY <1>b, <2>1 DEF Active, Choices
  <2> QED BY <2>1, <2>2, AsLeftMoves
<1>40. CASE Record
  <2>1. /\ UNCHANGED <<jobs, doubt, op, offs>> /\ proc.pc = "record"
        /\ proc'.pc \in {"landed", "done"}
    BY <1>40, <1>r DEF Record, At, live, past
  <2>2. Active /\ Active' /\ ~Choices' /\ ~Listing'
    BY <1>b, <2>1 DEF Active, Choices, Listing
  <2>3. OldTasks' = OldTasks
    BY <2>1, SameNames
  <2> QED BY <2>1, <2>2, <2>3 DEF AsLeft
<1>41. CASE Done
  <2>1. /\ UNCHANGED <<record, jobs, doubt>> /\ proc.pc = "done" /\ Over /\ proc' = Idle
        /\ offs' = offs \cap Tasks(record.rel)
    BY <1>41 DEF Done, live
  <2>2. Active /\ ~Active' /\ Within(jobs, Tasks(record.rel), doubt)
    <3>1. Active /\ record.rel = op.to /\ ~Active'
      BY <1>b, <1>r, <2>1 DEF Over, Active
    <3>2. Within(jobs, NewTasks, doubt)
      BY <2>1, <3>1 DEF Sound, Listed, Spread
    <3> QED BY <3>1, <3>2 DEF NewTasks
  <2>3. Right(jobs, offs', doubt)
    BY <2>1, <2>2 DEF AsLeft, Right, Within
  <2> QED BY <1>i, <2>1, <2>2, <2>3 DEF AsLeft, Listing
<1>42. CASE RolledBack
  <2>1. /\ UNCHANGED <<record, jobs, doubt, offs>> /\ proc.pc = "rolled" /\ Over /\ proc' = Idle
    BY <1>42 DEF RolledBack, TheRow, live, past
  <2>2. Active /\ ~Active' /\ OldTasks = Tasks(record.rel)
    BY <1>b, <1>r, <2>1, TaskingRecord DEF Over, Active
  <2> QED BY <1>i, <2>1, <2>2 DEF AsLeft, Listing
<1>44. CASE Die
  <2>1. /\ UNCHANGED <<record, jobs, offs>> /\ proc' = Idle /\ doubt \subseteq doubt'
        /\ op'.to = op.to /\ op'.from = op.from /\ op'.repl = op.repl /\ op'.off = op.off
        /\ (Active' <=> Active) /\ ~OffTaskGone
    BY <1>44, <1>r DEF Die, CutOff, Running, live, Told, Active
  <2>2. CASE ~Active
    BY <1>i, <2>1, <2>2, RightLess DEF AsLeft, Listing
  <2>3. CASE Active
    <3>1. ~Listing' /\ proc.pc # "stopping"
      BY <1>b, <1>i, <2>1, <2>3 DEF Listing
    <3>2. ASSUME op.repl = None, To \notin doubt PROVE There(jobs, offs, record.rel)
      <4>1. CASE record.rel = None
        BY <4>1, ThereNone
      <4>2. CASE record.rel # None
        <5>1. App(record.rel) = To
          BY <2>3, <3>2, <4>2, Ends2
        <5> QED BY <2>1, <3>1, <3>2, <5>1 DEF OffTaskGone, There, Named
      <4> QED BY <4>1, <4>2
    <3> QED BY <2>1, <2>3, <3>1, <3>2, AsLeftKeeps
  <2> QED BY <2>2, <2>3
<1> QED BY <1>1, <1>2, <1>3, <1>4, <1>5, <1>7, <1>8, <1>9, <1>11, <1>12, <1>13, <1>20,
   <1>21, <1>22, <1>24, <1>25, <1>26, <1>29, <1>30, <1>32, <1>35, <1>39, <1>40, <1>41,
   <1>42, <1>44
       DEF Next, Owner, Step, Removing, Syncing, Choosing, Ending

(* A task the owner has turned off is never on again by itself: neither an  *)
(* update that schedules it anew nor the put-back of one that failed or     *)
(* died turns it on (apps.ts, syncTasks), but in the ways that break the    *)
(* agreement above and for a death while such a task has no job             *)
(* ("renamed").                                                             *)
THEOREM OffAsTheOwnerLeftIt ==
  ASSUME {"clearing", "both", "recorded", "twice", "renamed"} \cap Windows = {}
  PROVE  Spec => []AsTheOwnerLeftIt
<1> DEFINE I == Sound /\ Counted /\ AsLeft
<1>1. Init => I
  <2> SUFFICES ASSUME Init PROVE AsLeft
    BY SoundCounted
  <2>1. jobs = {Job(n, record.rel, TRUE, 0) : n \in Tasks(record.rel)} /\ ~Active /\ offs = {}
        /\ ~Listing
    BY DEF Init, Active, Listing, Idle
  <2>2. \A j \in jobs : j.on
    BY <2>1 DEF Job
  <2> QED BY <2>1, <2>2 DEF AsLeft, Right
<1>2. I /\ [Next]_vars => I'
  BY SoundCounted, AsLeftStep
<1>3. I => AsTheOwnerLeftIt
  <2> SUFFICES ASSUME Sound, AsLeft, App(record.rel) \notin doubt, NEW j \in jobs,
                      j.name \in Tasks(record.rel)
               PROVE  j.on <=> j.name \notin offs
    BY DEF AsTheOwnerLeftIt, Named
  <2>1. j.name \in Tasks(j.rel) /\ j.rel \in Maybe /\ record.rel \in Maybe
    BY DEF Sound, Proper, TypeOK, Task, Maybe
  <2>2. App(j.rel) = App(record.rel)
    BY <2>1, OneAppOfName
  <2> QED BY <2>2 DEF AsLeft, Right
<1> QED BY <1>1, <1>2, <1>3, PTL DEF Spec
=============================================================================
