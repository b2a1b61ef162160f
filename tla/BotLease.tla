------------------------------ MODULE BotLease ------------------------------
(***************************************************************************)
(* Who has which Telegram bot: the pool and its leases (telegramPool.ts),   *)
(* the channel rows, the containers that poll, and every way a bot is taken *)
(* or given up: setup, attach, detach, swap, archive (archive.ts), delete.  *)
(* A bot is polled by one container or Telegram splits its messages.        *)
(*                                                                          *)
(* A step is what runs between two awaits.  job[<<a, "op">>] is what holds  *)
(* agent a's busy flag (a delete holds none); job[<<a, "attach">>] is an    *)
(* attach looking for its bot, which holds none either.  Start and Rebuild  *)
(* make a container from its agent's row in one step: Rebuild.tla takes     *)
(* them apart and says when an old container starts instead.                *)
(***************************************************************************)
EXTENDS Naturals

CONSTANTS Agents, Bots,
          MaxCrashes,  \* bound: deaths of the process
          MaxEvents    \* bound: all that comes from outside, these and a timer's ticks included

None == "none"
ASSUME SomeOfEach == Bots # {} /\ Agents # {}
ASSUME BoundsAssumption ==
  /\ {MaxCrashes, MaxEvents} \subseteq Nat
  /\ Agents \cap ({None, "out", "free", "idle"} \cup Bots) = {} /\ None \notin Bots

VARIABLES
  pool,    \* of a bot: not in the pool, free, or the agent it is leased to
  queued,  \* of a bot: the name Telegram has not accepted yet (desired_name)
  called,  \* of a bot: the name it bears at Telegram
  row,     \* of an agent: the bot of its channel row
  state,   \* of an agent
  box,     \* of an agent: its container, up or not, and the bot it was made with
  copied,  \* of an agent: the bot of a copy downloaded since it last ran (exportedAt)
  arch,    \* of an agent: its archive's operation on disk
  job, adding, sweep,  \* in this process: its tasks, a bot being added, a name being retried
  gap,     \* history: the gaps met
  crashes, events

names == <<queued, called>>
self  == <<row, state, box, copied, arch>>
proc  == <<job, adding, sweep>>
vars  == <<pool, names, self, proc, gap, crashes, events>>
-----------------------------------------------------------------------------
Jobs  == Agents \X {"op", "attach"}
NoJob == [op |-> "none", pc |-> "none", bot |-> None, mine |-> FALSE]
NoArchive == [st |-> "none", was |-> FALSE, bot |-> None, copy |-> FALSE, held |-> FALSE]
NoSweep   == [bot |-> None, name |-> "idle", for |-> None]

Event   == events < MaxEvents /\ events' = events + 1
At(j, pc)  == job[j].pc = pc
Op(a)      == job[<<a, "op">>].op
Busy(a)    == Op(a) \notin {"none", "delete"}                 \* isBusy
(* Before anything is served, what became of an archive a restart cut off   *)
(* is decided (index.ts: resumeOperations, app.listen).                     *)
Served     == \A a \in Agents : arch[a].st = "none" \/ arch[a].held \/ Op(a) # "none"
Asked      == Event /\ Served
Request(a) == Asked /\ Op(a) = "none" /\ arch[a].st = "none"  \* busyNow
Put(j, r)  == job' = [job EXCEPT ![j] = r]
Goto(j, pc) == job' = [job EXCEPT ![j].pc = pc]
End(j)     == Put(j, NoJob)
Become(a, s) == /\ state' = [state EXCEPT ![a] = s]
                /\ copied' = IF s = "RUNNING" THEN [copied EXCEPT ![a] = None] ELSE copied
GapIf(b, why) == gap' = IF b THEN gap \cup {why} ELSE gap

(* findAgentUsingAccount: the gate every bot passes before it is a row.    *)
NoClash(a, b) == FALSE                                             \* a mutant
Clash(a, b)   == \E c \in Agents \ {a} : row[c] = b /\ state[c] # "DELETED"

(* release: another agent's lease is not the departing one's to end.       *)
Freed(a, b)    == IF pool[b] = a THEN "free" ELSE pool[b]
Release(a, b)  == pool' = [pool EXCEPT ![b] = Freed(a, b)]
(* A bot leased for nothing goes back.                                     *)
Unused(a, b)      == Freed(a, b)
(* The idle name is queued after the farewell, and only if still free.      *)
IdleOver(b, p) == IF p[b] = "out" THEN queued[b] ELSE "idle"       \* a mutant
IdleName(b, p) == IF p[b] = "free" THEN "idle" ELSE queued[b]
-----------------------------------------------------------------------------
(* provision: its own lease if it has one, or a spare, claimed at once.    *)
Offer(a, ex) == LET own == {b \in Bots \ ex : pool[b] = a} IN
                IF own # {} THEN own ELSE {b \in Bots \ ex : pool[b] = "free"}
Claim(j, a, b) ==
  /\ pool' = [pool EXCEPT ![b] = a]
  /\ job' = [job EXCEPT ![j].bot = b, ![j].pc = IF pool[b] = a THEN "gate" ELSE "drop"]

(* What waited for the bot's last agent is dropped, its new name queued ... *)
Park(j) ==
  /\ At(j, "drop") /\ Goto(j, "name")
  /\ LET b == job[j].bot IN
     queued' = [queued EXCEPT ![b] = IF pool[b] = "out" THEN @ ELSE j[1]] /\ GapIf(pool[b] # j[1], "late")
  /\ UNCHANGED <<pool, called, self, adding, sweep, crashes, events>>

(* ... and asked of Telegram: it takes it, is asked too often, or says the  *)
(* token is dead.                                                           *)
Answers(b, n) ==
  \/ called' = [called EXCEPT ![b] = n] /\ queued' = [queued EXCEPT ![b] = None]
     /\ UNCHANGED <<gap, events>>
  \/ called' = called /\ queued' = [queued EXCEPT ![b] = n] /\ UNCHANGED <<gap, events>>
  \/ Event /\ called' = called /\ queued' = [queued EXCEPT ![b] = None] /\ GapIf(TRUE, "dead")

(* Nothing is held meanwhile: the bot may have gone from the agent.         *)
Rename(b, a) ==
  \/ pool[b] = a /\ Answers(b, a)
  \/ pool[b] # a /\ GapIf(TRUE, "late") /\ events' = events
     /\ called' \in {called, [called EXCEPT ![b] = a]}
     /\ \E n \in {None, a} : queued' = [queued EXCEPT ![b] = IF pool[b] = "out" THEN None ELSE n]

Named(j) ==
  /\ At(j, "name") /\ Goto(j, "gate") /\ Rename(job[j].bot, j[1])
  /\ UNCHANGED <<pool, self, adding, sweep, crashes>>

Provisioner == \E j \in Jobs : Park(j) \/ Named(j)
-----------------------------------------------------------------------------
(* Setup: a new agent, one brought back from the archive, a failed one.    *)
SetUp(a) ==
  /\ Request(a) /\ state[a] \in {"NEW", "ARCHIVED", "FAILED"}
  /\ Become(a, "PROVISIONING")
  /\ Put(<<a, "op">>, [NoJob EXCEPT !.op = "setup", !.pc = "find"])
  /\ UNCHANGED <<pool, names, row, box, arch, adding, sweep, gap, crashes>>

SetUpFinds(a) ==
  LET j == <<a, "op">> IN
  /\ Op(a) = "setup" /\ At(j, "find")
  /\ \/ row[a] # None /\ pool' = pool      \* its name again (syncDisplayName)
        /\ Put(j, [job[j] EXCEPT !.bot = row[a],
                                  !.pc = IF pool[row[a]] = "out" THEN "boot" ELSE "sync"])
     \/ row[a] = None /\ \E b \in Offer(a, {}) : Claim(j, a, b)
     \/ row[a] = None /\ Offer(a, {}) = {} /\ pool' = pool /\ Goto(j, "boot")  \* web-only
  /\ UNCHANGED <<names, self, adding, sweep, gap, crashes, events>>

SetUpSyncs(a) ==
  LET j == <<a, "op">> IN
  /\ At(j, "sync") /\ Goto(j, "boot") /\ Rename(job[j].bot, a)
  /\ UNCHANGED <<pool, self, adding, sweep, crashes>>

SetUpGate(a) ==
  LET j == <<a, "op">> IN
  LET b == job[j].bot IN
  /\ Op(a) = "setup" /\ At(j, "gate")
  /\ \/ Clash(a, b) /\ End(j) /\ Become(a, "FAILED") /\ row' = row   \* the lease stays
        /\ GapIf(TRUE, "kept")
     \/ ~Clash(a, b) /\ row' = [row EXCEPT ![a] = b] /\ UNCHANGED <<state, copied, gap>>
        /\ Put(j, [job[j] EXCEPT !.mine = TRUE, !.pc = "boot"])
  /\ UNCHANGED <<pool, names, box, arch, adding, sweep, crashes, events>>

SetUpBoots(a) ==
  /\ Op(a) = "setup" /\ At(<<a, "op">>, "boot") /\ Goto(<<a, "op">>, "health")
  /\ box' = [box EXCEPT ![a] = [up |-> TRUE, bot |-> row[a]]]
  /\ UNCHANGED <<pool, names, row, state, copied, arch, adding, sweep, gap, crashes, events>>

SetUpDone(a) ==
  /\ Op(a) = "setup" /\ At(<<a, "op">>, "health") /\ End(<<a, "op">>) /\ Become(a, "RUNNING")
  /\ UNCHANGED <<pool, names, row, box, arch, adding, sweep, gap, crashes, events>>

(* Rolled back, newest first: the container, then, if that one is gone, the *)
(* bot this setup took.                                                     *)
GivesAnyway(a, gone) == job[<<a, "op">>].mine                          \* a mutant
GivesBack(a, gone)   == job[<<a, "op">>].mine /\ gone
SetUpFails(a) ==
  LET b == row[a] IN
  /\ Event /\ Op(a) = "setup" /\ job[<<a, "op">>].pc \in {"boot", "health"}
  /\ \E gone \in {~box[a].up, TRUE} :
       /\ box' = IF gone THEN [box EXCEPT ![a].up = FALSE] ELSE box
       /\ IF GivesBack(a, gone)
          THEN /\ Release(a, b) /\ queued' = [queued EXCEPT ![b] = IdleName(b, pool')]
               /\ row' = [row EXCEPT ![a] = None]
          ELSE UNCHANGED <<pool, queued, row>>
  /\ End(<<a, "op">>) /\ Become(a, "FAILED")
  /\ UNCHANGED <<called, arch, adding, sweep, gap, crashes>>

SettingUp == \E a \in Agents :
  SetUp(a) \/ SetUpFinds(a) \/ SetUpSyncs(a) \/ SetUpGate(a)
  \/ SetUpBoots(a) \/ SetUpDone(a) \/ SetUpFails(a)
-----------------------------------------------------------------------------
Copies == {copied[c] : c \in Agents}

(* A bot for an agent without one: a spare, or a pasted token.  It is found *)
(* before the busy flag is taken, so anything may happen to its agent.      *)
Attach(a) ==
  LET j == <<a, "attach">> IN
  /\ Request(a) /\ job[j] = NoJob /\ row[a] = None /\ state[a] \in {"RUNNING", "STOPPED"}
  /\ \/ \E b \in Offer(a, {}) :
          /\ pool' = [pool EXCEPT ![b] = a]
          /\ Put(j, [NoJob EXCEPT !.op = "attach", !.bot = b,
                                  !.pc = IF pool[b] = a THEN "gate" ELSE "drop"])
     \/ \E b \in Bots : pool[b] = "out" /\ ~Clash(a, b) /\ pool' = pool
          /\ Put(j, [NoJob EXCEPT !.op = "attach", !.bot = b, !.pc = "gate"])
  /\ UNCHANGED <<names, self, adding, sweep, gap, crashes>>

Refused(a, b) == Clash(a, b) \/ Busy(a) \/ (state[a] \in {"RUNNING", "STOPPED"} /\ row[a] # None)
AttachRefused(a) ==   \* what it leased stays leased to it
  LET j == <<a, "attach">> IN
  /\ At(j, "gate") /\ Refused(a, job[j].bot) /\ End(j)
  /\ GapIf(row[a] # job[j].bot, "kept")
  /\ UNCHANGED <<pool, names, self, adding, sweep, crashes, events>>

AttachGone(a) ==      \* deleted, archived or failed meanwhile: the bot goes (back) to the pool
  LET j == <<a, "attach">> IN
  LET b == job[j].bot IN
  /\ At(j, "gate") /\ ~Clash(a, b) /\ ~Busy(a) /\ state[a] \notin {"RUNNING", "STOPPED"}
  /\ \E p \in {Unused(a, b)} \cup {q \in {"free"} : pool[b] = "out"} :
       pool' = [pool EXCEPT ![b] = p]
  /\ queued' = [queued EXCEPT ![b] = IdleName(b, pool')]
  /\ End(j) /\ gap' = gap \cup {w \in {"gone"} : row[a] = b} \cup {w \in {"copy"} : b \in Copies}
  /\ UNCHANGED <<called, self, adding, sweep, crashes, events>>

Attached(a) ==
  LET j == <<a, "attach">> IN
  LET b == job[j].bot IN
  /\ At(j, "gate") /\ ~Refused(a, b) /\ state[a] \in {"RUNNING", "STOPPED"}
  /\ row' = [row EXCEPT ![a] = b]
  /\ IF pool[b] = "out" THEN End(j) ELSE Goto(j, "sync")
  /\ GapIf(pool[b] \notin {a, "out"}, "added")
  /\ UNCHANGED <<pool, names, state, box, copied, arch, adding, sweep, crashes, events>>

AttachSyncs(a) ==     \* named once more
  LET j == <<a, "attach">> IN
  /\ At(j, "sync") /\ End(j) /\ Rename(job[j].bot, a)
  /\ UNCHANGED <<pool, self, adding, sweep, crashes>>

Attaching == \E a \in Agents :
  Attach(a) \/ AttachRefused(a) \/ AttachGone(a) \/ Attached(a) \/ AttachSyncs(a)
-----------------------------------------------------------------------------
(* Every way a bot is given up goes the same way: stopped and confirmed,    *)
(* parked in the pool if it was pasted, released, a farewell, the row gone. *)
Begin(a, op, pc) == Put(<<a, "op">>, [NoJob EXCEPT !.op = op, !.pc = pc])
Settled(a) == state[a] \in {"RUNNING", "STOPPED"}

Detach(a) ==
  /\ Request(a) /\ row[a] # None /\ Settled(a) /\ Begin(a, "detach", "stop")
  /\ UNCHANGED <<pool, names, self, adding, sweep, gap, crashes>>

Swap(a) ==            \* another bot first: never the one it has
  LET j == <<a, "op">> IN
  /\ Request(a) /\ row[a] # None /\ Settled(a)
  /\ \E b \in Offer(a, {row[a]}) :
       /\ pool' = [pool EXCEPT ![b] = a]
       /\ Put(j, [NoJob EXCEPT !.op = "swap", !.bot = b,
                               !.pc = IF pool[b] = a THEN "gate" ELSE "drop"])
  /\ UNCHANGED <<names, self, adding, sweep, gap, crashes>>

SwapGate(a) ==
  LET j == <<a, "op">> IN
  LET b == job[j].bot IN
  /\ Op(a) = "swap" /\ At(j, "gate")
  /\ IF Clash(a, b)
     THEN /\ pool' = [pool EXCEPT ![b] = Unused(a, b)] /\ End(j)
          /\ queued' = [queued EXCEPT ![b] = IdleName(b, pool')]
     ELSE Goto(j, "stop") /\ UNCHANGED <<pool, queued>>
  /\ UNCHANGED <<called, self, adding, sweep, gap, crashes, events>>

Archive(a) ==
  /\ Request(a) /\ state[a] \in {"RUNNING", "STOPPED", "FAILED"}
  /\ arch' = [arch EXCEPT ![a] = [NoArchive EXCEPT !.st = "begun", !.bot = row[a],
                                                   !.was = (state[a] = "RUNNING")]]
  /\ Begin(a, "archive", "stop")
  /\ UNCHANGED <<pool, names, row, state, box, copied, adding, sweep, gap, crashes>>

Delete(a) ==          \* again if a restart cut it off; an operation on disk refuses it
  /\ Request(a) /\ state[a] \notin {"NEW", "PROVISIONING", "DELETED"}
  /\ Become(a, "DELETING") /\ Begin(a, "delete", "stop")
  /\ UNCHANGED <<pool, names, row, box, arch, adding, sweep, gap, crashes>>

(* A copy was downloaded and it has not run since (copyElsewhere).  A delete *)
(* judges it by the state it was in.                                        *)
NoCopy(a)   == FALSE                                               \* a mutant
CopyElsewhere(a) == copied[a] # None /\ state[a] # "RUNNING"

Down(a) ==
  LET j == <<a, "op">> IN
  /\ At(j, "stop") /\ Goto(j, "give")
  /\ box' = [box EXCEPT ![a].up = FALSE]
  /\ IF Op(a) \in {"detach", "swap"} THEN Become(a, "STOPPED") ELSE UNCHANGED <<state, copied>>
  /\ arch' = IF Op(a) = "archive"
             THEN [arch EXCEPT ![a].st = "stopped", ![a].copy = (row[a] # None /\ CopyElsewhere(a))]
             ELSE arch
  /\ UNCHANGED <<pool, names, row, adding, sweep, gap, crashes, events>>

(* It would not stop: nothing is given up.  An archive taken up again is    *)
(* held, for its owner to try again.                                        *)
StaysUp(a) ==
  LET j == <<a, "op">> IN
  LET b == job[j].bot IN
  /\ Event /\ At(j, "stop") /\ End(j)
  /\ arch' = [arch EXCEPT ![a] = IF Op(a) = "resume" THEN [@ EXCEPT !.held = TRUE] ELSE NoArchive]
  /\ IF Op(a) = "delete" THEN Become(a, "FAILED") ELSE UNCHANGED <<state, copied>>
  /\ IF Op(a) = "swap"
     THEN /\ pool' = [pool EXCEPT ![b] = Unused(a, b)]
          /\ queued' = [queued EXCEPT ![b] = IdleName(b, pool')]
     ELSE UNCHANGED <<pool, queued>>
  /\ UNCHANGED <<called, row, box, adding, sweep, gap, crashes>>

Giving(a)  == Op(a) # "none" /\ At(<<a, "op">>, "give")
ToCopy(a)  == \/ Op(a) \in {"archive", "resume"} /\ arch[a].copy
              \/ Op(a) = "delete" /\ CopyElsewhere(a)

NoBot(a) ==           \* nothing to give up, or given up before the restart
  /\ Giving(a) /\ (row[a] = None \/ (Op(a) = "resume" /\ ~arch[a].copy))
  /\ Goto(<<a, "op">>, "left")
  /\ UNCHANGED <<pool, names, self, adding, sweep, gap, crashes, events>>

(* leaveBotToCopy: out of the pool while still leased, in one statement.    *)
LeaveToCopy(a) ==
  LET b == row[a] IN
  /\ Giving(a) /\ row[a] # None /\ ToCopy(a) /\ Goto(<<a, "op">>, "left")
  /\ IF pool[b] \in {a, "free"}
     THEN pool' = [pool EXCEPT ![b] = "out"] /\ queued' = [queued EXCEPT ![b] = None]
     ELSE UNCHANGED <<pool, queued>>
  /\ UNCHANGED <<called, self, adding, sweep, gap, crashes, events>>

(* A detach and a swap do not ask for a copy, and no one asks for a copy of  *)
(* another agent with the same pasted bot.                                  *)
Unasked(a, b) == \/ copied[a] = b /\ Op(a) \in {"detach", "swap"}
                 \/ \E c \in Agents \ {a} : copied[c] = b
Recycle(a) ==         \* addToPool, which may fail: the token is dropped then
  LET b == row[a] IN
  /\ Giving(a) /\ b # None /\ ~ToCopy(a) /\ Op(a) # "resume" /\ pool[b] = "out"
  /\ \E p \in {"free", "out"} : pool' = [pool EXCEPT ![b] = p]
  /\ Goto(<<a, "op">>, "release") /\ GapIf(Unasked(a, b), "copy")
  /\ UNCHANGED <<names, self, adding, sweep, crashes, events>>

Released(a) ==        \* then the farewell
  LET b == row[a] IN
  /\ \/ At(<<a, "op">>, "release")
     \/ Giving(a) /\ b # None /\ ~ToCopy(a) /\ Op(a) # "resume" /\ pool[b] # "out"
  /\ Goto(<<a, "op">>, "goodbye")
  /\ Release(a, b) /\ GapIf(Unasked(a, b), "copy")
  /\ UNCHANGED <<names, self, adding, sweep, crashes, events>>

(* The release is over, and the row goes.  A swap puts the new bot's there, *)
(* unless another agent has it by now: then it keeps the old row.           *)
Taken(a) == \E c \in Agents \ {a} : row[c] = job[<<a, "op">>].bot
Left(a) ==
  LET j == <<a, "op">> IN
  LET b == row[a] IN
  /\ At(j, "goodbye") \/ At(j, "left")
  /\ queued' = IF At(j, "goodbye") THEN [queued EXCEPT ![b] = IdleName(b, pool)] ELSE queued
  /\ row' = [row EXCEPT ![a] = IF Op(a) # "swap" THEN None
                               ELSE IF Taken(a) THEN b ELSE job[j].bot]
  /\ GapIf(Op(a) = "swap" /\ Taken(a), "added")
  /\ arch' = IF Op(a) = "archive" THEN [arch EXCEPT ![a].st = "released"] ELSE arch
  /\ IF Op(a) \in {"archive", "resume", "delete"} THEN Goto(j, "last") ELSE End(j)
  /\ UNCHANGED <<pool, called, state, box, copied, adding, sweep, crashes, events>>

Gone(a) ==
  /\ At(<<a, "op">>, "last") /\ End(<<a, "op">>)
  /\ arch' = [arch EXCEPT ![a] = NoArchive]
  /\ \/ Become(a, IF Op(a) = "delete" THEN "DELETED" ELSE "ARCHIVED") /\ events' = events
     \/ Op(a) = "delete" /\ Event /\ Become(a, "FAILED")   \* a stored key stayed
  /\ UNCHANGED <<pool, names, row, box, adding, sweep, gap, crashes>>

Giver(a) == NoBot(a) \/ LeaveToCopy(a) \/ Recycle(a) \/ Released(a) \/ Left(a) \/ Gone(a)
Leaving == \E a \in Agents : Detach(a) \/ Swap(a) \/ SwapGate(a) \/ Archive(a) \/ Delete(a)
                             \/ Down(a) \/ StaysUp(a) \/ Giver(a)
-----------------------------------------------------------------------------
(* Start, Rebuild: up on the bot of its row.                               *)
Boot(a) ==
  /\ Request(a) /\ Settled(a) /\ Become(a, "RUNNING")
  /\ box' = [box EXCEPT ![a] = [up |-> TRUE, bot |-> row[a]]]
  /\ UNCHANGED <<pool, names, row, arch, proc, gap, crashes>>

Stop(a) ==
  /\ Request(a) /\ state[a] = "RUNNING" /\ Become(a, "STOPPED")
  /\ box' = [box EXCEPT ![a].up = FALSE]
  /\ UNCHANGED <<pool, names, row, arch, proc, gap, crashes>>

Download(a) ==        \* a copy of a stopped agent, its bot's token in it
  /\ Request(a) /\ state[a] = "STOPPED" /\ row[a] # None
  /\ copied' = [copied EXCEPT ![a] = row[a]]
  /\ UNCHANGED <<pool, names, row, state, box, arch, proc, gap, crashes>>

(* POST /v1/pool: no agent's here, then in the pool.                       *)
AddBegin(b) ==
  /\ Asked /\ adding = None /\ ~\E a \in Agents : row[a] = b /\ state[a] # "DELETED"
  /\ adding' = b
  /\ UNCHANGED <<pool, names, self, job, sweep, gap, crashes>>

Added ==
  /\ adding # None /\ adding' = None
  /\ pool' = [pool EXCEPT ![adding] = IF @ = "out" THEN "free" ELSE @]
  /\ GapIf(\E a \in Agents : adding \in {row[a], copied[a]} /\ pool[adding] = "out", "added")
  /\ UNCHANGED <<names, self, job, sweep, crashes, events>>

Remove(b) ==
  /\ Asked /\ pool[b] = "free"
  /\ pool' = [pool EXCEPT ![b] = "out"] /\ queued' = [queued EXCEPT ![b] = None]
  /\ UNCHANGED <<called, self, proc, gap, crashes>>

(* retryPendingNames: the name queued as the retry begins, and what it does *)
(* to it when Telegram answers.  "for" is whom it was queued for, unless a   *)
(* lease has just been taken and has not queued its own name yet.           *)
SweepTakes(b) ==
  /\ Event /\ sweep = NoSweep /\ queued[b] # None
  /\ sweep' = [bot |-> b, name |-> queued[b],
               for |-> IF \E j \in Jobs : At(j, "drop") /\ job[j].bot = b THEN None ELSE pool[b]]
  /\ UNCHANGED <<pool, names, self, job, adding, gap, crashes>>

IfStill(b, n)   == IF queued[b] = sweep.name THEN n ELSE queued[b]
SweepLands ==
  LET b == sweep.bot IN
  /\ sweep # NoSweep /\ sweep' = NoSweep
  /\ \/ /\ called' = [called EXCEPT ![b] = sweep.name]
        /\ queued' = [queued EXCEPT ![b] = IF pool[b] = "out" THEN @ ELSE IfStill(b, None)]
        /\ GapIf(pool[b] \in Agents \ {sweep.for, sweep.name} /\ queued[b] # pool[b], "crossed")
        /\ events' = events
     \/ /\ called' = called /\ UNCHANGED <<gap, events>>   \* asked too often
        /\ queued' = [queued EXCEPT ![b] = IF pool[b] = "out" THEN @ ELSE IfStill(b, sweep.name)]
     \/ /\ Event /\ called' = called /\ GapIf(TRUE, "dead")
        /\ queued' = [queued EXCEPT ![b] = IfStill(b, None)]
  /\ UNCHANGED <<pool, self, job, adding, crashes>>

Others == \/ \E a \in Agents : Boot(a) \/ Stop(a) \/ Download(a)
          \/ \E b \in Bots : AddBegin(b) \/ Remove(b) \/ SweepTakes(b)
          \/ Added \/ SweepLands
-----------------------------------------------------------------------------
(* The process dies.  What a container was told may have taken effect.     *)
Half(a) == LET j == <<a, "op">> IN
  IF At(j, "stop") THEN {box[a], [box[a] EXCEPT !.up = FALSE]}
  ELSE IF At(j, "boot") THEN {box[a], [up |-> TRUE, bot |-> row[a]]} ELSE {box[a]}
CutAt(j, why) ==
  IF why = "lease" THEN job[j].op = "swap" \/ job[j].pc \in {"drop", "name", "gate"}
  ELSE job[j].pc \in {"release", "goodbye"} /\ job[j].op \in {"detach", "swap", "delete"}
Crash ==
  /\ Event /\ crashes < MaxCrashes /\ crashes' = crashes + 1
  /\ \E f \in [Agents -> UNION {Half(a) : a \in Agents}] :
       (\A a \in Agents : f[a] \in Half(a)) /\ box' = f
  /\ job' = [j \in Jobs |-> NoJob] /\ adding' = None /\ sweep' = NoSweep
  /\ gap' = gap \cup {why \in {"lease", "farewell"} : \E j \in Jobs : CutAt(j, why)}
  /\ UNCHANGED <<pool, names, row, state, copied, arch>>

(* A setup cut off: the rest of it if its container answers, or failed.    *)
ResumeSetUp(a) ==
  /\ state[a] = "PROVISIONING" /\ Op(a) = "none"
  /\ \/ box[a].up /\ Begin(a, "setup", "find") /\ UNCHANGED <<state, copied, events>>
     \/ ~box[a].up /\ Become(a, "FAILED") /\ UNCHANGED <<job, events>>
     \/ box[a].up /\ Event /\ Become(a, "FAILED") /\ job' = job
  /\ UNCHANGED <<pool, names, row, box, arch, adding, sweep, gap, crashes>>

(* resumeArchive: its bot given back, on the record or in the pool, means    *)
(* finish; otherwise undo.                                                  *)
OnRecord(a)  == arch[a].st = "released"                            \* a mutant
GivenUp(a) ==
  \/ arch[a].copy \/ arch[a].st = "released"
  \/ arch[a].bot # None /\ pool[arch[a].bot] \notin {a, "out"}

CutSettled(a) == arch[a].st # "none" /\ Op(a) = "none" /\ Settled(a) \* a mutant
Cut(a) == arch[a].st # "none" /\ Op(a) = "none"
TakenUp(a) ==         \* at boot, or its owner tries again
  Cut(a) /\ IF arch[a].held THEN Event ELSE events' = events
Finish(a) ==
  /\ TakenUp(a) /\ GivenUp(a) /\ Begin(a, "resume", "stop")
  /\ arch' = [arch EXCEPT ![a].held = FALSE]
  /\ UNCHANGED <<pool, names, row, state, box, copied, adding, sweep, gap, crashes>>

Undo(a) ==
  /\ TakenUp(a) /\ ~GivenUp(a) /\ arch' = [arch EXCEPT ![a] = NoArchive]
  /\ IF arch[a].was
     THEN Become(a, "RUNNING") /\ box' = [box EXCEPT ![a].up = TRUE]
     ELSE UNCHANGED <<state, copied, box>>
  /\ UNCHANGED <<pool, names, row, proc, gap, crashes>>

Resume == \E a \in Agents : ResumeSetUp(a) \/ Finish(a) \/ Undo(a)
-----------------------------------------------------------------------------
(* One runs on its bot, leased or pasted (which one does not matter); the    *)
(* others are still to be made.                                             *)
Init ==
  /\ LET a == CHOOSE a \in Agents : TRUE
         b == CHOOSE b \in Bots : TRUE
     IN /\ row = [c \in Agents |-> IF c = a THEN b ELSE None]
        /\ state = [c \in Agents |-> IF c = a THEN "RUNNING" ELSE "NEW"]
        /\ \E p \in {a, "out"} : pool = [d \in Bots |-> IF d = b THEN p ELSE "free"]
        /\ called = [d \in Bots |-> IF d = b THEN a ELSE "idle"]
  /\ box = [a \in Agents |-> [up |-> state[a] = "RUNNING", bot |-> row[a]]]
  /\ queued = [b \in Bots |-> None] /\ copied = [a \in Agents |-> None]
  /\ arch = [a \in Agents |-> NoArchive] /\ job = [j \in Jobs |-> NoJob]
  /\ adding = None /\ sweep = NoSweep /\ gap = {} /\ crashes = 0 /\ events = 0

Next == Provisioner \/ SettingUp \/ Attaching \/ Leaving \/ Others \/ Crash \/ Resume

(* The process's own steps are taken; Docker and Telegram answer.          *)
Fairness == \A a \in Agents : WF_vars(Down(a)) /\ WF_vars(Giver(a)) /\ WF_vars(Finish(a) \/ Undo(a))

Spec == Init /\ [][Next]_vars /\ Fairness
-----------------------------------------------------------------------------
Names  == Agents \cup {"idle"}
States == {"NEW", "PROVISIONING", "RUNNING", "STOPPED", "ARCHIVED", "DELETING", "DELETED", "FAILED"}
Ops    == {"none", "setup", "attach", "detach", "swap", "archive", "delete", "resume"}
Places == {"none", "find", "drop", "name", "gate", "sync", "boot", "health",
           "stop", "give", "release", "goodbye", "left", "last"}
Gaps   == {"kept", "gone", "dead", "late", "copy", "added", "crossed", "lease", "farewell"}
TypeOK ==
  /\ pool \in [Bots -> Agents \cup {"out", "free"}]
  /\ queued \in [Bots -> Names \cup {None}] /\ called \in [Bots -> Names]
  /\ row \in [Agents -> Bots \cup {None}] /\ copied \in [Agents -> Bots \cup {None}]
  /\ state \in [Agents -> States]
  /\ box \in [Agents -> [up : BOOLEAN, bot : Bots \cup {None}]]
  /\ arch \in [Agents -> [st : {"none", "begun", "stopped", "released"}, was : BOOLEAN,
                          bot : Bots \cup {None}, copy : BOOLEAN, held : BOOLEAN]]
  /\ job \in [Jobs -> [op : Ops, pc : Places, bot : Bots \cup {None}, mine : BOOLEAN]]
  /\ adding \in Bots \cup {None}
  /\ sweep \in [bot : Bots \cup {None}, name : Names, for : Agents \cup {"out", "free", None}]
  /\ gap \subseteq Gaps /\ crashes \in 0..MaxCrashes /\ events \in 0..MaxEvents

(* No two containers poll one bot, whatever is leased, given back, failed   *)
(* or cut off in what order.                                                *)
OnePoller == \A a, c \in Agents :
  a # c /\ box[a].up /\ box[c].up => box[a].bot # box[c].bot \/ box[a].bot = None

(* A live bot offered all the same: after a restart during the release of a  *)
(* detach, a swap or a delete (no operation says where it was), when it was  *)
(* added to the pool as it was attached, and when an attach ends long after  *)
(* its agent was archived and set up anew.                                  *)
OfferedInAGap == gap \cap {"farewell", "added", "gone"} # {}

(* The bot of a downloaded copy is not given to another agent by an archive  *)
(* or a delete, cut off or not; Detach and Swap do not ask (a gap).          *)
CopyKeepsItsBot == \A a \in Agents :
  copied[a] # None /\ state[a] # "RUNNING" =>
    pool[copied[a]] \in {a, "out"} \/ "copy" \in gap \/ OfferedInAGap

(* A bot that serves an agent bears its name, or the name is queued.        *)
ServesUnderItsName == \A a \in Agents, b \in Bots :
  row[a] = b /\ pool[b] = a =>
    \/ a \in {called[b], queued[b]} \/ At(<<a, "attach">>, "drop")
    \/ gap \cap {"crossed", "dead", "late", "lease"} # {}

(* The pool's word about a bot is true.  One that something polls is not     *)
(* offered as a spare: the next setup would lease it, and Remove would       *)
(* delete the token it runs on.  One that is leased has a holder: leased to  *)
(* an agent that is deleted it could be neither leased nor removed (the gaps *)
(* are an attach or a setup refused with its lease kept, and a restart in    *)
(* the middle of a lease).                                                  *)
PoolIsTrue == \A a \in Agents :
  /\ box[a].up /\ box[a].bot # None /\ pool[box[a].bot] = "free" => OfferedInAGap
  /\ state[a] = "DELETED" /\ (\E b \in Bots : pool[b] = a) =>
       gap \cap {"kept", "lease", "added"} # {} \/ job[<<a, "attach">>] # NoJob

(* An archive cut off is undone only while the agent still has its bot.     *)
UndoneKeepsItsBot == [][\A a \in Agents :
  arch[a].st # "none" /\ arch'[a].st = "none" /\ state'[a] # "ARCHIVED" =>
    \/ row'[a] = arch[a].bot /\ (arch[a].bot = None \/ pool'[arch[a].bot] \in {a, "out"})
    \/ OfferedInAGap]_vars

(* An archive ends, done or undone, or is held for its owner.              *)
ArchiveEnds == \A a \in Agents : arch[a].st # "none" ~> arch[a].st = "none" \/ arch[a].held
=============================================================================
