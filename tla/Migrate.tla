------------------------------ MODULE Migrate -------------------------------
(***************************************************************************)
(* Moving an agent to another Hatchabot (orchestrator/migrate.ts): a second *)
(* server with its own database, its own restarts and its own owner.  Here  *)
(* the agent is exported and stopped; there the file is imported by one     *)
(* HTTP request that takes minutes.  The answer may be lost, a proxy may    *)
(* send the request twice, either server may die at any point.  The mover   *)
(* must end with the agent on exactly one side.                             *)
(*                                                                          *)
(* One agent, one move at a time.  A step is what runs between two awaits   *)
(* of a process; a request and what its handler does before its own first   *)
(* await is one step of the other server.                                   *)
(***************************************************************************)
EXTENDS Naturals

CONSTANT Windows  \* what a repeated request is allowed to do, of two things

ASSUME WindowsAssumption == Windows \subseteq {"answered", "outlives"}

VARIABLES
  src,      \* here: the agents row and its container
  mop,      \* here: the newest migrate row of the operations table
  job,      \* here: the process, where its move stands and what it was told
  peer,     \* here: is the other server still among the owner's servers
  there,    \* the other server: up, cut off from this one, or down
  imp,      \* there: per copy of the request, its import
  receipt   \* there: the move_receipts row of this move

vars == <<src, mop, job, peer, there, imp, receipt>>
here == <<src, mop, job, peer>>
away == <<there, imp, receipt>>

-----------------------------------------------------------------------------
Copies   == {1, 2}          \* the request, and a proxy's repeat of it
Other(c) == 3 - c

Status == {"over", "running", "interrupted", "held"}
Active == mop.status # "over"               \* store.activeOperationFor
Free   == job.pc = "idle" /\ ~Active /\ ~src.moved  \* busyNow, movedAway

At(p)  == [job EXCEPT !.pc = p]
Idle   == [pc |-> "idle", told |-> "none", never |-> FALSE, once |-> FALSE]
Asking(once) == [Idle EXCEPT !.pc = "ask", !.once = once]

NoImport == [at |-> "none", row |-> "none", op |-> "none", con |-> "absent",
             memory |-> FALSE, answer |-> "none"]
NoReceipt == [has |-> FALSE, by |-> 1, op |-> 0, outcome |-> "none", fresh |-> FALSE]

(* An agents row that is not DELETED; listAllActiveAgents, GET /v1/agents. *)
Lives(c)  == imp[c].row \in {"PROVISIONING", "RUNNING"}
Landed(c) == imp[c].row = "RUNNING"
Working(c) ==
  imp[c].at \in {"checking", "made", "built", "configured", "started", "undoing"}
Gone(c)   == imp[c].at \in {"none", "lost", "ended"} /\ ~Lives(c)

(* moveState: what became of an announced move.                            *)
OperationsStatus ==                                              \* a mutant
  IF ~receipt.has THEN "unknown"
  ELSE IF receipt.op # 0 THEN imp[receipt.op].op
  ELSE IF receipt.outcome # "none" THEN receipt.outcome
  ELSE IF receipt.fresh THEN "running" ELSE "failed"
MoveState ==
  IF ~receipt.has THEN "unknown"
  ELSE IF receipt.op # 0 THEN
    CASE imp[receipt.op].op = "succeeded" -> "landed"
      [] imp[receipt.op].op = "rolled_back" /\ ~Lives(receipt.op) -> "failed"
      [] OTHER -> "running"
  ELSE IF receipt.outcome # "none" THEN receipt.outcome
  ELSE IF receipt.fresh THEN "running" ELSE "failed"

-----------------------------------------------------------------------------
(* Start and a wake, Stop and a sleep: nothing else is asked of them here. *)
StartRoute ==
  /\ Free /\ src.state = "STOPPED"
  /\ \/ src' = [src EXCEPT !.state = "RUNNING", !.up = TRUE, !.asleep = FALSE]
     \/ \E u \in {src.up, TRUE} : src' = [src EXCEPT !.up = u]
  /\ UNCHANGED <<mop, job, peer, away>>

StopOrSleep ==
  /\ Free /\ src.state = "RUNNING"
  /\ \/ \E asleep \in BOOLEAN :
          src' = [src EXCEPT !.state = "STOPPED", !.up = FALSE, !.asleep = asleep]
     \/ \E u \in {src.up, FALSE} : src' = [src EXCEPT !.up = u]
  /\ UNCHANGED <<mop, job, peer, away>>

RemovePeer ==
  /\ peer /\ peer' = FALSE
  /\ UNCHANGED <<src, mop, job, away>>

(* migrateAgentInner.  What is left there of an earlier move makes the     *)
(* preflight refuse, so such a move is not begun.                          *)
MoveBegin ==
  /\ Free /\ \A c \in Copies : Gone(c)
  /\ mop' = [status |-> "running", sent |-> FALSE, canAsk |-> FALSE,
             wasRunning |-> src.state = "RUNNING", slept |-> src.asleep]
  /\ job' = At("preflight")
  /\ peer' = TRUE
  /\ imp' = [c \in Copies |-> NoImport] /\ receipt' = NoReceipt
  /\ UNCHANGED <<src, there>>

(* A refusal, or no answer, ends the move with nothing changed.            *)
Preflight ==
  /\ job.pc = "preflight"
  /\ \/ there = "up" /\ job' = At("stop") /\ UNCHANGED mop
     \/ job' = Idle /\ mop' = [mop EXCEPT !.status = "over"]
  /\ UNCHANGED <<src, peer, away>>

(* exportAgent: stop and confirm, read the volume, clear the sleep.        *)
StopSource ==
  /\ job.pc = "stop"
  /\ \/ /\ src' = [src EXCEPT !.up = FALSE, !.state = "STOPPED"]
        /\ job' = At("export") /\ UNCHANGED mop
     \/ /\ \E u \in {src.up, FALSE} : src' = [src EXCEPT !.up = u]
        /\ job' = Idle /\ mop' = [mop EXCEPT !.status = "over"]
  /\ UNCHANGED <<peer, away>>

ExportSource ==
  /\ job.pc = "export"
  /\ \/ src' = [src EXCEPT !.asleep = FALSE] /\ job' = At("exported")
     \/ job' = At("restart") /\ UNCHANGED src
  /\ UNCHANGED <<mop, peer, away>>

(* restoreIfRunning: an export that failed puts a running agent back.      *)
RestartSource ==
  /\ job.pc = "restart"
  /\ src' \in IF mop.wasRunning
                THEN {[src EXCEPT !.up = TRUE, !.state = "RUNNING"]} \union
                     {[src EXCEPT !.up = u] : u \in BOOLEAN}
                ELSE {src}
  /\ job' = Idle /\ mop' = [mop EXCEPT !.status = "over"]
  /\ UNCHANGED <<peer, away>>

(* The step is on disk before the file is sent.                            *)
Send ==
  /\ job.pc = "exported"
  /\ mop' = [mop EXCEPT !.sent = TRUE]
  /\ imp' = [imp EXCEPT ![1].at = "flying"]
  /\ job' = At("send")
  /\ UNCHANGED <<src, peer, there, receipt>>

(* A proxy between the servers sends the request again while the mover     *)
(* still waits.                                                            *)
Repeat ==
  /\ job.pc = "send" /\ imp[2].at = "none"
  /\ imp' = [imp EXCEPT ![2].at = "flying"]
  /\ UNCHANGED <<here, there, receipt>>

FlightLost(c) ==
  /\ imp[c].at = "flying"
  /\ imp' = [imp EXCEPT ![c].at = "lost"]
  /\ UNCHANGED <<here, there, receipt>>

-----------------------------------------------------------------------------
(* The other server: one import per copy of the request that reaches it.   *)
Ended(c, answer) == [imp[c] EXCEPT !.at = "ended", !.answer = answer]

(* receiveMove's two callbacks.  Only the copy that reserved the receipt   *)
(* attaches its operation in any case, and only it, or the one attached,   *)
(* writes an outcome.                                                      *)
Attach(c) ==
  IF receipt.by = c \/ receipt.op = 0 THEN [receipt EXCEPT !.op = c] ELSE receipt
FinishAny(c, outcome) == [receipt EXCEPT !.outcome = outcome]    \* a mutant
Finish(c, outcome) ==
  IF receipt.by = c \/ receipt.op = c THEN [receipt EXCEPT !.outcome = outcome]
                                      ELSE receipt

(* With "outlives" closed, once a copy has failed another that does not    *)
(* hold the receipt fails too: same file, same server.                     *)
Outlived(c) ==
  /\ "outlives" \notin Windows
  /\ imp[Other(c)].at = "ended" /\ ~Landed(Other(c))
  /\ ~(receipt.has /\ receipt.by = c)

(* The restore route up to the import's first await.  The server's own     *)
(* refusals (agent limit, machine, AI source) come before the receipt; the *)
(* slug and the bot are looked at after it.                                *)
Arrive(c) ==
  /\ there # "down" /\ imp[c].at = "flying"
  /\ \/ imp' = [imp EXCEPT ![c] = Ended(c, "refused")] /\ UNCHANGED receipt
     \/ LET got == IF receipt.has THEN receipt
                   ELSE [NoReceipt EXCEPT !.has = TRUE, !.by = c, !.fresh = TRUE]
        IN \/ /\ Lives(Other(c)) \/ Outlived(c)
              /\ imp' = [imp EXCEPT ![c] = Ended(c, "refused")]
              /\ receipt' = IF got.by = c THEN [got EXCEPT !.outcome = "failed"] ELSE got
           \/ /\ ~Lives(Other(c)) /\ ~Outlived(c)
              /\ imp' = [imp EXCEPT ![c].at = "checking",
                           ![Other(c)].row = IF @ = "DELETED" THEN "RELEASED" ELSE @]
              /\ receipt' = got
  /\ UNCHANGED <<here, there>>

(* Image, version and token are looked at, then the row and the operation  *)
(* are written.  Names are unique per owner, deleted ones included.        *)
NameFree(c) == imp[Other(c)].row \in {"none", "RELEASED"}

CheckRefused(c) ==
  /\ there # "down" /\ imp[c].at = "checking"
  /\ \/ imp' = [imp EXCEPT ![c] = Ended(c, "refused")]
     \/ ~NameFree(c) /\ imp' = [imp EXCEPT ![c] = Ended(c, "unclear")]
  /\ receipt' = Finish(c, "failed")
  /\ UNCHANGED <<here, there>>

MakeRow(c) ==
  /\ there # "down" /\ imp[c].at = "checking" /\ NameFree(c) /\ ~Outlived(c)
  /\ imp' = [imp EXCEPT ![c].at = "made", ![c].row = "PROVISIONING", ![c].op = "running"]
  /\ receipt' = Attach(c)
  /\ UNCHANGED <<here, there>>

(* Provision and import; provision again with this server's configuration; *)
(* start; health and settling.  Any of them may fail, with or without      *)
(* having taken effect.                                                    *)
Effects(c) ==
  {e \in [con : {"absent", "stopped", "running"}, memory : BOOLEAN] :
     /\ \/ e.con = imp[c].con
        \/ imp[c].at = "made" /\ e.con = "stopped"
        \/ imp[c].at = "configured" /\ e.con = "running"
        \/ imp[c].at \in {"undoing", "ended"} /\ e.con = "absent"
     /\ \/ e.memory = imp[c].memory
        \/ imp[c].at = "made"
        \/ imp[c].at \in {"undoing", "ended"} /\ ~e.memory}
Partly(c) == {[imp[c] EXCEPT !.con = e.con, !.memory = e.memory] : e \in Effects(c)}

Copy(c)      == imp[c].at = "made" /\ imp' = [imp EXCEPT
                  ![c].at = "built", ![c].con = "stopped", ![c].memory = TRUE]
Configure(c) == imp[c].at = "built" /\ imp' = [imp EXCEPT ![c].at = "configured"]
Start(c)     == imp[c].at = "configured" /\ imp' = [imp EXCEPT
                  ![c].at = "started", ![c].con = "running"]
Fail(c)      == /\ imp[c].at \in {"made", "built", "configured", "started"}
                /\ \E i \in Partly(c) : imp' = [imp EXCEPT ![c] = [i EXCEPT !.at = "undoing"]]

ImportOn(c) ==
  /\ there # "down"
  /\ Copy(c) \/ Configure(c) \/ Start(c) \/ Fail(c)
  /\ UNCHANGED <<here, there, receipt>>

Land(c) ==
  /\ there # "down" /\ imp[c].at = "started"
  /\ imp' = [imp EXCEPT ![c] = [Ended(c, "created") EXCEPT
                                  !.row = "RUNNING", !.op = "succeeded"]]
  /\ receipt' = Finish(c, "landed")
  /\ UNCHANGED <<here, there>>

(* rollbackImport.  A container that cannot be removed keeps the row, and  *)
(* holds the import for its owner; the answer is then no refusal.          *)
Forgotten(c) == [imp[c] EXCEPT !.row = "DELETED", !.op = "rolled_back"] \* a mutant
Removed(c) == [imp[c] EXCEPT !.con = "absent", !.memory = FALSE,
                             !.row = "DELETED", !.op = "rolled_back"]
UndoImport(c) ==
  /\ there # "down" /\ imp[c].at = "undoing"
  /\ \/ /\ imp' = [imp EXCEPT ![c] =
                     [Removed(c) EXCEPT !.at = "ended", !.answer = "refused"]]
        /\ receipt' = Finish(c, "failed")
     \/ /\ \E i \in Partly(c) : imp' = [imp EXCEPT ![c] =
              [i EXCEPT !.at = "ended", !.answer = "unclear", !.op = "held"]]
        /\ UNCHANGED receipt
  /\ UNCHANGED <<here, there>>

(* resumeImport: at boot, or when the owner there presses Try again.       *)
ResumeImport(c) ==
  /\ there # "down" /\ imp[c].at = "ended" /\ imp[c].op \in {"interrupted", "held"}
  /\ \/ Landed(c) /\ imp' = [imp EXCEPT ![c].op = "succeeded"]
     \/ ~Landed(c) /\ imp' = [imp EXCEPT ![c] = Removed(c)]
     \/ ~Landed(c) /\ \E i \in Partly(c) : imp' = [imp EXCEPT ![c] = [i EXCEPT !.op = "held"]]
  /\ UNCHANGED <<here, there, receipt>>

(* A death there: every request being worked on is cut off, and the call   *)
(* under way may have taken effect.  The row and its operation are two     *)
(* writes before the receipt knows them, and two before it is done.        *)
CutOff(c) ==
  CASE imp[c].at = "checking" ->
         {Ended(c, "unclear")} \union
         {i \in {[Ended(c, "unclear") EXCEPT !.row = "PROVISIONING", !.op = "running"]} :
            NameFree(c) /\ ~Outlived(c)}
    [] imp[c].at = "started" ->
         {[Ended(c, "unclear") EXCEPT !.row = r] : r \in {"PROVISIONING", "RUNNING"}}
    [] imp[c].at \in {"made", "built", "configured", "undoing"} ->
         {[i EXCEPT !.at = "ended", !.answer = "unclear"] : i \in Partly(c)}
    [] OTHER -> {imp[c]}

CrashThere ==
  /\ there # "down" /\ there' = "down"
  /\ imp' \in {f \in [Copies -> CutOff(1) \union CutOff(2)] :
                 /\ \A c \in Copies : f[c] \in CutOff(c)
                 /\ \E c \in Copies : f[c].row = imp[c].row}
  /\ receipt' = [receipt EXCEPT !.fresh = FALSE]
  /\ UNCHANGED here

BootThere ==
  /\ there = "down" /\ there' = "up"
  /\ imp' = [c \in Copies |-> IF imp[c].op = "running"
                                THEN [imp[c] EXCEPT !.op = "interrupted"] ELSE imp[c]]
  /\ UNCHANGED <<here, receipt>>

LinkFlips ==
  /\ there # "down" /\ there' = IF there = "up" THEN "cut" ELSE "up"
  /\ UNCHANGED <<here, imp, receipt>>

-----------------------------------------------------------------------------
(* Here again: the answer, or none.  isDefiniteRefusal: only a refusal     *)
(* that is Hatchabot's own undoes the move without asking.  With           *)
(* "answered" closed, a proxy that sent the request twice passes on a      *)
(* refusal only when no other copy of it was taken on.                     *)
PassedOn(c) ==
  \/ "answered" \in Windows
  \/ ~Working(Other(c)) /\ ~Lives(Other(c))

DefiniteRefusal(a) == a = "refused"

Answered(c) ==
  /\ job.pc = "send" /\ there = "up" /\ imp[c].at = "ended"
  /\ job' = CASE imp[c].answer = "created" -> At("arrived")
              [] DefiniteRefusal(imp[c].answer) -> At("undo")
              [] OTHER -> Asking(FALSE)
  /\ DefiniteRefusal(imp[c].answer) => PassedOn(c)
  /\ UNCHANGED <<src, mop, peer, away>>

AnswerLost ==
  /\ job.pc = "send" /\ job' = Asking(FALSE)
  /\ UNCHANGED <<src, mop, peer, away>>

(* destinationHasAgent.  A request still on its way is received before the *)
(* answer that concludes it never was: 15 seconds later, or ten minutes.   *)
Conclusive == job.once \/ job.never
Ask ==
  /\ job.pc = "ask"
  /\ LET told == IF there = "up" THEN MoveState ELSE "none" IN
     /\ told = "unknown" /\ Conclusive => \A c \in Copies : imp[c].at # "flying"
     /\ job' = [job EXCEPT !.told = told,
                  !.pc = CASE told = "landed" -> "arrived" [] told = "failed" -> "undo"
                           [] told = "running" -> "again"  [] OTHER -> "list"]
  /\ UNCHANGED <<src, mop, peer, away>>

(* Its list of agents, read when the receipt did not decide.               *)
List ==
  /\ job.pc = "list"
  /\ job' = IF there # "up" THEN At("again")
            ELSE IF \E c \in Copies : Landed(c) THEN At("arrived")
            ELSE IF \E c \in Copies : Lives(c) \/ job.told # "unknown" THEN At("again")
            ELSE IF Conclusive THEN At("undo")
            ELSE [At("again") EXCEPT !.never = TRUE]
  /\ UNCHANGED <<src, mop, peer, away>>

(* Twelve asks at most, one on a re-ask; then the move is held.            *)
HoldForOwner(canAsk) ==                                          \* a mutant
  /\ mop' = [mop EXCEPT !.status = "held"]
  /\ job' = Idle
Hold(canAsk) ==
  /\ mop' = [mop EXCEPT !.status = "held", !.canAsk = canAsk]
  /\ job' = Idle

AskAgain ==
  /\ job.pc = "again"
  /\ \/ ~job.once /\ job' = At("ask") /\ UNCHANGED mop
     \/ Hold(TRUE)
  /\ UNCHANGED <<src, peer, away>>

(* settleArrived, then the end of the operation: two writes.               *)
Tombstone ==
  /\ job.pc = "arrived" /\ src' = [src EXCEPT !.moved = TRUE]
  /\ job' = At("end") /\ UNCHANGED <<mop, peer, away>>

(* undoSource: a sleeping agent sleeps again, a running one is started.    *)
PutBackAwake(s) == s                                             \* a mutant
PutBack(s) == IF mop.slept /\ s.state = "STOPPED" THEN [s EXCEPT !.asleep = TRUE] ELSE s
UndoSource ==
  /\ job.pc = "undo"
  /\ LET back == PutBack(src) IN
     src' \in IF mop.wasRunning
                THEN {[back EXCEPT !.up = TRUE, !.state = "RUNNING", !.asleep = FALSE]} \union
                     {[back EXCEPT !.up = u, !.state = "STOPPED"] : u \in {src.up, TRUE}}
                ELSE {back}
  /\ job' = At("end") /\ UNCHANGED <<mop, peer, away>>

EndMove ==
  /\ job.pc = "end" /\ job' = Idle
  /\ mop' = [mop EXCEPT !.status = "over"]
  /\ UNCHANGED <<src, peer, away>>

(* A death here: the docker call under way may have taken effect.          *)
CrashHere ==
  /\ job.pc # "dead" /\ job' = [Idle EXCEPT !.pc = "dead"]
  /\ src' \in {src} \union
       (CASE job.pc = "stop" -> {[src EXCEPT !.up = FALSE]}
          [] job.pc \in {"restart", "undo"} /\ mop.wasRunning -> {[src EXCEPT !.up = TRUE]}
          [] job.pc = "export" -> {[src EXCEPT !.asleep = FALSE]}
          [] OTHER -> {})
  /\ UNCHANGED <<mop, peer, away>>

BootHere ==
  /\ job.pc = "dead" /\ job' = Idle
  /\ mop' = [mop EXCEPT !.status = IF @ = "running" THEN "interrupted" ELSE @]
  /\ UNCHANGED <<src, peer, away>>

(* resumeMigrate: at boot, and every ten minutes for a move held on the    *)
(* question (asked once then).  Before anything was sent there is nothing  *)
(* to ask; a server no longer known cannot be asked.                       *)
ResumeBlindly(once) == IF src.moved THEN At("end") ELSE At("undo") \* a mutant
Resumed(once) ==
  IF src.moved THEN At("end") ELSE IF mop.sent THEN Asking(once) ELSE At("undo")
ResumeMigrate ==
  /\ job.pc = "idle"
  /\ \/ mop.status = "interrupted"
     \/ mop.status = "held" /\ mop.canAsk
  /\ IF ~src.moved /\ mop.sent /\ ~peer
       THEN Hold(FALSE)
       ELSE job' = Resumed(mop.status = "held") /\ UNCHANGED mop
  /\ UNCHANGED <<src, peer, away>>

(* recoverMigrate: the owner's word, which is true and stays true.         *)
SayArrived ==
  /\ job.pc = "idle" /\ mop.status = "held"
  /\ \E c \in Copies : Landed(c)
  /\ job' = At("arrived") /\ UNCHANGED <<src, mop, peer, away>>

SayNotThere ==
  /\ job.pc = "idle" /\ mop.status = "held"
  /\ \A c \in Copies : Gone(c)
  /\ job' = At("undo") /\ UNCHANGED <<src, mop, peer, away>>

-----------------------------------------------------------------------------
Init ==
  /\ \E s \in {"RUNNING", "STOPPED"}, a \in BOOLEAN :
       /\ a => s = "STOPPED"
       /\ src = [state |-> s, up |-> s = "RUNNING", asleep |-> a, moved |-> FALSE]
  /\ mop = [status |-> "over", sent |-> FALSE, canAsk |-> FALSE,
            wasRunning |-> FALSE, slept |-> FALSE]
  /\ job = Idle /\ peer = TRUE
  /\ there = "up" /\ imp = [c \in Copies |-> NoImport] /\ receipt = NoReceipt

MoveStep ==
  \/ Preflight \/ StopSource \/ ExportSource \/ RestartSource \/ Send
  \/ (\E c \in Copies : Answered(c)) \/ AnswerLost \/ Ask \/ List \/ AskAgain
  \/ Tombstone \/ UndoSource \/ EndMove

ImportStep(c) ==
  CheckRefused(c) \/ MakeRow(c) \/ ImportOn(c) \/ Land(c) \/ UndoImport(c)

Next ==
  \/ MoveBegin \/ MoveStep \/ ResumeMigrate \/ SayArrived \/ SayNotThere
  \/ StartRoute \/ StopOrSleep \/ RemovePeer \/ Repeat \/ CrashHere \/ BootHere
  \/ \E c \in Copies : Arrive(c) \/ FlightLost(c) \/ ImportStep(c) \/ ResumeImport(c)
  \/ CrashThere \/ BootThere \/ LinkFlips

(* Every await of a move and of an import ends; a request on its way       *)
(* arrives or is lost; the restart rules are run at boot and by a timer.   *)
Fairness ==
  /\ WF_vars(MoveStep) /\ WF_vars(ResumeMigrate)
  /\ \A c \in Copies :
       /\ WF_vars(FlightLost(c)) /\ WF_vars(ImportStep(c))
       /\ WF_vars(ResumeImport(c) /\ imp[c].op = "interrupted")

Spec == Init /\ [][Next]_vars /\ Fairness
-----------------------------------------------------------------------------
(* Every variable stays in its type.                                       *)
AgentRow == [state : {"RUNNING", "STOPPED"}, up : BOOLEAN, asleep : BOOLEAN, moved : BOOLEAN]
OpRow    == [status : Status, sent : BOOLEAN, canAsk : BOOLEAN, wasRunning : BOOLEAN,
             slept : BOOLEAN]
Job      == [pc : {"dead", "idle", "preflight", "stop", "export", "restart", "exported",
                   "send", "ask", "list", "again", "arrived", "undo", "end"},
             told : {"none", "unknown", "running", "landed", "failed"},
             never : BOOLEAN, once : BOOLEAN]
Import   == [at : {"none", "flying", "lost", "checking", "made", "built", "configured",
                   "started", "undoing", "ended"},
             row : {"none", "PROVISIONING", "RUNNING", "DELETED", "RELEASED"},
             op : {"none", "running", "interrupted", "held", "succeeded", "rolled_back"},
             con : {"absent", "stopped", "running"}, memory : BOOLEAN,
             answer : {"none", "created", "refused", "unclear"}]
Receipt  == [has : BOOLEAN, by : Copies, op : {0} \union Copies,
             outcome : {"none", "landed", "failed"}, fresh : BOOLEAN]
TypeOK ==
  /\ src \in AgentRow /\ mop \in OpRow /\ job \in Job /\ peer \in BOOLEAN
  /\ there \in {"up", "cut", "down"} /\ imp \in [Copies -> Import] /\ receipt \in Receipt

(* "Two pollers" is what every guess about a lost answer risks: the agent  *)
(* never runs here while an import of it runs there, nor twice there.      *)
OneSide ==
  /\ src.up => \A c \in Copies : imp[c].con # "running"
  /\ \A c, d \in Copies : imp[c].con = "running" /\ imp[d].con = "running" => c = d

(* So it is at every moment, and a move that is over left the agent on     *)
(* exactly one side: this copy is marked as moved if and only if it landed *)
(* there, and no import of it is still under way there.                    *)
OverOnOneSide ==
  /\ OneSide
  /\ ~Active => /\ src.moved <=> \E c \in Copies : Landed(c)
                /\ \A c \in Copies : Lives(c) => imp[c].at = "ended"

(* "what became of an announced move, definitively where it can be":       *)
(* whatever is repeated, restarted or retried there, landed and failed are *)
(* never taken back.                                                       *)
VerdictFinal ==
  [][receipt'.has /\ MoveState \in {"landed", "failed"} => MoveState' = MoveState]_vars

(* "undo puts it back, or a failed move left the agent plain STOPPED,      *)
(* never to wake on a message again": an agent that was asleep sleeps      *)
(* again after a move that did not happen, whatever cut it off.            *)
AsleepAgain ==
  [][Active /\ mop'.status = "over" /\ mop.slept /\ ~src'.moved => src'.asleep]_vars

(* Once both processes stay up and hear each other, the other server stays *)
(* among the owner's and no import there waits for its owner, a move ends: *)
(* "asked again every 10 minutes until it answers".                        *)
Reachable ==
  /\ job.pc # "dead" /\ there = "up" /\ peer
  /\ \A c \in Copies : imp[c].op # "held"
MoveEnds == <>[]Reachable => (Active ~> ~Active)

(* The two servers together implement OnePoller.  The copy there counts    *)
(* from when it is complete until its import fails; here, otherwise.       *)
Abstract == INSTANCE OnePoller WITH
  Places  <- {"here", "there"},
  home    <- IF \E c \in Copies : Landed(c) \/ imp[c].at \in {"configured", "started"}
               THEN "there" ELSE "here",
  holding <- {"here"} \union (IF \E c \in Copies : imp[c].memory THEN {"there"} ELSE {}),
  polling <- (IF src.up THEN {"here"} ELSE {}) \union
             (IF \E c \in Copies : imp[c].con = "running" THEN {"there"} ELSE {})
OneHome == Abstract!Spec
=============================================================================
