# Verification of hatchabot's control plane

TLA+ models of the parts of hatchabot whose correctness depends on the order of
things: an operation that runs for minutes, is cut off by a restart, and is
finished, undone or held for its owner afterwards. Each module is translated
from the source; TLC checks it on small instances, and TLAPS proves the safety
theorems for every value of its constants.

## 1. The system

hatchabot is one Node process. It owns a SQLite database (`Store`), drives one
or more Docker daemons through a `RuntimeProvider` per row of the `hosts` table,
and serves a web app, an API and a Telegram manager. An *agent* is one
container and one volume (its memory) on one daemon, with names derived from
the agent's id, and usually one Telegram bot. The bot's token is polled by the
agent's container, and Telegram gives each update to one poller only: two
containers on one token fight for every message. Most of the code below exists
to keep exactly one of them up.

Between two awaits the process runs alone, so a *step* in the models is what
runs between two awaits. What interleaves is: the routes, the background
loops (reconcile, idle and wake sweeps, name repair, the ten-minute operation
pass), Docker and Telegram answering late or never, people acting on the
machines by hand, and the death of the process.

Three things keep actors apart:

- the **busy flag** (`orchestrator/busy.ts`), in memory: `whileBusy` refuses a
  second lifecycle operation of the same agent;
- the **operation row** (`orchestrator/operations.ts`), on disk: kind, last step
  reached, parameters, status. While it is not over, routes are refused
  (`operationRefuses`) and reconcile keeps off;
- **conditional SQL writes**, for what outlives both (leases, confirmations).

| Component (source) | State it keeps | Operations | What is hard | What makes it correct |
|---|---|---|---|---|
| Move to another machine (`moveHost.ts`) | operation row, agent's host, image pin, memory-search key | move, resume, retry, put back, remove the copy | death at any point, machine that stops answering, undo that fails | one poller; memory never lost; a settled move is never undone; every move ends or is held |
| Durable operations (`operations.ts`, `operationsResume.ts`) | operations table, boot id | begin, step, hold, done, fail; boot and ten-minute passes | work of a dead process | nothing stays "running"; nobody else touches the agent |
| Reconcile (`reconcile.ts`) | none | sweep | judges with data read before an await | never FAILED for a runtime that is there |
| Runtime provider (`localDockerProvider.ts`) | containers, volumes | provision, start, stop, destroy, status, export, import | a call that times out may have taken effect | callers never take silence for an answer |
| Move to another Hatchabot (`migrate.ts`, `transfer.ts`) | operation row, tombstone; receipts and imported rows on the other server | send, receive, ask what became of it, settle, undo | POST lost, repeated by a proxy, answered late; either server restarts | the agent lives on exactly one side |
| Provision and rebuild (`provision.ts`, the queue in `routes.ts`) | agent state, runtime ref, rebuild queue, what the next start owes | provision, rebuild, queue, owe, follow, requeue | restart between steps, reconcile in between, a Stop or a change while one waits | a change lands, is owed or is reported; a Stop stands |
| Archive (`archive.ts`) and bot pool (`telegramPool.ts`) | leases, parked names, channel rows | lease, release, park, attach, detach, swap, archive, restore, delete | restart around the release; two leases at once; a name retried late | a bot given back is polled by nobody, a live one offered to nobody |
| Hibernation (`hibernate.ts`) | `hibernatedAt`, mark, failures | idle sweep, sleep, wake sweep, wake | a message between stop and mark, restart in between | every message wakes its agent; a busy agent never sleeps |
| Snapshots, backups (`snapshots.ts`, `backups.ts`) | operation row, safety copy | restore, roll back, resume | death while a volume is being replaced | old or new content, never neither |
| Apps (`apps.ts`, `appOperations.ts`, the app routes) | operation row, record of the release; on the agent its link, configuration, staging folder and scheduled tasks | install, update, roll back, stop, use the new one, go back | calls that land and answer an error, death between any two, an app that replaces another | record, link, configuration and tasks agree once it is over; never two apps |
| Budgets (`budgets.ts`) | monthly marks, pause rows | pass, pause, un-pause | a pause racing a Start or a raise, a sleeper paused | the limit stops it, its end does not start what the owner stopped |
| Manager confirmations (`mgmt/pendingStore.ts`, `broker.ts`) | pending cards | propose, claim, expire | two tabs | each card acts once |
| First-contact claim (`claim.ts`, `members.ts`) | pairing list, door policy | hold the door, approve, close | a failure with the door open | nobody but the claimant gets in |
| Embedder door (`embedder/`) | key hashes per host | mint, restore, sync | a move undone | the running container's key opens |

Further parts, listed in `PROJECT.json` with the reason they are left out:
sign-in and second factor, web chat and console proxy, AI sources, Google
connections, schedules, images and OpenClaw configuration, public access,
install and upgrade scripts, problem reports. They are single conditional
writes, text generation or I/O, and hold no protocol that runs over several
awaits of several actors.

## 2. Plan

| | Module | Composes | Checked | Proved |
|---|---|---|---|---|
| 1 | `OnePoller` | abstract promise of any move | by the two that implement it | |
| 2 | `MoveHost` | operations, reconcile, provider, routes; implements `OnePoller` | 7 properties and the refinement | every safety property of the run, others keep off, and the refinement |
| 3 | `Migrate` | two servers and the network between them; implements `OnePoller` | 5 properties and the refinement | all but `MoveEnds` (liveness): types, the verdict is final, one side, asleep again, and the refinement |
| 4 | `BotLease` | pool, setup, attach, detach, swap, archive, delete, restart rules | 6 properties | all but `ArchiveEnds` (liveness) |
| 5 | `Rebuild` | rebuild queue, build, handover, retry, resume of queued and cut rows, reconcile | 4 properties | all but `NeverStuck` (liveness), and that every move of the state machine is legal |
| 6 | `Hibernate` | idle sweep, wake sweep, Telegram's queue, the budget pass, the owner's Start and Stop | 6 properties | no mark on a running agent, only idle agents sleep, an owner's Stop stands |
| 7 | `Restore` | restores from a backup and from a snapshot, their undo, restart rules and choices, the one-shot that unpacks on, snapshot pruning | 4 properties | types, never half-restored and running, a copy remains, outcomes are true |
| 8 | `Apps` | the app operation, its syncs of scheduled tasks, its restart rule and choices, stop, the owner's switch on a task | 6 properties | all but `ChangeSettles` (liveness): types, the record is true, nothing live before the switch, the configuration, one app at a time, record and tasks agree, what was turned off stays off |
| 9 | the first-contact claim, pending confirmations (later) | the pairing list; the pending cards | | |

Modules 1 to 8 exist. `BotLease` and `Rebuild` divide one system between them:
`BotLease` has several agents and makes a container in one step; `Rebuild` has
one agent and takes the making apart. Where the old container of an agent comes
up instead of a new one is `Rebuild`'s question (`GivenBackOnlyInAGap`), and
`BotLease` assumes that it does not.

Each module has one type invariant, `TypeOK`. Where TLAPS proves it (`MoveHost`,
`Migrate`, `Restore`, `Apps`) or where it is a part of what is proved, the runs
are spent on other properties. `LegalMoves` of `Rebuild` is proved and has no
run for the same reason.

Some properties are of the form "P, or a gap was met". A *gap* is a history
variable (`slip`, `gap`) that names a place where the code, by design or by
omission, does not keep P; it is set by the one action that meets it. Each gap
is described in its module's section. A property with gaps says that there are
no others.

## 3. MoveHost

### How it corresponds to the code

| Variable | In the code |
|---|---|
| `agent` | the `agents` row: `host_id`, `state`, whether an `image` is pinned, and which host's memory-search key is on record (`embedTokenRow`) |
| `op` | the newest `move-host` row of `operations`: status, step (the order of `STEPS['move-host']`), and the `MoveParams` the restart rule reads (`from`, `to`, `wasRunning`, `droppedImage`), and the choices of a hold |
| `mach` | per Docker daemon: the agent's container, what its volume holds, whether the daemon answers |
| `job` | the process: where the move's code stands (`pc`), and its local variables (`targetMayRun`, whether the target answered, the orphan verdict) |
| `rc` | reconcile's local copy of the row and of the status it was told; `fresh` stands for `updatedAt` being unchanged |

`op.status = "over"` stands for done, failed and rolled back: no code that is
modelled tells them apart. Memory is abstracted to "this volume holds the
agent's memory", "holds something else" or "there is none"; `other` is both a
freshly seeded volume and a half-imported one. The source volume is written
only by a running source, so there is one version of the memory per move.

Each action is one stretch between two awaits. A docker call is one action:
either it took effect and answered, or it did not answer, or threw, and left
any of its intermediate states (`MayStop`, `MayProvision` ...). What the call
does after it was given up on is assumed to happen before the next step of the
process: the docker CLI child is killed at its timeout
(`localDockerProvider.ts`, `#docker`), 60 s by default.
When the process dies, the call under way may have had any of those effects
(`CallUnderWay`).

`FlipHost` and `RecordFlip` are one stretch of the code, as are
`MarkRunning` and `RecordSettled`; they are two actions because a power cut
between two SQLite writes is one of the states the restart rule is written for.

The owner's answer "I removed the copy" is taken to be true when the machine
does not answer, as the code takes it.

### Windows

The process may die anywhere, except that three windows are named in
`CrashPoints` and opened one at a time. In each the restart rule does the wrong
thing (see Findings); with them closed the properties hold.

| Window | From | To |
|---|---|---|
| `destroying` | an undo after the host flip begins to remove the target's copy | the record points back |
| `holding` | the record points back | the operation is held for a copy that could not be removed |
| `retiring` | a held move, tried again, has settled | its row is over |

### Runs

| Run | Instance | Shows |
|---|---|---|
| `movehost_live` | two daemons, three host rows (`h2` and `h3` are one daemon), every window closed; 0.71 million states | `SinglePoller`, `MemoryKept`, `RecordFits`; the action properties `NoGoingBack`, `StoppedStaysStopped`, `MissingIsMissing`; `OpSettles`; and `OneHome`: the move implements `OnePoller` |
| `movehost_destroying`, `movehost_holding`, `movehost_retiring` | two daemons, two rows, one window open | the three findings |

Two daemons are enough: a move involves the one it leaves and the one it goes
to, and Docker names derive from the agent's id, so other machines never see
it. The third row is the duplicate that the daemon check is for. `Asked` bounds
which rows a move is asked from and to: `h1` and `h2`, each to the other, and
`h2` to its duplicate. Moves between `h1` and `h3` would be the first two again.
Nothing is counted, so there are no bounds besides: moves, crashes, restarts,
retries and outages happen any number of times.

### Fairness

`WF_vars(MoveStep)`: a move's next step is taken while the process lives. Docker
calls have timeouts and the health wait is bounded, so each await ends.
`WF_vars(ResumeInterrupted)`: the pass that settles interrupted rows runs at
boot (`index.ts`) and every ten minutes (`startOperationRetryLoop`). Nothing is
assumed of machines, owners, or of a dead process coming back: `OpSettles` says
that an operation that runs, or was cut off, is over or held some time later, or
the process is dead again.

### Proofs (`MoveHostProofs`)

For every number of daemons and rows and every aliasing of rows to daemons:

| Theorem | Assumption on `CrashPoints` |
|---|---|
| `TypeCorrect`: `Spec => []TypeOK` | none |
| `OneBotOnePoller`: `Spec => []SinglePoller` | `holding` closed |
| `MemoryNeverLost`: `Spec => []MemoryKept` | `destroying`, `retiring` closed |
| `NoWayBack`: `Spec => NoGoingBack` | `destroying`, `retiring` closed |
| `OthersKeepOff`: `Spec => OnlyTheMove` | none |
| `RecordAlwaysFits`: `Spec => []RecordFits` | none |
| `NotStartedByMove`: `Spec => StoppedStaysStopped` | none |
| `OnlyTheMissingIsFailed`: `Spec => MissingIsMissing` | none |
| `MoveIsOnePoller`: `Spec => OneHome`, the refinement | all three closed |

None of the invariants is inductive. `Shape` says how the record, the row of
the move and the job's place in it fit (where the record points at each place,
which steps are on record there). `Quiet` adds which of the two copies may be up:
a target copy that may be up is known as one, through the recorded step
(`TargetMayRun`), the job's `mayRun`, or the orphan verdict, before the source
is ever started. `Kept` adds which volume holds the memory at each place, and
that a settled move has no way back. `Fits` adds whose key is on record at each
place, and that a dropped pin is gone from the first recorded step until an undo.
`Swept` says that a row still fresh for the sweep points where it did when it was
read, and that a container it was told is missing has not been made since: only
a provision on the machine a move goes to makes one. Lemmas about docker calls (`StopCall`,
`ProvisionCall` ...) say what each can leave behind; each step lemma then goes
through the actions one by one.

The proofs' assumptions about windows are exactly the ones whose opening TLC
refutes: `SinglePoller` needs only `holding` closed, `MemoryKept` only the other
two.

The refinement is proved step by step: `AbsHome` is the machine whose copy counts
(the source from the moment an undo begins), `IsStop`, `IsStart`, `IsMove`,
`IsCopy` and `IsRemove` say when a change of the machines is that step of
`OnePoller`, and `MoveStepMaps`, `OwnerMaps`, `CrashMaps` and `StepMaps` find one
for every action, from `Shape`, `Quiet` and `Kept`. A start whose answer is lost
is a `Start` whose home is already the source's; a call under way at a death maps
like the step that made it.

`OnlyTheMove` is proved and has no run. `OpSettles` is liveness, which the prover
cannot do; everything else the run checks is proved.

### Findings

1. `movehost_destroying` breaks `MemoryKept`: `putBack` removes the target's
   copy before it writes the record back.
2. `movehost_holding` breaks `SinglePoller`: `putBack` writes the record back,
   then awaits the key sync before the orphan is held.
3. `movehost_retiring` breaks `NoGoingBack`: a held move tried again keeps its
   status and its choices while it is being finished.

Each is a death of the process in a window of one or a few awaits; the lines
are in `PROJECT.json`.

## 4. Migrate

### How it corresponds to the code

| Variable | In the code |
|---|---|
| `src` | here: the `agents` row's state, whether it is hibernated, `migrated_to`, and whether its container runs |
| `mop` | here: the newest `migrate` row of `operations`: status, whether the step `exported` is on record (`sent`), whether the hold offers "Ask again", and of `MigrateParams` what an undo reads |
| `job` | here: where `migrateSteps`, `resumeMigrate` or `recoverMigrate` stands, and the variables of `destinationHasAgent` |
| `peer` | here: the `peers` row is still there, which only `resumeMigrate` reads |
| `there` | the other server answers, is cut off from this one, or is down |
| `imp` | there: per copy of the POST, where its handler stands, its `agents` row, its `import` operation, its container and volume, and the answer it gave |
| `receipt` | there: the `move_receipts` row; `by` is the copy that inserted it, `fresh` says its boot is the present one |

`MoveState` is `moveState`, line by line. The request that is sent and the one
a proxy repeats are the two values of `Copies`; a third would meet the same
receipt. A handler's stretch up to its first await is one action (`Arrive`
covers the route's own refusals, `receiveMove`, and the import's look at the
slug and the bot). `Partly` says what a docker call that failed, or was cut off,
can leave. Both servers die and boot at any time; the writes between which a
death leaves something the restart rules tell apart are in `CutOff`, and here
`Tombstone` and `EndMove`, `ExportSource` and `Send`, are two actions.

Of `moveState`'s steps only `exported` is modelled: no code reads the others
back. The twelve asks of one round are abstracted to "at least one, and at any
failed one the round may be over" (`AskAgain`).

### Windows

What a *repeated* request may do is named in `Windows`, and closed in the run
that passes:

| Window | Closed, it is assumed that |
|---|---|
| `answered` | a proxy does not pass on the refusal of one copy while another is taken on |
| `outlives` | once a copy has failed, another that does not hold the receipt fails too |

### Other assumptions

- Both servers run this version (an older one answers 404 to `/v1/moves`).
- A request still on its way is received before the conclusive ask: fifteen
  seconds after the first, or ten minutes after a hold.
- No other agent with the same slug appears on the other server during the move;
  the preflight excludes one before it.
- The owner's word on a held move is true, and stays true.
- A move is begun only when nothing of an earlier one is left there; otherwise
  the preflight refuses it.

### Runs

| Run | Shows |
|---|---|
| `migrate_once` | about 0.57 million states, every window closed: types (which only this run checks as an invariant); `OverOnOneSide` (`OneSide` is its first part); `VerdictFinal`; `AsleepAgain`; `OneHome`, the two servers implement `OnePoller`; `MoveEnds` |
| `migrate_answered` | finding 4: `OneSide` with the window `answered` open |

Moves, deaths, outages, asks, sleeps and starts happen any number of times;
only the copies of one request are bounded, by two.

### Fairness

`WF` of the move's steps and of each import's: every await there has a timeout.
`WF` of `FlightLost`: a request on its way arrives or is lost. `WF` of
`ResumeMigrate` (boot, then every ten minutes, a held move included) and of
`ResumeImport` for interrupted rows (boot and the ten-minute pass); a held import
waits for its owner, and gets no fairness. `MoveEnds` has its premise: from some
time on both processes are up and hear each other, the peer is known, and no
import is held.

### Findings

4. `migrate_answered` breaks `OneSide`: the repeat of a request is refused
   because the first one's agent "already lives here", with a status and a body
   the mover takes for a definite refusal.

With `outlives` open TLC finds `VerdictFinal` broken too: a repeat that succeeds
after the first copy failed turns "failed" into "landed", against the comment at
`migrate.ts:305`. It needs a proxy that repeats a request whose first copy was
taken on and failed, and no run is kept for it.

### Proofs (`MigrateProofs`)

| Theorem | Assumption on `Windows` |
|---|---|
| `MigrateTypeCorrect`: `Spec => []TypeOK` | none |
| `StillAsleep`: `Spec => AsleepAgain` | none |
| `VerdictIsFinal`: `Spec => VerdictFinal` | `outlives` closed (`Once`) |
| `OneSideAfterAll`: `Spec => []OverOnOneSide` | both closed (`Closed`) |
| `MigrateIsOnePoller`: `Spec => OneHome`, the refinement | both closed (`Closed`) |

The assumptions are exactly the windows whose opening TLC refutes: `VerdictFinal`
breaks with `outlives` open, `OverOnOneSide` and `OneHome` with either.

*Types.* `TypeOK` is inductive as it stands. A write to one field of an import,
an agents row, an operation or a job leaves one (`ImportField`, `RowType`,
`OpType`, `JobType`); so does what a call, a rollback or a death may leave of an
import (`PartlyType`, `EndedType`, `RemovedType`, `CutOffType`) and what the two
callbacks write to the receipt (`FinishType`). The one lemma that is more than
bookkeeping is `MoveStateType`: `moveState` answers one of four words in every
state, so no status of an operation there leaks into what the mover decides on.

*The other server.* `VerdictFinal` is not inductive: it needs to know what the
verdict rests on. `Shape` says what an import looks like at each of its stages
(row, operation, container, memory, answer). `OneRow` says that at most one of
the two copies ever gets a row, and that the receipt is attached to it, unless a
death came between the two writes, and then the copy made nothing. `Booked` says
what the receipt knows: nothing has begun without it, the copy that wrote it was
received, an outcome "landed" has an operation to show for it, and after a
restart none of its imports is still at work. The steps of an import are brought
down to seven kinds (`Refuses`, `Checks`, `Makes`, `Works`, `Lands`, `Undoes`,
`Owns`; `StepBecomes`), so that each part is proved once per kind, once for a
death there (`CrashKeeps`) and once for its boot. From these two facts about a
verdict follow: "landed" is answered only when a copy has landed
(`LandedIsSo`), and "failed" only when `NoneComes`, that is, no copy landed, none
runs and none that is still on its way can be taken on (`FailedIsSo`); every
step keeps both.

*This side.* `Unsent` says that nothing is there before the file is sent.
`Mover` says when the agent may run here, or is about to be started
(`MayRunHere`), and that `NoneComes` holds whenever it may; and that it is marked
as moved only when a copy landed. Each way to "put it back" is a lemma:
a refusal that is passed on (`RefusedIsSo`), "failed", a conclusive "unknown"
(`UnknownIsSo`), the owner's word (`GoneIsSo`), a file never sent
(`NothingSentIsSo`).

*The refinement.* `IsStop`, `IsStart`, `IsMove`, `IsCopy` and `IsRemove` say when
a change of the two sides is that step of `OnePoller`. An import without a row
leaves no trace (`OneCounts`), so by `OneRow` one copy at a time answers for the
other server; `Follows` says what becomes of its container and volume in a step
or a death, and `ImportMaps` finds the step of `OnePoller` for each stage: the
copy is a `Copy`, the second provision a `Move`, the start a `Start`, a rollback
a `Remove`, a start that failed after it took effect a `Start` whose home is
already here again. Here, a `Start` is one only because `Mover` rules out that
anything lands (`StartsHere`).

*The sleep.* `Sleeper` follows the mark through the move: until the export
clears it the row still has it, from then on only `MigrateParams` remembers it,
and the row stays `STOPPED`, so the undo puts the mark back before the move is
over.

`MoveEnds` stays with TLC: the prover does not handle liveness under fairness.

## 5. Rebuild

One agent, its settings numbered as they change (`conf`), its bot numbered as
it is swapped or given back (`bot`), and a container that remembers which ones
it was made from (`made`).

### How it corresponds to the code

| Variable | In the code |
|---|---|
| `state`, `bot`, `conf`, `owed` | the `agents` row: state, the channel row's bot, the settings a build reads, `rebuild_on_start` |
| `up`, `made` | the container: running, and the spec it was made with |
| `lock` | the busy flag, and who holds it |
| `task` | the entry of `inflight` and `rebuildQueued`: its place, whether a rebuild or a setup, the state it was asked in (`was`), the spec rendered |
| `follow` | `rebuildAfterHandover`: one more rebuild once the present one is over |
| `hand` | a detach or a swap: its place, and the state read before its stop |
| `old` | `operations` rows of a process that died, not settled yet |
| `refused` | `renderRefusedRecently` |
| `told`, `order`, `slip` | history: the last change was reported as not landed; the owner's last order; the gaps met |

The queue has one slot per agent; the slots shared between agents only delay a
turn, and any delay is possible here. `Rendered` and `Made` are two actions
because the record may change between the reading of the spec and
`recordApplied`, which clears what is owed. A death leaves the operation on disk
as it was, and `Resume` is `resumeBackground`, one disjunct for each of its
ways.

### Run and bounds

`rebuild_live`: two changes, two handovers, two deaths, seven events from
outside in all; 0.32 million states. Two deaths let a row survive the restart
that should have settled it; two changes and two handovers let one overtake the
build made from the other. Seven events are what the longest gap needs plus
two.

`rebuild_handover` checks `NeverGivenBack` without a gap, on one handover and
no death, and finds finding 5.

### Fairness

The queue moves on (`TurnStale`, `TurnFails`, `TurnTaken`), each step of a build
ends (all its docker calls have timeouts, the health wait is bounded), and
`Resume` and `Reconcile` run at boot and on timers. Nothing is assumed of the
owner, and failures may happen at any step. `NeverStuck` needs nothing else.

### Gaps

| Gap | What happens |
|---|---|
| `window` | a detach or a swap has let go of the lock with its new row written and no rebuild asked for yet (it awaits the allow-list): Start brings the old container up on the bot given back; a Stop pressed then is overruled by the rebuild, which knows only the state before both |
| `refused` | the rebuild after a handover is refused at its turn, or its render is; nothing is owed, and a later Start takes the old container |
| `cut` | the process dies between the new row and the rebuild, or with a rebuild that was only to follow: neither is on disk |
| `overtaken` | a change made to a stopped agent while it is being rebuilt is owed to the next start; that build, made from the record before it, clears the debt (`provision.ts`, `recordApplied`) |
| `mistaken` | after a restart a container that answers is taken for the new one, whichever it is (`finishInterruptedRebuild`) |
| `setup` | a change made during a setup is neither owed nor reported |

### Finding

5. `rebuild_handover` breaks `NeverGivenBack`: the changelog and a comment say
   that Start never boots a container that still holds a bot it gave back;
   between the lock's release and `rebuildOrOwe` nothing stops it.

### Proofs (`RebuildProofs`)

For any number of changes, handovers, deaths and events:

| Theorem | States |
|---|---|
| `OnlyLegalMoves` | `LegalMoves`: every move of the state is in the table |
| `GivenBackIsAGap` | `[]GivenBackOnlyInAGap` |
| `NoChangeIsLost` | `[]ChangeLands` |
| `NobodyUndoesAStop` | `StopStands` |

A build writes the state at its end from what it knew at its beginning, so the
table alone does not decide `LegalMoves`: the invariant has to say that nobody
else has moved the state meanwhile. `Shape` types what the others need; `Holder`
says who holds the lock at each place of the build, of a handover and of a
recovery, and in which state the agent then is; `OneCut` says that of a dead
process at most one row is not merely queued, so a recovery and a build never
write the state in turn.

The other three say what a container was ordered and made from, and that outlives
what holds the lock: a queued row, a rebuild that is to follow, a row of a dead
process. `More`, beside `Shape`, `Holder` and `OneCut`, follows it there. `Lone`:
a row of a dead process is alone, nothing of this one runs beside it. `Olds`:
what such a row may still do, and to an agent in which state. `Follows`: a rebuild
follows only one under way, and of an agent ordered up. `Ordered`: whoever is up,
or is being brought up, was ordered up, or the gap `window` was met. `Bots`: the
container's bot is the row's, or a rebuild is at hand, owed or lost in a gap.
`Confs`: so with its settings. TLC checked `Inv /\ More` with two changes, two
handovers, three deaths and nine events before the proof. `NeverStuck` is
liveness and model-checked only.

## 6. Hibernate

One agent on one Telegram bot, asleep and awake, with the budget's pause beside
it, because both stop and start the same container by themselves.

### How it corresponds to the code

| Variable | In the code |
|---|---|
| `state`, `bed`, `mark`, `woken` | the row: state, `hibernated_at`, `hibernate_mark`, `woken_at` |
| `stay` | what `settledBlocker` finds: nothing, the agent's settings, scheduled tasks |
| `up` | its container runs |
| `busy` | the busy flag, and who holds it |
| `queue`, `got`, `active`, `next` | at Telegram: the updates that wait, with id and time; those handled and not yet confirmed; the last activity; the next id |
| `sleeper` | per caller of `hibernateAgent` (the sweep, the route): its place, the activity it judged with, its bedtime, the page it read. Not idle after the stop is `markPending` |
| `poll` | the wake sweep: its place, the mark it listed, the page it read |
| `fails` | `wakeFailures` |
| `limit`, `pause` | is the budget reached, and is the agent in a turn; the month's `budget_pauses` row (`stopped`: `alreadyStopped`; `taken`: resumed by its owner) |
| `hand` | history: it is down because its owner stopped it |

Update ids are numbers because the code compares them. An update id can jump
down after a quiet week (`QuietWeek`), which is what `MARK_BATCH` is for, and a
page that is full hides what comes after it.

### Run and bounds

`hibernate_live`: an idle period of one tick, a page of two updates, a batch of
one, two failures before it gives up, two ticks of the clock, and four events from
outside (messages, settings, orders, limits, refusals, deaths); 0.2 million
states. Two updates fill a page, so "behind a full page" happens with a third;
a batch of one makes ids below the mark both inside and outside of it; a
sleep, its loss in a death, a message and a second actor are four events. The
clock's bound is not a horizon: everything but time goes on at the last tick.

### Fairness

The loops are timers (`setInterval`), so each of their steps is taken; docker
calls answer or fail (`WF` of `Woken \/ WakeFails`, so a start may fail as
often as events allow). `MailWakes` ends at a wake, at giving up after
`WAKE_GIVE_UP` failures, or at another actor. `LimitStops` needs that waiting
ends (`PAUSE_WAIT_MS`).

### Observations

No property is violated. Three things a reader of the code may trip over:

- A comment on `idleBlocker` says a woken agent gets the whole idle period; the
  second look, under the lock, compares the activity only. Nothing that is
  modelled comes of it: `SleepOnlyIdle` is about activity.
- A death while a pause stops the container leaves a stopped agent with no
  pause row. The next pass records it as stopped already, and the 1st does not
  start it: it waits for its owner.
- A message sent before bedtime and not yet fetched counts as handled. The mark
  is made of what Telegram dates before the stop, and `MailWakes` says "from
  bedtime on".

### Proofs (`HibernateProofs`)

For every page, batch, idle period and number of failures:

| Theorem | States |
|---|---|
| `MarkOnlyAsleep` | `[]AwakeHasNoMark` |
| `OnlyIdleSleeps` | `SleepOnlyIdle` |
| `NobodyElseStarts` | `OwnerStopStands` |

The invariant is a conjunction: `Held` (whoever waits for Docker holds the
flag, and what the row then says), `Judged` (what a judging sweep read is not
newer than what is, and was idle by it), `ByOwner` (an agent its owner stopped
has neither a mark nor an open pause that would start it). `AwakeHasNoMark`
alone is not inductive: a mark is written by a call that stopped holding the
flag, so that call has to look again (`StillAsleep`), and a wake must find the
row as its holder left it. The leads-to properties are model-checked only.

## 7. BotLease

Several agents and several bots. Who is leased what, whose row names which bot,
which containers poll, and every way a bot changes hands.

### How it corresponds to the code

| Variable | In the code |
|---|---|
| `pool` | per bot: no row in `telegram_pool` (`out`), a row with `leased_to` NULL (`free`), or the agent in `leased_to` |
| `queued`, `called` | `desired_name`, and the name Telegram has |
| `row`, `state`, `copied` | the channel row; the agent's state; the bot in a copy downloaded while it was stopped (`exported_at`) |
| `box` | its container: up, and the bot in its configuration |
| `arch` | the archive's operation: its step, `wasRunning`, `accountId`, `leaveToCopy`, held |
| `job[<<a, "op">>]` | what holds the agent's busy flag (a delete holds none, but its state keeps others off), its place, the bot it leased, whether it wrote the row |
| `job[<<a, "attach">>]` | an attach looking for its bot, with no flag |
| `adding`, `sweep` | a bot being added by `POST /v1/pool`; a name under retry |

SQLite calls are synchronous, so a claim of a spare (`Claim`) cannot lose its
race inside one process; the branch of `provision` for a lost race is not
reachable here. `Down`, `Recycle`, `Released` and `Left` are shared by detach,
swap, archive and delete, which go the same way in the code; where they differ
is in a disjunct or a condition. `Start`, `Stop` and `Rebuild` are one step each
(module `Rebuild`).

### Run and bounds

`botlease_live`: two agents, two bots, one death, four events; 0.19 million
states. Two agents and one bot are enough to collide and a second bot is needed
for a swap. Events count what people, timers and failures do, not the process's
own steps; four let one agent give up a bot while the other takes it and one
more thing go wrong. At five events the gap `gone` appears (the last of the
list), which is why it is named although this run does not meet it alone.

### Fairness

An archive's stop, its giving up and its finish after a restart: docker and
Telegram calls have timeouts, and resumed operations run before anything is
served (`Served`). `ArchiveEnds` allows it to be held for its owner.

### Gaps

| Gap | What happens |
|---|---|
| `kept` | an attach or a setup is refused at the gate after it leased: the lease stays with an agent that has no row for it, on purpose for a clash, by omission when it was busy; the next lease of that agent takes it up, its deletion does not |
| `lease` | a death in the middle of a lease or a swap leaves the lease with no row |
| `farewell` | a death between the release of a detach, a swap or a delete and the removal of its row: the bot is offered, the row still names it. The gate at the next lease refuses it (`Clash`), so `OnePoller` stands |
| `copy` | a detach or a swap frees the bot of a stopped agent of which a copy was downloaded: only archive and delete ask `copyElsewhere`. They ask of their own agent's copy: a bot of another agent's copy, attached here by its token or released by an attach that failed, goes to the pool as well |
| `added` | `POST /v1/pool` checks that no row on this server uses the bot, then awaits the secret store, while an attach takes the same bot by its token; the bot of a copy has no row here and can be added too |
| `gone` | an attach that ends when its agent was archived and set up again, and failed, releases the bot it has by then |
| `late`, `crossed` | a name set after a lease (`provision`, `attachTelegramBot`, `syncDisplayName`), with nothing held while Telegram is asked, and a retried name, reach Telegram after another agent leased the bot, or queue it for one that no longer has it |
| `dead` | Telegram says the token is dead: the name is given up, as intended |

### Proofs (`BotLeaseProofs`)

For every set of agents and bots and any number of events, if the process dies
at most once (`MaxCrashes <= 1`, the theorems' only assumption):

| Theorem | States |
|---|---|
| `OneContainerPerBot` | `[]OnePoller` |
| `ThePoolIsTrue` | `[]PoolIsTrue`: no bot a running container polls is offered, a deleted agent holds no lease |
| `CopiesKeepTheirBots` | `[]CopyKeepsItsBot` |
| `BotsServeUnderTheirNames` | `[]ServesUnderItsName` |
| `UndoneOnlyWithItsBot` | `UndoneKeepsItsBot`, an action property |

`OnePoller`: the invariant is `Shape`, `OneRow` (no two agents have a row for one
bot; a deleted agent has none), and for each agent `Fit`: what its row, its
container and its place in an operation are to each other. A container that is up
and has a bot polls the bot of its agent's row: a row only goes once the container
is confirmed down. `OneRow` then excludes a second one. What is hard is that a row
goes while no flag holds the agent: each way of losing a row is preceded by a stop
that was confirmed, and no start is let in between.

The other four relate rows to leases, and the two are written in different steps.
`More` stands beside that invariant, agent by agent: a task in hand has its lease
or its row (`Tasked`), what the record of a cut archive says of the row
(`CutOff`), which bots are on their way out (`Going`), that a row's bot is leased
to its agent or pasted, but between the recycle and the end of the row (`RowHeld`,
`Between`), that a lease has a row or a task that will write one (`LeaseHeld`),
where the bot of a copy is (`CopyOut`), and what a leased bot is called or queued
to be (`Serves`). An agent's step leaves the others' part alone (`Elsewhere`), so
each action is judged for its own agent only.

Attempting these proofs changed the model. The bot of a downloaded copy could not
be attached elsewhere, `Add` refused it, and a setup's rename was taken to hold
the bot: the code does none of this. The gaps `copy`, `added` and `late` are wider
for it.

The assumption is not for convenience. With two deaths in one archive (the
second after its finish has removed the row and before it is archived), the
resume's stop may fail and hold the operation; if its owner then removes the bot
from the pool, "Try again" finds no entry, takes the archive for one that gave
nothing up, and starts the container; the bot can be added and leased again.
It takes two deaths, a failed stop and a removal by hand in this order, and has
not been given a run.

`ArchiveEnds` is liveness and model-checked only.

## 8. Restore

One agent and its memory. `backups.ts` replaces the whole volume by a night's
backup, through a one-shot container that empties it and unpacks; `snapshots.ts`
writes the core files of a snapshot one by one into the running agent. The two
share the operations table, the rule that one operation of an agent runs at a
time, and the agent; what each knows of the other is its row.

### How it corresponds to the code

| Variable | In the code |
|---|---|
| `state`, `up` | the `agents` row's state (the three a restore tells apart) and whether its container runs |
| `vol` | the volume: which memory (the one the restore found, with what the agent wrote since, that night's or the snapshot's, or a mix), and whether its `openclaw.json` is today's or another night's |
| `tar` | the import's one-shot on the daemon: what it unpacks, and whether it has begun to empty the volume; it outlives the process |
| `op` | the newest `restore-backup` or `restore-snapshot` row: status, step, `wasRunning`, how it ended; `found` is history |
| `safe`, `kept` | the safety file or the safety snapshot; a safety file of an earlier restore whose undo failed |
| `snap` | the row of the snapshot that is restored |
| `job` | the running request, restart rule or choice: its place, for whom, and how many files are left |
| `retried`, `landed` | history: a Retry was tapped over a half-restored memory; a file write that failed had landed |

`state = "RUNNING"` with a container that does not run, and the reverse, are
states the program is in between a call that failed and the next reconcile. An
export is whole or absent (`exportStateToFile` renames at the end), an import is
not (`Unpack` may end at any of three points). A docker call that was not
answered may have had its effect (`NotConfirmed`, the second branch of
`Restarted`). The agent writes to its memory whenever it is up; such a write
matters only once the copy has been taken, which is when `OwnWrites` is enabled.
A memory that a restore finds is called the agent's own from then on, a mix its
owner chose to run included, so that any number of restores fits in four values.

### Run and bounds

`restore_live`: three files, two deaths, five events; 0.24 million states. Three
files are a first, a middle and a last one, and only a middle one is neither the
old nor the new memory. Two deaths cut off a restore and then what settles it;
five events are a restore, a choice, a Retry and a second restore with one stop
or start between them. Writes of the agent, one-shots, reconcile and pruning are
not counted.

### Fairness

`WF_vars(Own)`: every docker call the process waits for has a time limit, and
what a death cut off is settled at boot or by the ten-minute pass. A one-shot
gets no fairness: it may hang or finish late. `RestoreEnds` has its premise, that
the process stays up, and it allows a restore to be held: a held one waits for
its owner. That includes the case in which nothing answers, which is why `Hold`
is taken whether or not the container is confirmed down.

### What the properties exempt

- `retried`: provisioning over a half-restored volume is what Retry does on an
  agent that is marked failed. Its owner is told where the copy is; from then on
  nothing is claimed about that memory until a restore finds a whole one.
- `landed`: a snapshot's file that was written although its write is reported as
  failed. If it was the first, the restore says "Nothing was changed"
  (`snapshots.ts:345`).

### Observations

- A restore excludes operations of its own agent, but not the nightly backup:
  `backups.ts:574` asks only on one side, so a backup that is taken while a volume is
  being filled holds a half-restored memory. Backups are outside this model.
- While a held choice is being carried out and the process dies, the operation
  stays held with its old text. A container that the choice had already started
  is up, and the text says that it stays stopped. Its memory is then whole.

### Left out

The hold of an operation whose restart rule itself threw (`operationsResume.ts`,
"Try again"); the layer of setup values around a snapshot; an agent deleted
during a restore; how long copies are kept. The bytes of a backup and the
commands of a one-shot are `localDockerProvider.ts`'s and are modelled by what
`backups.ts` does with their errors (`VolumeUntouchedError`,
`OneShotNotGoneError`).

### Proofs (`RestoreProofs`)

For every number of files, deaths and events:

| Theorem | States |
|---|---|
| `RestoreTypeCorrect` | `[]TypeOK` |
| `NeverHalfRestored` | `[]RunsWhole` |
| `CopyRemains` | `[]WayBack` |
| `OutcomesAreTrue` | `SaysWhatIs` |

Nobody looks into a volume before a container is started on it; what stands for
its content is the row, the recorded step and the place of the job. `MayStart`
collects from where a container may be started, by the restore itself or by the
owner through the row, and the heart of the invariant (`Good`) is that in those
places an agent that is not marked failed has a whole volume that nothing is
still unpacking into. That is inductive only together with what each restore
knows on its way (`Unpacking`, `Applying`, `Saving`, `Copied`) and with how
places, steps and rows fit (`Kind`, `Recorded`, `HasCopy`, `WasUp`). A failed
agent is exempt in `MayStart`, so the undo of its restore must not start it:
that is `WasUp`. `Copies` is the second invariant: a copy that was kept is never
dropped, so it need only speak of the time while none is, when the operation's
own copy holds the agent's own memory, or the restore has not touched the
volume. Types are not inductive without `HasCopy` either: a choice unpacks the
safety copy without asking whether there is one.

`SaysWhatIs` is about the step that ends an operation, but what an outcome says
was settled by steps before it. `Says` carries that along: for each recorded
step and each place of the job, that the volume is as it was found (or the
agent wrote to it since, or it is marked failed), that the safety copy is, and
that a restore recorded as `reapplied` has the restored memory in, whole and
with nothing unpacking. The hard case is an undo cut off earlier whose one-shot
still unpacks on under the next restore: `FailedForIt` shows from the first two
invariants that the agent is then marked failed with its copy kept, which is
why "as it was" is still a true answer there. `ToldStep` then reads each ending
off `Says`.

`RestoreEnds` is liveness and model-checked only.

## 9. Apps

One agent and the app in it. Four things say which release it runs: Hatchabot's
record, the `current` link on the agent's volume, the configuration beside it,
and the scheduled tasks that run its commands. `apps.ts` changes them one call
at a time; `appOperations.ts` decides after a death.

### How it corresponds to the code

| Variable | In the code |
|---|---|
| `record` | the `agent_apps` row: `sha` and `previousSha` (a manifest goes with each) |
| `link`, `cfg` | per app, on the volume: `current`, and the configuration file in its data folder |
| `stage` | the staging folder: the new configuration, and the old one kept aside (`.prev`) or a note that there was none (`.none`) |
| `jobs` | OpenClaw's cron jobs of the apps: name, the release whose command it runs, on or off, and a number that tells two of one name apart |
| `op` | the newest app operation's row: kind, `AppOpParams`, whether `switching` is on record, status, the choices of a hold |
| `asked` | a request whose release is still being fetched, and whether the app it saw is still there (`appStillAsWas`) |
| `proc` | the request, restart rule or choice that runs: its place, who called `syncTasks`, what `current` was, the list a sync began with, the error it will end with |
| `want`, `offs`, `doubt` | history: the configuration of the last change that held; the tasks the owner has turned off; the apps whose owner was told to check the tasks by hand |

`syncTasks` is one machine with six callers (`Sync`, `Synced`, `SyncFails`), as
in the code. Everything before the switch (unpacking, staging, the app's own
tests) touches nothing live and is one step. The switch is one shell command that
may stop after each of its parts. A configuration is one of two values, since
all a property asks is whether it is the one that should be there. Only the
staging of the release under way is kept; an older one of another release is
never read.

A call that fails may have had its effect: `Answered`, `Pointed`, `NotPutBack`.
A list that cannot be read is a fault of its own. `Toggle` is the owner at the
agent's own schedule, while no change runs.

### Windows

A death, a failure or a choice may come anywhere, except that six windows are
named in `Windows`. With them closed the properties hold; opening one breaks the
properties named. TLC finds that on the instance of `apps_live` with the window put
into `Windows`; no run is kept for it.

| Window | What happens in it | Breaks |
|---|---|---|
| `clearing` | an app replaces another and `removeTasks` takes off some of the old one's tasks only: it is called outside the `try` whose `catch` puts them back (`routes.ts:8282`), so the install fails with the old app half scheduled and its record as before | `Agrees`, `AsTheOwnerLeftIt` |
| `both` | an install over another app was cut off, the old app's tasks are on, and its owner chooses "Use the new one": `useNew` (`appOperations.ts:195`) never takes the replaced app's tasks off, although an install does (`routes.ts:8264`, "never two apps on one mailbox") | `OneApp`, `Agrees`, `AsTheOwnerLeftIt` |
| `renamed` | a death while a task the owner had turned off has no job (a sync took it off, and its put-back has not made it again): the next sync goes by the jobs there are, and "Go back" passes no list of those turned off (`appOperations.ts:257`), so it comes back on | `AsTheOwnerLeftIt` |
| `recorded` | a death after "Use the new one" or a roll back wrote the record, with the operation still held or not all in: "Go back" points the link back and leaves the record (`appOperations.ts:249`) | `Agrees`, `OneApp`, `ConfigKept`, `AsTheOwnerLeftIt` |
| `cleared` | a death after the staging folder is gone and before the outcome is on record (`apps.ts:589`): the restart rule cannot tell that a configuration was moved in or put back, and says done, or nothing changed, by the rest | `ConfigKept` |
| `twice` | a put-back of a replaced app's tasks (`putTasksBack`) ends unconfirmed, or dies, with a task there twice: it swallows what `syncTasks` reported and asks which names are listed, not how often (`appOperations.ts:85`) | `Agrees`, `AsTheOwnerLeftIt` |

### Run and bounds

`apps_live`: two releases of one app, the second with one task more, and one
release of another app; an agent with no app, or with the first one updated
once. Two requests, two faults, one death; 0.37 million states. Two requests are
a change on top of another (an update and its roll back, an app over another's
failure) or a change beside a slow fetch; two faults fail a call and then its
put-back; choices are not counted, nor is the restart rule.
`Copies` bounds how many jobs of one name, release and setting there may be: four.

### Fairness

`WF_vars(Step)`: each call to an agent has a timeout (60 s, 15 minutes for an
app's tests). `WF_vars(Resume)`: boot and the ten-minute pass. Nothing is
promised of owners, fetches or deaths; `ChangeSettles` allows a change to be held.

### What the properties exempt

`doubt`: where the code could not confirm the tasks after a failure it says so
("Its scheduled tasks could not be confirmed ... check them"), and the put-back
of a replaced app says which tasks are missing. From then on nothing is claimed
about that app's tasks. Its link, its configuration and the other app's tasks stay
claimed. `putTasksBack` does not pass on what its own `syncTasks` could not
confirm (`Quiet`): its owner hears only of what its own look finds.

`Agrees` claims the link for a recorded app only: Stop leaves `current` where it is.

### Observations

Four of the windows are where the code, or its documentation, says the opposite
of what happens in them.

| Window | What the code does | What it says |
|---|---|---|
| `twice` | a put-back's `cron add` lands and answers an error, its own put-back cannot read the list, and the restart says "nothing changed" over a task that is there twice (`appOperations.ts:85`); one death, two failed calls | "Confirmed, or held" (`appOperations.ts:132`); "check they are there, from a fresh list (as syncTasks' own put-back does)" (`:74`) |
| `clearing` | `removeTasks` is awaited before the `try` whose `catch` puts the tasks back: if it fails half way, nothing goes back on (`routes.ts:8282`); one failed call | "its tasks come off first ... and go back on if this install fails, so the agent still matches the record" (`routes.ts:8264`) |
| `both` | "Use the new release" leaves the replaced app's tasks on, where an install and "Go back" take them off (`appOperations.ts:213`); one death, two failed calls | "never two apps on one mailbox" (`routes.ts:8264`) |
| `recorded` | a "Use the new release" that died past the record (`appOperations.ts:227`) is still held; "Go back" moves the link and leaves the record (`:249`); two deaths, no failed call | either choice "leaves the release, its config, its scheduled tasks and the record in agreement" (`docs/troubleshooting.md:2298`) |

### Proofs (`AppsProofs`, `AppTasksProofs`)

For all apps, releases and (finitely many) tasks of each and any number of
requests, faults and deaths:

| Theorem | States | Windows that must be closed |
|---|---|---|
| `AppsTypeCorrect` | `[]TypeOK` | none |
| `RecordedIsThere` | `RecordIsTrue` | none |
| `NothingLiveBefore` | `NothingBefore`: the link and the configuration only change under an operation that says it is switching | none |
| `ConfigKeptByAll` | `[]ConfigKept` | `cleared`, `recorded` |
| `OneAppAtATime` | `[]OneApp` | `both`, `recorded` |
| `SettledAgrees` | `[]Agrees` | `clearing`, `both`, `recorded`, `twice` |
| `OffAsTheOwnerLeftIt` | `[]AsTheOwnerLeftIt` | those and `renamed` |

The windows are assumed closed because the code is wrong in them, as the table of
windows says; each theorem leaves the other windows open.

The invariant of the first three is `TypeOK /\ Shape`. `Shape` says what a place in the code knows:
`Known` (what is asked for and what an active row goes to are releases),
`Placed` (where a change runs its row is active), `Said` (past the switch the row
says so), `Linked` (from the switch to the record the link is at the release),
`Scheduled` (when the record is about to be written each task has a job).
`RecordIsTrue` then needs the last two, and `NothingBefore` needs `Placed` and
`Said`. `TypeOK` is not inductive without `Known`.

The others are about a change that may be anywhere when it fails, is cut off or
is taken up by its owner's choice, so each has an invariant place by place.
`Rows` says what the kind, the releases and the record are to each other, `Turns`
at which places and for which callers an operation runs, waits for a choice or is
resumed, `Callings` which calls are made for whom.

- *`ConfigKept`* rests on `ConfigWhere`: at each place, where the new configuration
  and the old one are (live, staged, kept aside, nowhere), and which of them the
  last change that held wrote. The restart rule does not know the place; it reads
  the staging folder, the link and the record, so the proof has to show that
  `NotYet` and `AllIn` come out right from every state a death can leave.
- *`OneApp`* rests on `Listed`: the names the jobs of apps not in doubt are within,
  of the old release, of the new one, or of both when they are one app's
  (`Spread`), while a choice is carried out (`Turned`) and while a sync runs from
  the list it read first (`Synching`). `Proper` (a job's name is a task of its
  release), `Finite` (so that no job counted means none there), `Recording` and
  `Links` (when the record and the links may be ahead of the row) are what it
  needs. Two apps have no task name in common (`ReleasesAssumption`), so jobs within
  one app's names are that app's. `appTaskNames` prefixes a task with its app's
  name and a hyphen, and both may hold hyphens: `mail` with a task `box-sync` and
  `mail-box` with a task `sync` would share one. Nothing forbids such a pair; it is
  left out of the model.

To make `cleared` and `recorded` no wider than the harm, a death in `done` and past
the record is let through where the restart rule finishes the change
(`StillOffered`).

The last two are in `AppTasksProofs`, on top of all of these (`Sound`).

- *`Agrees`* says of each task that it is there once, and a sync has a task's old
  job and its new one beside each other. `Counted` says how often, place by place,
  outside doubt: the jobs of an app are those of one release, no two of a task
  (`Solo`), and each task has one (`Full`). They are the release's the change began
  on while nothing was set (`Standing`), the new one's past its sync (`Settling`),
  the record's once they were put back (`Returned`), and of a replaced app at most
  those it had (`Giving`). In a sync, what it added is its manifest's, each once,
  and the list it began with is as the place before it says (`Synced1`): a sync
  that fails ends with that list or says it could not confirm it. A change of values
  on the commit it had must be told apart (`OneRelease`), for its two manifests
  are one. A restart goes by `tasksAre`, which counts; a put-back goes by names,
  and finds each task once only if none was there twice (`QuietSolo`): where that
  fails is the window `twice`.
- *`AsTheOwnerLeftIt`* needs that count. `AsLeft` says that every job, and every one
  in the list of a sync, is on or off as its owner left it, and that a task they
  turned off has a job to go by where a later sync will ask for one, or is named
  in the operation's row (`fromAppOff`). Where it has neither is the window
  `renamed`.

Before the proof `Counted` and `AsLeft` were invariants of `apps_live`'s instance
for TLC. Attempting it changed the model: it had told the owner of every sync that
was not confirmed, also where `putTasksBack` keeps that to itself. The window
`twice` comes from there.

`ChangeSettles` is liveness and model-checked only.

## 10. Not modelled

What no module says anything about, beside the components marked so in
`PROJECT.json`:

- the first-contact claim and pending confirmations: what the plan has left;
- an app install that waits for its agent's setup (`appPending.ts`);
- the making of backups (only what a restore reads of them), and drills;
- other channels than Telegram (Discord, Slack), and whose bot may be offered
  to whom;
- a request delayed by a proxy beyond the conclusive ask of a move, and a
  namesake that appears on the other server during one (section 4);
- text, files, images, models, pricing, sign-in: no protocol that runs over
  several awaits of several actors.

Liveness under fairness is TLC's alone, and what TLC finds holds for the
instances named; the theorems hold for all.
