# A TLA+ model of the open-steamgate runtime

open-steamgate runs ABAP programs, translated to JavaScript, with the services an
application server gives them: dialog steps on a work process, logical units of work
(LUWs), locks, background jobs, messages between sessions, and the ADT protocol of a
development system. One Node process hosts many sessions on one event loop, one database
connection and one set of globals. The code that keeps them apart is the subject of this
project: it is small, it runs interleaved at every `await`, parts of it run in several
processes over two databases, and most of what can go wrong in it needs an order of
events that a unit test has to be written for.

The modules model that code; TLC checks them on small instances; TLAPS proves the
invariants of the lock server, the work process, the lock hosts, the background jobs, the
daemons, the push channels, the supervisor and the object store for every instance.
`PROJECT.json` lists the components, the runs, the mutants that show each property can fail,
the lines each definition models, the hazards and the findings.

## 1. Inventory

All paths are relative to the repository root.

| Component | State | Operations | Interacts with | Hard part |
|---|---|---|---|---|
| **Lock server** `tools/osd-enq.mjs` | rows (table, argument, mode, two counted halves), sessions with a dialog and an update owner, one number counter | ENQUEUE, DEQUEUE, DEQUEUE_ALL, COMMIT WORK, ROLLBACK WORK, end of session, end of update task | called by the lock host | ownership moves at a commit; generic arguments; counts; one row holds two halves |
| **Work process** `tools/osd-dialog-step.mjs` | holder, queue, the step's token (AsyncLocalStorage), rolled-out ICF state, callbacks at the end of a LUW | dialogStep, exclusive, WAIT UP TO, WAIT UNTIL, roll-out and roll-in, commit, rollback, dump | everything that touches the connection; AMC delivers into it | one connection, one ICF server and one `sy` for all steps; a step sleeps in the middle |
| **Lock host** `tools/osd-enq-host.mjs` | key or step -> lock session, pins, doomed sessions, ended keys | bind, ENQUEUE with `_WAIT`, DEQUEUE, end and revival of a key, retirement by a dump | lock server, work process, ADT sessions | a session ends while a step of it sleeps |
| **Job store** `tools/osd-batch-runs.mjs`, `osd-batch-runs-timed.mjs` | runs, steps, import ledger, completion events, named events, signal clock | import, event, claim, record, interrupt, release, delete | outbox, scheduler, workers | wake-ups inside transactions; exactly-once start |
| **Jobs** `tools/osd-job-outbox.mjs`, `osd-job-scheduler.mjs`, `osd-job-port.mjs`, `osd-job-reorg.mjs`, `src/jobs` | identity and outbox rows in the business database, the processes' positions | JOB_CLOSE, BP_EVENT_RAISE, BP_JOB_DELETE, BP_JOB_ABORT, drain, release, work, reorganise | job store; work process | two databases without a common commit; several processes; crashes |
| Job counts and schedules `tools/osd-job-count.mjs`, `osd-job-schedule.mjs` | none | count allocation, period arithmetic | jobs | calendar edges |
| LUW buffer `src/luw` | the delta of a LUW | modify, discard, read through | handlers | order of changes collapses to one |
| **Push channels** `tools/osd-apc.mjs`, `osd-apc-mailbox.mjs`, `osd-apc-timers.mjs`, `osd-amc.mjs` | a connection's mailbox, pending frames, timers, subscription; the broker's subscribers | handshake, message, timer, publication, close, loss of the socket | work process | a peer that leaves between any two steps of a turn; speech before the upgrade |
| **Daemons** `tools/osd-daemon-host.mjs` | instances with a queue, a count, timers and an object | start, send, stop, callback, dump, timer | work process | stop against queued messages; a dump with a full queue |
| **Object store and publications** `tools/osd-store*.mjs`, `osd-publish-activation.mjs`, `osd-dev.mjs`, the notebook's cells in `adt-facade.mjs` | sources, inactive set, active copies, the live generation, a queue of publications | save, create, delete, activate, publish, promote, dev pass, a cell and its rollback, restart | journal, builds, runtime, other editors of the tree | writes that end half done; a build of a tree that moves; joined publications |
| **Activation journal** `tools/osd-activation-journal.mjs` | tickets, attempts, outcomes, each a file | create, update, forget, recover | object store | crash between the files; attempts that end out of order |
| **Serving runtime** `tools/osd-runtime.mjs`, `osd-boot-guard.mjs` | child, ready, the spawn, recycle and stop in flight, the inspector wanted | start, ensure, stop, recycle, inspector; boot, messages and exit of the child | object store; proxies | calls that overlap; one process per database; a child that hangs or dies |
| Runtime pool, generations, hot reload `tools/osd-pool.mjs`, `osd-warm.mjs`, `osd-build*.mjs`, `osd-hot.mjs` | work processes, generations, the warm compiler | switch, collect, load | runtime, object store | readers of an old generation |
| ADT façade `tools/adt-*.mjs` | logon contexts, lock handles | requests | lock host | expiry against requests |
| Gateway, CDS/AMDP, web GUI, archives, DSL, Go compiler, packs, editor extension, browser preview | none of their own between requests, or generated | translation and rendering | | pure translation, I/O or packaging: left out |

What makes the core correct: locks exclude and none is left behind; a LUW is whole whoever
else uses the connection; a step finds its own request and `sy`; who waits for the work
process gets it; a job starts once, when what it waits for has happened, and not after it
was deleted; a periodic chain neither breaks nor doubles; a handler is one conversation that
ends once; a daemon's stop waits for what it was sent and comes; what is live was named by
a publication, and the last active version survives every crash; there is one process on the database, and
a stop is final.

## 2. Plan

Done, in this order: `EnqArg`, `EnqKeys`, `Enq`, `EnqOwners`, `EnqRefinement`, `EnqProofs`
(locks, what they promise, and the proofs);
`DialogStep` (work process); `EnqHost` (lock sessions over both, taken by their contracts);
`BatchRuns` and `Jobs` (background jobs); `Runtime` (the supervisor of the serving process);
`Daemon`; `ActivationJournal` and `ObjectStore` over it (activations); `Apc` (push channels
with their timers and the broker's deliveries).

Next, most important first:

1. `Luw`: the collapse of a LUW's delta, checked against the replay of the calls in order.
2. `RuntimePool` and `Generations`: switching while requests are in flight, collection of
   generations against readers, the warm compiler behind a build.
3. `AdtSession`: logon contexts over `EnqHost`.
4. `JobSchedule`: count allocation and period arithmetic as operators with a reference.
5. Several subscribers and channels of the broker, a subscriber's queue at its limit.

Proved: the safety properties of the lock server, then those of the daemons, the work process,
the lock hosts, the push channels, the supervisor, the object store with its journal, and the
background jobs; last, that the lock table implements its contract and that arguments collide
as the keys they stand for do (section 5). Of the properties the passing runs check, only the
liveness properties have no theorem.

## 3. Modules

### EnqArg, EnqKeys, Enq, EnqOwners, EnqRefinement: the lock server

`EnqArg` is the pure part: `garg` lays a request's key fields out in one argument, generic
fields as U+FFFF in every position; `collide` compares two arguments. The client prefix belongs
to the table. `EnqKeys` says what an argument means, the keys of the table that it covers, for
any set of characters (`Char`, without U+FFFF) and any key fields (`Lengths`); its state is a
pair of requests on one table. Bound: `Excess`, by how much a value may be longer than its field.

`Enq` is class `LockServer`. Each method is synchronous, hence one action: `open`,
`enqueue` (a granted `tryEnqueue`, on a row it cumulates or a new one; a refusal changes
nothing), `dequeue`, `dequeueAll`, `commit` with an update (without one it changes nothing),
`rollback`, `updateDone`, `end`, `close`. The array of rows is a function on slots in the
order of the array; `tasks` are the update tasks whose `updateDone` is still to come. Bounds: `Slots`, `MaxSeq` (handles and owner ids, one
counter as in the code), `MaxCount`.

`EnqOwners` is the contract, without rows, order or sessions behind locks: every owner holds
a bag of locks, and a request is granted or not by who holds what. `EnqRefinement` maps `Enq`
to it: `held` is the bag of the halves of all rows, each counted as often as its row counts
it (`Held`, made of the `Singles` of the table). `ImplementsOwners` says that `Enq` is an
implementation and that `tryEnqueue` grants exactly what the bags allow.

### DialogStep: the work process

Tokens are clients whose steps come one after another: `Sessions` (dialogStep), `Readers`
(exclusive without a step), `Receivers` (a message delivered to a session in a WAIT). The
state is the holder and the queue, the rows written on the one connection and the rows
committed, the ICF server with what each rolled-out step noted, `sy-subrc`, and the
callbacks at the end of the LUW. Actions: come, start, write, commit, rollback, the two
WAITs with commit, roll-out, release, wake-up and roll-in, delivery to a sleeper, the end
of a step, its dump, and the publication that follows a step. Time is open: a sleep may end
at any moment. With `InjectedClock` the ceiling that ends a WAIT on a clock nobody moves is
there too. Bounds: `MaxLuw` LUWs per step, `MaxRows` rows per LUW.

### EnqHost: whose lock session is it

A step that is not bound has a session of its own; a bound step is pinned to its key's
session. Actions: run, bind, sleep, ENQUEUE (granted, refused, waiting), its retries,
DEQUEUE, update module, COMMIT and ROLLBACK WORK, the three ends of a step (own, bound,
dumped), `endEnqSession`, `reviveEnqSession`, `enqTake`, `enqDrop`. The lock server is taken
by its contract for one key in mode E, the work process by its promise that one step runs.
Bound: `MaxSid` lock sessions.

### BatchRuns and Jobs: background jobs

`BatchRuns` is the operations store; every method is one SQLite transaction, hence one
action, with everything it does at its end (`EmitCompletion`, `EmitJobEnd` wake the waiting
runs inside it). A job is its intent, so what it waits for, its steps and events are
constants; the ledger's comparison of payloads can then not fail. `started` is the
STEP_STARTED part of the job log.

`Jobs` adds the business database (`identity`, `outbox`, and `luw`, the one open write
transaction) and the processes. A process is at one place of `#pass`: draining (read, claim,
import, commit), releasing a due job (decide, find or reserve and import the successor,
release), working (claim, execute, record) or reorganising (after the drain: read, business
rows, runs). Callers close, commit, roll back, raise events, delete, abort. Every position
may die (`Crash`, `AbandonDelete`), which rolls back its business transaction and keeps what
the operations store committed. Left open: the order of the rows drained and of the queued
runs, which process does what, when a job is due, how a report ends. Bounds: `MaxClock`
(signal numbers callers ask for), `MaxCrashes`; the last instance of a modelled periodic
chain is not due.

Retention: `Age` lets a final run grow old. A retention of some days is taken to outlast the
LUWs and passes under way when the run ended and the release of its predecessor (the default
is 14 days); a retention of zero is outside the model, see section 7.

### Runtime: the supervisor

Each call of `start`, `ensure`, `recycle`, `stop` and `inspector` is an action; what it
leaves behind is a record: `starting` (the one spawn, with its place in `#spawn`),
`recycling`, `stopping`, `waiting` (calls that wait until nothing is busy) and `opens`
(inspector requests). A promise's continuation runs before the next event of the loop, which
`Continuing` states: no call, message, exit or timer comes between a promise that is settled
and who awaits it, but continuations of several waiters run in any order. Processes boot,
work on the database, finish and serve; the supervisor knows what it has heard. Messages of
a process arrive before its exit. A process may hang or die in every phase. Bounds:
`MaxCalls`, and with it the processes.

### Daemon: one queue per instance

`Enqueue` counts what must come before the stop; `Begin`, `Return` and `Dump` are the
callback; `Postpone` is the stop that goes to the end of the queue again; `Renew` is the
`catch` that makes a new object and queues ON_ERROR. Between the dump and `Renew` the queue
stands still, as the promise chain does. The timers' turns are not counted and do not ask
whether the instance is still listed, as in the code. Bounds: `MaxSends`, `MaxArms`,
`MaxDumps`.

### ActivationJournal and ObjectStore: activations

`ActivationJournal` has no variables: each method takes a journal and returns the journal
and the files it replaces, in order. `ObjectStore` extends it. A save, a deletion, a
promotion and the start are synchronous, so nobody in the process sees them half done, but
on disk they are the sequence `todo` and the process may die before each write
(`Crash`, then `Start` with `loadInactive` and the journal's recovery, which forgets missing
objects and drops orphan copies in any order). Publications are
asynchronous: `Publish` joins, queues or begins; `Capture` and `Accept` are turns of the
source lock; between them saves, deletions, other activations, the dev loop and other
editors come. `Join` decides with the view the caller saw when it asked. A version stands for
all files of an object and their digest; a generation is a version per object. The
histories `named`, `force` and `unbuilt` say which versions a publication that names the
object saw, which was active when an object became inactive, and which objects have a version
that came unasked since they were built. `Answered`: who waited
for a publication has promoted before the next build returns; in the code that is a few
microtasks and a place in the FIFO of the source lock against a compilation. Bounds:
`MaxSaves`, `MaxEdits`, `MaxTickets`, `MaxCrashes`, and `MaxAll` for all of them together; a cell
counts as a save, an edit and a ticket.

`completeActivations` compares the checked revision with the disk and, if its caller says what
was built, with that (`Promotable`). All callers say it but one: the ABAP cells of a notebook
(`tools/adt-facade.mjs:1901`). They are all written to one class, `CellClass`, one cell at a
time: `RunCell` notes what is there and whether it counts as active, `WriteCell` writes the
candidate, `PublishCell` takes its revision and goes the way of every publication. If that
fails, what was there is written back (`RestoreCell`) and, if it was active, called active
again for the revision found then (`Reclaim`), without a build (`PutBack`); a class that
was not there is deleted (`DropCell`). Whether it was active is open: `stateOf` asks the
generation that serves, which after a failed load is not the live one. `cell` also keeps, as a
history, whether something other than what was there has been live since the cell began
(`passed`); what is put back then, or is not what the rollback wrote, came unasked.

### Apc: one connection

A turn of the mailbox waits for the work process, calls the handler (`Enter`), drains its
frames, binds its subscription (in on_start), commits, publishes, and answers or ends. The
peer (`Receive`, `CloseFrame`, `BadFrame`, `Leave`), the clock (`Due`), hot swaps (`Swap`
cancels all timers) and other sessions' publications (`Send`, `Deliver`) come between any
two of these. `Dump` may replace what a callback would have done. A frame carries the number
of the callback that pushed it, which is what makes `NothingLost` and `WellFormed` about the
order on the socket. Bounds: `MaxMessages`, `MaxArms`, `MaxSends`.

## 4. Runs

Every property of every passing run has a mutant in `PROJECT.json`, a plausible slip in the
code it models, under which TLC finds it violated. Properties that belong together are
checked as one conjunction; its parts are definitions of their own, each with its comment:

| Property | Is |
|---|---|
| `IInv` (`Enq`) | `TypeOK`, `OwnersDistinct`, `NoOrphanLock`, and the two exclusions, which the run checks by themselves too |
| `ImplementsOwners` (`EnqRefinement`) | the contract `EnqOwners`, and `GrantsByOwners` always |
| `OwnContext`, `QueueSound` (`DialogStep`) | `IcfIsOwn`, `SyIsOwn`; `TypeOK`, `HandedOn` |
| `PinsHold`, `RetiresOnce` (`EnqHost`) | `TypeOK`, `PinsCounted`, `PinnedStaysAlive`; `RetiredIsNobodys`, `EndToldOnce` |
| `StoreSound`, `RunsOnce`, `ChainOfRuns`, `PassesFinish` (`Jobs`) | `TypeOK`, `StepsConsistent`; `StartedOnce`, `OneWorker`; `RunsOnce`, `ChainGoesOn`; `OutboxDrains`, `ReleaseFinishes` |
| `OneKnownProcess` (`Runtime`) | `TypeOK`, `OneProcess`, `NoOrphan` |
| `QueueExact`, `MailboxOrder`, `OwedHappens` (`Daemon`) | `TypeOK`, `PendingIsQueued`, `OneStop`; `InOrder`, `StopIsLast`; `StopEnds`, `DumpIsTold` |
| `StoreKept`, `JournalTrue` (`ObjectStore`) | `TypeOK`, `ActiveKept`; `OutcomeIsNewest`, `OutcomeOfThisObject`, `TicketIsWorkedOn` |
| `Conversation`, `SocketOrder`, `ConnectionEnds` (`Apc`) | `CallbackOrder`, `StoppedIsSilent`; `TypeOK`, `WellFormed`, `NothingLost`; `Answered`, `CloseEnds` |

| Run | Instance | Shows |
|---|---|---|
| `enq_arg` | all pairs of requests on a key of two fields (lengths 2 and 1, characters `a` and blank, generic or not, values longer than the field) | `collide` of two arguments is "the requests have a full key in common" |
| `enq` | one key, modes E, S, X, scopes 0 (taken as 2), 1, 3, two rows, counts to 2, 7 numbers (two sessions and one end of a LUW, or one session and four) | exclusion between sessions, X alone, no orphan, update tasks protected; the table implements the contract, step by step and in what it grants |
| `dialog_step` | two sessions, one receiver, two LUWs of one row | LUWs whole, ICF server and `sy-subrc` a step's own, LUW ends told, queue exact |
| `dialog_served` | two sessions, a reader, the injected clock | whoever waits gets the work process |
| `enq_host` | two steps, two keys, three lock sessions, two retries | pins counted, no lock left, an ended key holds nothing, a pinned session stays, an end is told once |
| `jobs_chain` | a job of two steps that waits for an event and raises it at its end, one behind it, a local run; two processes, one crash | steps consistent, started once, one worker, predecessor kept, no lost wake-up |
| `jobs_timed` | a periodic chain of two; two processes, two crashes | the chain goes on once, not after a deletion; identities resolve; the outbox drains, a release is finished |
| `runtime` | four calls, one inspector port | one process at a time, a stop is final, no process is lost sight of, a recycle renews, every call ends |
| `daemon` | one instance, two timer handlers, three messages, two armed timers, two dumps | every callback that is counted is delivered before the stop begins; the stop comes, once; messages in order, over dumps; the new object hears of the dump |
| `object_store` | one object, three versions, two activators, two saves or deletions, one edit outside, two tickets, one crash, five of these together; one cell in place of a save, the edit and a ticket | what is live was in the files when a publication naming the object captured them, or came unasked; what is active is live, but for what came unasked; the active version is kept; no activation refused for nothing, outcomes and tickets are right |
| `apc` | two timer handlers, two messages, two armed timers, two publications | callbacks in order, the socket well formed, no frame lost, stopped timers silent, nothing left, nobody called who left; a handshake is answered, a close ends |
| `jobs_end_lost` | one job | violated: see the findings |

Why the bounds are enough. Each conflict in the lock server is between two owners on one
argument: two sessions, one of them with a commit, give the kinds of owner there are (a
dialog, a LUW, an update task, each one's own or another's), and a further row or session
repeats them. Arguments that differ and still collide are the subject of `enq_arg`; what both runs
check is proved for any arguments, any fields and without bounds. The work process shows its races
with one step that runs, one that sleeps and one that comes. A key's life in the lock host
is one retirement, one end and one revival, each against one other step. The jobs' races are
between two processes and a caller; a second crash reaches the recovery of a recovery.
In `runtime` two calls overlap, the third comes while the second waits for the first, and a
fourth finds what they left. In `object_store` two activators of one object are two
publications that may join, and saves, an edit and a crash are what can come between, five of
the six in one behaviour; a cell meets two of a save or deletion, a ticket of another client
and the crash;
objects meet only in a view, which takes each one alone. A daemon's instances and a channel's
connections share only the work process.

`CHECK_DEADLOCK FALSE` is set where the system may stop: the bounded lock table, jobs that
are all done or wait for an event nobody raises, and a supervisor, a daemon, a store or a
connection that nobody calls any more.

Fairness. `dialog_served` assumes that a granted continuation runs (the event loop), that a
step that has the work process comes to an end, and that a publication is made; nothing is
assumed about clients coming or sleeps ending. `jobs_timed` assumes that LUWs end, that a
process goes on with what it began and gets SQLite's write lock when it asks again and
again, and that passes follow each other with a drain and a release in each (`#arm` runs
in a `finally`, `nextTimed` includes RELEASING runs, and a failed reservation is retried after a
minute); a failed reservation is assumed not to fail for ever.
`runtime` assumes that continuations run, messages arrive, builds end, the silence limit and
the boot limit of a booting process fire, and that what was told to go goes unless it works
on the database: a SIGKILL follows every request that is not heard. A boot need not end, a
process need not stay. `daemon` assumes that a callback returns or dumps, that a constructor
returns, and, strongly, that queued steps get the work process (`dialog_served`); nobody need
send, and no timer need expire. `apc` assumes that turns go on, deliveries are made and
timeouts pass; the peer need do nothing.

## 5. Proofs

Everything below is proved for any constants that satisfy the assumptions of the modules: any
clients, keys, tables, daemons, timers, ports, and any bounds. Each proof module states the
inductive invariant `IInv` as a conjunction of named parts, shows that `Init` gives it and that
every action keeps it, and takes the properties of the runs from it. TLC
checked each `IInv` on the instance of its run before it was proved, except that of the object
store, which quantifies over sequences of disks: there TLC checked what follows from it. For the
jobs, two more instances were checked, a job chained behind a successor and a chain of three.

| Module | Theorem | States |
|---|---|---|
| `EnqProofs` | `LockTableInductive` | `IInv` of `Enq` |
| | `LockTableTyped`, `SessionsExclude`, `XStandsAlone`, `NoLockOrphaned`, `TasksProtected` | the type invariant, exclusion between sessions, X alone, no orphan, update tasks protected |
| | `TableImplementsOwners` | the table of rows is an implementation of `EnqOwners`, and `tryEnqueue` grants exactly what the bags allow (refinement) |
| | `ArgumentsCollideOnCommonKeys` | two arguments collide exactly if some key of the table is covered by both requests |
| `DialogStepProofs` | `StepInvariant` | `IInv` of the work process |
| | `QueueIsSound`, `LuwIsAtomic`, `LuwEndIsTold` | who needs the work process stands in line once; a LUW is whole; its end is told |
| | `ServerIsOwn`, `ContextIsOwn` | the ICF server is the step's own; with `~InjectedClock` so is `sy-subrc` |
| `EnqHostProofs` | `HostInvariant` | `IInv` of the lock hosts |
| | `PinsAreHeld`, `NoLockIsLeft`, `EndedKeyIsEmpty`, `RetiresExactlyOnce` | pins are the steps pinned and keep a session alive; no lock is left behind; an ended key holds nothing; an end is told once |
| `DaemonProofs` | `DaemonInvariant` | `IInv` of the daemons |
| | `QueueIsExact`, `MailboxIsOrdered` | the count is what is queued and there is one stop; messages arrive in order, and every callback that is counted before the stop begins (action property); timers' turns are not counted |
| `ApcProofs` | `ApcInvariant` | `IInv` of a push channel |
| | `OneConversation`, `SocketIsOrdered`, `NothingIsLeft`, `NobodyIsLeft` | start first, close last and once, stopped timers silent; the socket well formed and no frame lost; no timer or subscription left; no callback for a peer that left (action property) |
| `RuntimeProofs` | `RuntimeInvariant` | `IInv` of the supervisor |
| | `OneProcessIsKnown`, `StopAlwaysWins`, `RecycleAlwaysRenews` | at most one process, and a known one; a stop is final; what a recycle announces was started after it (action property) |
| `ObjectStoreProofs` | `StoreInvariant` | `Whole`: `IInv` of the object store and its journal, and `CellKept` of a notebook's cell |
| | `StoreLiveIsActivated` | what is live was in the files when a publication naming the object captured them, came from outside, or was put back unasked by a failed cell |
| | `StoreActiveIsLive` | what is active is live, but for what came unasked since it was built: from another editor, or by the rollback of a cell under which something else went live or was saved |
| | `StoreIsKept` | the active version is kept while its object is inactive |
| | `StoreRefusedOnlyIfWritten`, `StoreJournalTrue` | a refusal has a writer; tickets and outcomes tell of the newest attempt |
| `JobsProofs` | `JobsInvariant` | `IInv` of the two databases and the processes |
| | `StoreIsSound`, `ReportsRunOnce`, `WakeUpsArrive` | the steps tell where a run is; no step is started twice, one process records it; no wake-up is lost |
| | `ChainRuns`, `PredecessorIsKept` | a periodic job is followed by the next; the reorganisation takes no predecessor of a waiting job |
| | `DeletedStaysDeleted`, `IdentitiesResolve` | a job deleted before it started never starts; no identity points at nothing |

The arguments, and why the strengthenings are needed:

- **Lock server.** What releases locks only shrinks the table: DEQUEUE, ROLLBACK WORK, the end
  of a session or of an update task each leave rows that were there, with halves that were
  there (`DequeueShrinks`, `ReleaseShrinks`, `ReleaseUpdateShrinks`), and shrinking keeps
  exclusion (`ShrinkKeepsExclusion`). A grant was compared with every row that overlaps
  (`GrantMeans`, `GrantAvoidsX`), so a new or cumulated row keeps exclusion
  (`NewRowKeepsIInv`, `CumulateKeepsIInv`). A commit renames nobody: the old update owner goes
  to the update task and the session's new one is a fresh number (`NewUpdateOwner`).
  Exclusion is between owners, but the code compares a row's owners with the requester's two:
  without `OwnersDistinct` (no owner id belongs to two sessions or tasks, none is above `seq`)
  a fresh id could meet an old row, and without `NoOrphanLock` a row could belong to an id that
  will be given out again.
- **Lock table and owners.** A bag of locks is a sum over rows, and a sum is an induction. The
  mapping avoids it: each count of a half is an element of its own (`Singles`), the bag counts
  the elements with the same half, and an operation adds or takes a set of elements with
  different halves (`BagOfAdds`, `BagOfTakes`), or all elements of some owners. Two facts beside
  `IInv` are needed. `OwnersApart`: a dialog owner, an update owner and a task's owner are never
  the same number, so a row's two halves are different elements; without it a grant with scope 3
  would count one half twice. `FiniteTable`: the table is finite, without which cardinalities
  say nothing. `GrantsAsOwners` shows that a comparison with rows and their sessions is one with
  the bags: a stale own row (one whose LUW has been committed) is the case where they could differ.
  There is a lemma for each operation that changes the table (`EnqueueImplements` to
  `EndImplements`), and `StepImplements` puts them together.
- **Arguments.** `ArgumentsCollideOnCommonKeys` is about every character of strings of any
  length, put together from any number of fields. Where an induction would stand, the proof takes
  a least counterexample: of the first field at which the flattened sequence would be wrong
  (`FlatExists`, `FlattenMatches`), of the last position that is not blank (`TrimIs`). Then
  `TrimEqual`: two strings that agree in every position, a missing one read as a blank, are one
  string once trimmed, so the shortcut for exact arguments is right; `LaidAlike`: two fields laid out match
  in each position exactly if one is generic or the fixed values agree; and `CommonKey` builds
  the key, field by field, from the request that is not generic there.
- **Work process.** `InLine` makes the queue exact: a token is in line exactly if it needs the
  work process and has it not, once, and a step in the middle of its ABAP holds it. From that,
  one step runs at a time, so what is written and not committed is that step's (`RowsKnown`),
  whoever else used the connection before; `LuwOpen` says that a LUW has no fate before it
  ends. `ShimKept` says where the ICF state of a session is at each moment (on the server, on
  the token of the step that sleeps, on the session around a delivery); `Roles` that two
  receivers never deliver to one session at once, without which one delivery could overwrite
  what the other noted.
- **Lock hosts.** `PinsExact` counts the steps pinned to a session, in progress or not;
  `CountOut` is the fact about counts that every end of a step uses, and needs finitely many
  steps. `DoomedHeld` and `OpenKnown` partition the open sessions: a key's current one, or one
  that is doomed and still pinned. A lock that was left behind would be in neither part.
- **Daemons.** `PendingIsQueued` needs that a stop which dumped stays asked for (`Caught`), that
  the step under way is of a listed instance unless it is a timer's (`StepLives`), and
  that an instance that was never started has nothing (`Untouched`). The order of delivery is
  that of the numbers in the queue (`Ascending`).
- **Push channel.** `CloseLast` says that an on_close is in one place, in the mailbox, in its
  turn or called, and nothing behind it; `StartFirst` the same of on_start. Of the timers,
  `Entries` says that an armed entry has not called yet and is armed for one handler, which is
  why a stopped one stays silent. `Wire` and `Lost` tie the frames sent and those that wait for
  the upgrade to the callbacks called: each frame pushed is sent or pending, unless the peer left.
- **Supervisor.** A credit: no call starts more than one process (`Counted`), which is what
  keeps the numbering of processes within the calls made. `Processes` is the property
  itself with what the supervisor knows of each process; `Spawns`, `Recycles`, `Stops`,
  `Awaited` say what else may be in flight beside the one that is, and whether a stop came
  since each was asked for. That a recycle renews needs that the process of its spawn was
  started after it was asked for (`Recycles`).
- **Object store.** An operation is a sequence of writes, and the process may die before each.
  `Writing` therefore says of the operation under way that it `Reaches`: its writes lead,
  through disks that a process can start from (`Durables`), to a disk that agrees with the
  memory (`Settles`). Each operation's sequence has a lemma (`SaveLeads`, `RetireLeads`,
  `DeleteLeads`, `RestoreLeads`, `JournalLeads`), and `Flush` and `Crash` then need no case
  per operation. Of the journal, `Kept` holds after every single write and `Truthful` only
  between operations: after a death an outcome may be there whose ticket has not ended.
  A lemma per method says what it makes of both (`CreateDoes`, `UpdateDoes`,
  `ForgetDoes`, `ForgetMissingDoes`, `OpenDoes`). `Acting`, `Waiting` and `Published` say that
  the version an activation checked, the view it joined by and the one that was built agree,
  unless its object was written (`moved`); `Answered` is what keeps the generation that was
  built the live one until it is promoted. A promotion without a build has no such generation:
  there `CellKept` says that who runs a cell is inside it, without a ticket, and that what the
  cell would put back is live unless it was `passed`, so a rollback that is not unasked calls
  active what is live (`PutBackSound`). That there is a newest ticket comes from the
  well-ordering of the numbers (`Least`, `Greatest`), so no induction over data is needed.
- **Background jobs.** The invariant joins two databases that nothing commits together, so the
  proof first says what any step may do to each. `StoreStep` is the store's side: every run
  arrives, moves or leaves as `Arrives`, `Moves` and the rows of a reorganisation allow, and its
  steps have the `Shape` that its state and the number of started steps prescribe; one lemma per
  transaction shows it (`WorkStep`, `RecordStep`, `ImportStep`, `ReleaseStep`, ...). `Entering`,
  `Leaving` and `Remembering` are the business database's side. The other parts of `IInv` need
  only these. A step is started once because the next one to start is `Len(started)` plus one and
  a job that left the store never returns: `Elapsed` says that what became old is in neither
  outbox nor identities once it left, `Chained` and `Places` that no release makes a successor
  twice. A wake-up is not lost because every signal's number is above all numbers given out to
  a JOB_CLOSE (`Waits`, `SignalWakes`). The reorganisation keeps predecessors because it follows
  a drain: `DrainedFirst` says that whatever in the outbox is chained behind an old run is
  among the rows that drain has still to import, so the candidates that are read after it
  include no predecessor of a job to come; nobody closes a job behind an old one (`LuwKnown`).
  `PredecessorKept` counts a successor that is about to be made as there: a job may be chained
  behind a reserved successor, which `JOB_CLOSE` finds in `identity` before it is imported.

The assumptions are those the modules state on their constants, and TLC evaluates them in the
runs: bounds are numbers, sets of clients are disjoint, and the value that stands for "nothing"
is none of the records it is compared with (`NoCallback`, `NoTurn`, `NothingInFlight`,
`NothingAssumption`, `NothingThere`). `CharAssumption` says that no key holds U+FFFF, which is
why `garg` could choose it for "any character", and `LengthsAssumption` that a key field has at
least one position; `garg` cuts a value only if its field has a length. `StepsFinite` says that finitely many steps are in
progress, `ObjectsAssumption` that a store has finitely many objects, `StoreAssumption` that the cells'
class is one of them. `ConditionsAssumption` is
what `JOB_CLOSE`, `importIntent` and `timedIntent` enforce of an intent: one start condition, steps
with it, one predecessor of a successor. `ContextIsOwn` alone has a
hypothesis of its own, the wall clock; section 6 says what happens without it.

Only model-checked: liveness under fairness (`Served`, `PassesFinish`, `Settles`, `OwedHappens`,
`ConnectionEnds`), which with ENABLED is out of the prover's reach.

## 6. Findings and observations

Finding, with a run: `tools/osd-batch-runs.mjs:718` (`jobs_end_lost`). `failStep` ends a job
without `SAP_END_OF_JOB`, and so does an expired latest start: who waits for that job's end
waits for ever, although docs/dsl-l3.md says the event comes for finished and aborted jobs.
The successors of a periodic job lose the event as well: `ensureSuccessor`
(`tools/osd-job-scheduler.mjs:342`) passes on a column that `dueTimed` does not read, so from
the second instance on the chain raises no `SAP_END_OF_JOB`, unless it has a tail event.

Observations made while modelling, without a run of their own. In each the model does what
the code does, and the properties are stated so that they do not promise what the code does
not keep:

- `tools/osd-dialog-step.mjs:420`. When the ceiling of an injected clock ends a WAIT UNTIL,
  `sy-subrc` 8 is set before the step has the work process again and lands in the step that
  runs. `SyIsOwn` fails with `InjectedClock = TRUE`; `dialog_step` has the wall clock.
- `tools/osd-runtime.mjs:476`. `stop` arms a SIGKILL for a booting child unless it was told
  that the child works on the database. The timer is not cleared when that message comes
  later, so a database step can be killed, which the comment at line 720 excludes.
- `tools/osd-daemon-host.mjs:64`. ON_ERROR is queued behind what waits, so it need not be the
  first callback of the new object, as docs/abap-daemons.md:447 has it. A timer's turn
  (lines 125 to 129) runs though its instance was stopped before. An ON_STOP that dumps
  leaves the instance listed, and it cannot be stopped again.
- `tools/osd-store-compile-view.mjs:54`. The live generation is switched before the promotion:
  a version saved between the check and the capture goes live, and stays live, while its
  activation is refused for the revision; the same holds when the load fails.
  docs/adt-facade.md:291 says that after a failed activation the last active version keeps
  serving. `LiveIsActivated` therefore speaks of versions a publication named.
- `tools/adt-facade.mjs:1948`. The rollback of a notebook cell calls the source from before
  active without saying what was built, and the comment gives the reason: "The old source is
  still the serving generation." If the candidate was built and only its load failed, the
  switch at `osd-store-compile-view.mjs:54` has made the candidate live: the store then says
  that `previous` is active and drops its active copy, and a process that loads the live
  generation next gets the candidate, until something is published. The revision is taken after the rollback's write, so a
  save that comes between the two is called active as well, neither checked nor built. Without
  the exemption in `PutBack` TLC finds both in `object_store`; with it `ActiveIsLive` says
  that these are the only ones.
- `tools/osd-store-versions.mjs:98`. Without `inactive.json`, a copy whose object is gone is
  kept, and the comment says that it builds nothing. If the object comes back from outside and
  the dev loop publishes it, and the process dies before anything wrote the set (at the latest
  in the object's next save, before its copy), the old copy counts as the active version after
  the restart, and not the one that was published. The proof of `StoreIsKept` met this; `ActiveKept` therefore takes what the copy has
  after a start that found no set.
- `tools/osd-apc.mjs:258`. An on_start that still runs when the socket closes may subscribe
  afterwards, and nobody closes that subscription; `NothingLeft` is about connections that
  came up. Frames of a callback are sent before its commit and stay sent if that fails.

## 7. Assumptions and what is left out

- A rollback does not fail, and a host binds a step before the step locks on its own (the
  only caller does). Binding under an ended key throws and changes nothing.
- The forgetting of the oldest of 10000 ended lock keys is left out.
- `drainAmcSession` empties a subscriber's queue before WAIT looks at its deadline again; time
  is open in the model, which cannot tell a WAIT that is late from one that is not.
- A run whose worker died stays RUNNING and keeps every other job of the source back until an
  operator interrupts it; no fairness obliges the operator, so nothing is said about that.
- A receiver does not itself wait for messages of the session it delivers to.
- Reads that change nothing (ENQUEUE_READ, `enqHolder`, the job read model) are left out, and
  so are logs, texts, output files, time stamps and the migration of older stores.
- Jobs: one source system, client, owner and instance; JOB_OPEN, JOB_SUBMIT and job counts
  are part of a job's intent; a job is deleted after it was committed; a run started by
  `osd-batch-runs run` is not queued and touches nobody.
- `OSD_JOB_RETENTION_DAYS=0`, which the code accepts: `reorgCandidates` looks for jobs chained
  behind a run among the imported ones only, so a run that is old at once could leave while
  the job behind it is still in the outbox.
- The instance of `jobs_chain` has one event, raised by callers and by the job's own end; that
  the end event of one job wakes a second waiting job has the same code path and no instance.
- Runtime: `hot`, generation and epoch, the registry file, the carrying over of ADT sessions,
  a broken channel to the child and a spawn that yields no process are left out.
- Daemon: callbacks are steps of module `DialogStep`; ON_ACCEPT is part of the start, which is
  refused without a trace if it does not accept.
- Object store: other editors see synchronous operations as a whole; created-active skeletons,
  archive overlays, forced publications, the checkpoint of the published generation, the
  pruning of tickets after 24 hours, the takeover of a dead owner's journal, an unreadable
  set and power loss (as opposed to the death of the process) are left out. The check of an
  activation passes or fails openly. What serves and what is live is one state, but for
  `stateOf` in a cell, which is open. A third caller of `completeActivations` gives no build,
  `tools/adt-facade.mjs:2568`, under `transpileOnActivate: false`: docs/adt-facade.md:238 calls it
  a test seam that no running instance uses, and it is left out. A cell's class is not run, its
  write is not refused, and a rollback that finds its class deleted (`DropCell`, second case)
  lies beyond the bounds of the run; the proofs cover it.
- Push channel: stateful; payloads, ping, scopes and authorisations are left out, and the work
  process is a delay.
- Not modelled at all: the components listed so in `PROJECT.json`, with the reason.

## 8. Running it

    tlc -workers 2 -config MCJobsChain.cfg MCJobs
    tlapm RuntimeProofs.tla

The module and configuration of each run are in `PROJECT.json`. The longest runs take two to
three minutes on two cores, each proof module a few minutes, `ObjectStoreProofs` six.
