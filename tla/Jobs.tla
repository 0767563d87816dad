-------------------------------- MODULE Jobs ---------------------------------
(***************************************************************************)
(* Background jobs across two databases. JOB_CLOSE writes a job's identity *)
(* and intent into the business database, in the caller's LUW. A drain     *)
(* imports committed intents into the operations store (module BatchRuns,  *)
(* tools/osd-job-outbox.mjs); the scheduler releases timed jobs and makes  *)
(* the successors of periodic ones (tools/osd-job-scheduler.mjs); workers  *)
(* run what is queued; BP_JOB_DELETE (tools/osd-job-port.mjs) and the job  *)
(* reorganisation (tools/osd-job-reorg.mjs) remove jobs from both. Nothing *)
(* commits the two databases together, several processes do all of this at *)
(* the same time, and each may die at any point.                           *)
(*                                                                         *)
(* The business database has one writer at a time: luw is the transaction  *)
(* that holds SQLite's write lock. A process does one thing at a time      *)
(* (#pass), in an order that is left open but for the reorganisation,      *)
(* which follows a drain. Time is abstracted: a timed job may be due at    *)
(* any moment.                                                             *)
(***************************************************************************)
EXTENDS BatchRuns

CONSTANTS Procs,          \* the processes that drain, schedule and work
          MaxClock,       \* bound: signals after which no caller asks for another number
          MaxCrashes      \* bound: processes that die

ASSUME ProcsAssumption ==
    /\ None \notin Procs
    /\ MaxClock \in Nat /\ MaxCrashes \in Nat

VARIABLES
    identity,  \* zosd_job_identity: the closed jobs and the reserved successors
    outbox,    \* zosd_job_outbox: the committed intents
    luw,       \* the open write transaction of the business database
    seqOf,     \* the WAIT_SEQ of each intent
    pc,        \* where each process is
    job,       \* the job it is at
    step,      \* the step it runs
    outcome,   \* how that step ended
    rows,      \* the outbox rows or reorganisation candidates it has read
    old,       \* the final runs whose retention has elapsed
    crashes,   \* history: how many processes died
    closed,    \* history: the jobs whose JOB_CLOSE was committed
    cancelled  \* history: the jobs deleted before they started

business == <<identity, outbox, luw, seqOf>>
process  == <<pc, job, step, outcome, rows>>
history  == <<crashes, closed, cancelled>>
vars == <<storeVars, business, process, old, history>>

NoLuw == [kind |-> "none", jobs |-> {}, by |-> None]

Init ==
    /\ StoreInit
    /\ identity = {} /\ outbox = {}
    /\ luw = NoLuw
    /\ seqOf = [j \in Jobs |-> 0]
    /\ pc = [p \in Procs |-> "idle"]
    /\ job = [p \in Procs |-> None]
    /\ step = [p \in Procs |-> 0]
    /\ outcome = [p \in Procs |-> None]
    /\ rows = [p \in Procs |-> {}]
    /\ old = {}
    /\ crashes = 0 /\ closed = {} /\ cancelled = {}

Goes(p, to) == pc' = [pc EXCEPT ![p] = to]

\* The process is done with what it was at.
Rests(p) ==
    /\ Goes(p, "idle")
    /\ job' = [job EXCEPT ![p] = None]
    /\ step' = [step EXCEPT ![p] = 0]
    /\ outcome' = [outcome EXCEPT ![p] = None]
    /\ rows' = [rows EXCEPT ![p] = {}]

-----------------------------------------------------------------------------
(* The callers of the JOB_ function modules *)

\* JOB_CLOSE's look at the predecessor: known, and not over; one of the same LUW
\* is UNCOMMITTED.
PredecessorOpen(a) == a \in luw.jobs \/ (a \in identity /\ ~IsIn(a, Final))

JOB_CLOSE(j) ==
    /\ luw.kind \in {"none", "close"}
    /\ j \notin Local \cup closed \cup luw.jobs /\ ~IsSuccessor(j)
    /\ After[j] # None => PredecessorOpen(After[j])
    /\ IF Accepts[j] = {}
       THEN UNCHANGED <<storeVars, seqOf>>
       ELSE clock < MaxClock /\ reserveSignalSeq /\ seqOf' = [seqOf EXCEPT ![j] = clock + 1]
    /\ luw' = [kind |-> "close", jobs |-> luw.jobs \cup {j}, by |-> None]
    /\ UNCHANGED <<identity, outbox, process, old, history>>

CommitClose ==
    /\ luw.kind = "close"
    /\ identity' = identity \cup luw.jobs
    /\ outbox' = outbox \cup luw.jobs
    /\ closed' = closed \cup luw.jobs
    /\ luw' = NoLuw
    /\ UNCHANGED <<storeVars, seqOf, process, old, crashes, cancelled>>

RollbackClose ==
    /\ luw.kind = "close"
    /\ luw' = NoLuw
    /\ UNCHANGED <<storeVars, identity, outbox, seqOf, process, old, history>>

BP_EVENT_RAISE(e) ==
    /\ clock < MaxClock
    /\ \A j \in Jobs : e # <<"end of", j>>
    /\ importNamedEvent(e)
    /\ UNCHANGED <<business, process, old, history>>

\* A job without a start condition is ready from JOB_CLOSE on, and refused.
HasCondition(j) == j \in Timed \/ Accepts[j] # {} \/ After[j] # None

\* Under the business write lock: the run goes at once if the job was imported, the
\* business rows with the caller's LUW.
BP_JOB_DELETE(j) ==
    /\ luw = NoLuw
    /\ j \in identity
    /\ IF j \in ledger /\ j \in DOMAIN runs
       THEN deleteJob(j)
       ELSE j \in outbox /\ HasCondition(j) /\ UNCHANGED storeVars
    /\ luw' = [kind |-> "delete", jobs |-> {j}, by |-> None]
    /\ cancelled' = IF IsIn(j, {"WAITING"}) THEN cancelled \cup {j} ELSE cancelled
    /\ UNCHANGED <<identity, outbox, seqOf, process, old, crashes, closed>>

CommitDelete ==
    /\ luw.kind = "delete"
    /\ identity' = identity \ luw.jobs
    /\ outbox' = outbox \ luw.jobs
    /\ cancelled' = cancelled \cup {j \in luw.jobs : j \notin ledger}
    /\ luw' = NoLuw
    /\ UNCHANGED <<storeVars, seqOf, process, old, crashes, closed>>

\* The caller's process dies before the COMMIT WORK of BP_JOB_DELETE.
AbandonDelete ==
    /\ luw.kind = "delete"
    /\ crashes < MaxCrashes
    /\ crashes' = crashes + 1
    /\ luw' = NoLuw
    /\ UNCHANGED <<storeVars, identity, outbox, seqOf, process, old, closed, cancelled>>

\* BP_JOB_ABORT, or `interrupt <run-id> --worker-confirmed-stopped`.
Interrupt(j) ==
    /\ interruptQueued(j)
    /\ UNCHANGED <<business, process, old, history>>

Enqueue(j) ==
    /\ enqueue(j)
    /\ UNCHANGED <<business, process, old, history>>

-----------------------------------------------------------------------------
(* drainJobOutbox *)

DrainRead(p) ==
    /\ pc[p] = "idle"
    /\ rows' = [rows EXCEPT ![p] = outbox]
    /\ Goes(p, "draining")
    /\ UNCHANGED <<storeVars, business, job, step, outcome, old, history>>

StillThere(j) == j \in outbox

\* Claim first: the row is deleted, uncommitted. A row that is gone is left out.
Claim(p, j) ==
    /\ pc[p] = "draining" /\ j \in rows[p]
    /\ luw = NoLuw
    /\ rows' = [rows EXCEPT ![p] = @ \ {j}]
    /\ IF StillThere(j)
       THEN /\ luw' = [kind |-> "drain", jobs |-> {j}, by |-> p]
            /\ job' = [job EXCEPT ![p] = j]
            /\ Goes(p, "claimed")
       ELSE UNCHANGED <<luw, job, pc>>
    /\ UNCHANGED <<storeVars, identity, outbox, seqOf, step, outcome, old, history>>

\* Mutant of Import: a ledger duplicate is an error.
ImportNew(p) ==
    /\ pc[p] = "claimed" /\ job[p] \notin ledger
    /\ importIntent(job[p], seqOf[job[p]], TRUE)
    /\ Goes(p, "imported")
    /\ UNCHANGED <<business, job, step, outcome, rows, old, history>>

Import(p) ==
    /\ pc[p] = "claimed"
    /\ importIntent(job[p], seqOf[job[p]], TRUE)
    /\ Goes(p, "imported")
    /\ UNCHANGED <<business, job, step, outcome, rows, old, history>>

Acknowledge(p) ==
    /\ pc[p] = "imported"
    /\ outbox' = outbox \ {job[p]}
    /\ luw' = NoLuw
    /\ job' = [job EXCEPT ![p] = None]
    /\ Goes(p, "draining")
    /\ UNCHANGED <<storeVars, identity, seqOf, step, outcome, rows, old, history>>

Drained(p) ==
    /\ pc[p] = "draining" /\ rows[p] = {}
    /\ Rests(p)
    /\ UNCHANGED <<storeVars, business, old, history>>

-----------------------------------------------------------------------------
(* releaseDue, one due job at a time *)

\* The last modelled instance of a periodic chain is not due within the bound.
DueRead(p, j) ==
    /\ pc[p] = "idle"
    /\ j \in Timed /\ Decidable(j)
    /\ Periodic(j) => Succ[j] # None
    /\ job' = [job EXCEPT ![p] = j]
    /\ Goes(p, "due")
    /\ UNCHANGED <<storeVars, business, step, outcome, rows, old, history>>

\* Mutant of BeginRelease: the state read is the state decided on.
BeginReleaseAsRead(p) ==
    /\ pc[p] = "due" /\ job[p] \in DOMAIN runs
    /\ runs' = [runs EXCEPT ![job[p]].state = "RELEASING"]
    /\ Goes(p, "decided")
    /\ UNCHANGED <<ledger, completed, named, clock, started, job, step, outcome, rows, business, old, history>>

BeginRelease(p) ==
    /\ pc[p] = "due"
    /\ IF Decidable(job[p])
       THEN beginRelease(job[p]) /\ Goes(p, "decided") /\ UNCHANGED <<job, step, outcome, rows>>
       ELSE Rests(p) /\ UNCHANGED storeVars
    /\ UNCHANGED <<business, old, history>>

\* Mutant of NeedsSuccessor: a reserved count is taken for the successor.
NeedsReservation(j) == Succ[j] # None /\ Succ[j] \notin identity

NeedsSuccessor(j) == Succ[j] # None /\ ~successorOf(j)

FindSuccessor(p) ==
    /\ pc[p] = "decided"
    /\ Goes(p, IF NeedsSuccessor(job[p]) THEN "reserving" ELSE "releasing")
    /\ UNCHANGED <<storeVars, business, job, step, outcome, rows, old, history>>

\* reserveSuccessorCount: the row is inserted, or found.
ReserveCount(p) ==
    /\ pc[p] = "reserving" /\ luw = NoLuw
    /\ identity' = identity \cup {Succ[job[p]]}
    /\ Goes(p, "reserved")
    /\ UNCHANGED <<storeVars, outbox, luw, seqOf, job, step, outcome, rows, old, history>>

\* No free count for the name and second: the run stays RELEASING.
ReserveFails(p) ==
    /\ pc[p] = "reserving" /\ luw = NoLuw
    /\ Rests(p)
    /\ UNCHANGED <<storeVars, business, old, history>>

\* The successor's intent has no source instance of its own: dueTimed does not read
\* job_end_instance. One with a tail event takes the tail's.
SuccessorInstance(s) == TailEvent[s] # None

MakeSuccessor(p) ==
    /\ pc[p] = "reserved"
    /\ IF job[p] \in DOMAIN runs
       THEN /\ importIntent(Succ[job[p]], 0, SuccessorInstance(Succ[job[p]]))
            /\ Goes(p, "releasing") /\ UNCHANGED <<job, step, outcome, rows>>
       ELSE Rests(p) /\ UNCHANGED storeVars
    /\ UNCHANGED <<business, old, history>>

Release(p) ==
    /\ pc[p] = "releasing"
    /\ \/ \E expired \in BOOLEAN : releaseTimed(job[p], expired)
       \/ ~IsIn(job[p], {"RELEASING"}) /\ UNCHANGED storeVars
    /\ Rests(p)
    /\ UNCHANGED <<business, old, history>>

-----------------------------------------------------------------------------
(* workQueuedBatch *)

Work(p, j) ==
    /\ pc[p] = "idle"
    /\ claimNext(j)
    /\ job' = [job EXCEPT ![p] = j]
    /\ step' = [step EXCEPT ![p] = StepIn(j, "READY")]
    /\ Goes(p, "executing")
    /\ UNCHANGED <<business, outcome, rows, old, history>>

\* The report ran, failed, or threw; an interrupted run is not recorded.
Executed(p, how) ==
    /\ pc[p] = "executing"
    /\ IF IsIn(job[p], {"INTERRUPTED"})
       THEN Rests(p)
       ELSE /\ outcome' = [outcome EXCEPT ![p] = how]
            /\ Goes(p, "recording")
            /\ UNCHANGED <<job, step, rows>>
    /\ UNCHANGED <<storeVars, business, old, history>>

Recorded(j, n, how) ==
    \/ how = "ok" /\ advance(j, n)
    \/ how = "ok" /\ n = Len(runs[j].steps) /\ finish(j, n, TRUE)
    \/ how = "failed" /\ finish(j, n, FALSE)
    \/ how = "threw" /\ fail(j, n)

Record(p) ==
    /\ pc[p] = "recording"
    /\ StillRuns(job[p], step[p])
    /\ Recorded(job[p], step[p], outcome[p])
    /\ Rests(p)
    /\ UNCHANGED <<business, old, history>>

\* RESULT_RECORDING_FAILED: the step is not running any more, or the output could
\* not be written.
RecordFails(p) ==
    /\ pc[p] = "recording"
    /\ Rests(p)
    /\ UNCHANGED <<storeVars, business, old, history>>

-----------------------------------------------------------------------------
(* reorgJobs, in the pass that drained the outbox *)

\* The retention of a final run elapses. It is a number of days, not zero, and outlasts
\* every LUW and every pass that was under way when the run ended, and the release of
\* its predecessor.
Age(j) ==
    /\ IsIn(j, Final) /\ j \notin old
    /\ luw = NoLuw
    /\ \A p \in Procs : pc[p] = "idle"
    /\ \A k \in Jobs : Succ[k] = j => ~IsIn(k, {"RELEASING"})
    /\ old' = old \cup {j}
    /\ UNCHANGED <<storeVars, business, process, history>>

ReorgRead(p) ==
    /\ pc[p] = "draining" /\ rows[p] = {}
    /\ reorgCandidates(old) # {}
    /\ rows' = [rows EXCEPT ![p] = reorgCandidates(old)]
    /\ Goes(p, "reorganising")
    /\ UNCHANGED <<storeVars, business, job, step, outcome, old, history>>

\* Mutant of ReorgBusiness: the identities stay.
ReorgOutbox(p) ==
    /\ pc[p] = "reorganising" /\ luw = NoLuw
    /\ outbox' = outbox \ rows[p]
    /\ Goes(p, "removing")
    /\ UNCHANGED <<storeVars, identity, luw, seqOf, job, step, outcome, rows, old, history>>

\* The business rows first ...
ReorgBusiness(p) ==
    /\ pc[p] = "reorganising" /\ luw = NoLuw
    /\ identity' = identity \ rows[p]
    /\ outbox' = outbox \ rows[p]
    /\ Goes(p, "removing")
    /\ UNCHANGED <<storeVars, luw, seqOf, job, step, outcome, rows, old, history>>

\* ... then the runs.
ReorgStore(p) ==
    /\ pc[p] = "removing"
    /\ removeRuns(rows[p])
    /\ Rests(p)
    /\ UNCHANGED <<business, old, history>>

-----------------------------------------------------------------------------
\* A process dies: its business transaction is rolled back, what it committed stays.
Crash(p) ==
    /\ crashes < MaxCrashes /\ pc[p] # "idle"
    /\ crashes' = crashes + 1
    /\ luw' = IF luw.by = p THEN NoLuw ELSE luw
    /\ Rests(p)
    /\ UNCHANGED <<storeVars, identity, outbox, seqOf, old, closed, cancelled>>

Caller ==
    \/ \E j \in Jobs : JOB_CLOSE(j) \/ BP_JOB_DELETE(j) \/ Interrupt(j) \/ Enqueue(j) \/ Age(j)
    \/ \E e \in Events : BP_EVENT_RAISE(e)
    \/ CommitClose \/ RollbackClose \/ CommitDelete \/ AbandonDelete

Drains(p) == DrainRead(p) \/ (\E j \in Jobs : Claim(p, j)) \/ Import(p) \/ Acknowledge(p) \/ Drained(p)

Schedules(p) ==
    \/ \E j \in Jobs : DueRead(p, j)
    \/ BeginRelease(p) \/ FindSuccessor(p) \/ ReserveCount(p) \/ MakeSuccessor(p) \/ Release(p)

Works(p) ==
    \/ \E j \in Jobs : Work(p, j)
    \/ \E how \in {"ok", "failed", "threw"} : Executed(p, how)
    \/ Record(p)

Reorganises(p) == ReorgRead(p) \/ ReorgBusiness(p) \/ ReorgStore(p)

Next ==
    \/ Caller
    \/ \E p \in Procs : \/ Drains(p) \/ Schedules(p) \/ Works(p) \/ Reorganises(p)
                        \/ ReserveFails(p) \/ RecordFails(p) \/ Crash(p)

Spec == Init /\ [][Next]_vars

\* A process goes on with what it began and gets the write lock it waits for, a LUW
\* ends, and passes follow each other (#arm runs after every pass, also a failed one),
\* each with a drain and a release of what is due. A reservation does not fail for
\* ever: a later pass finds a free count. Crashes are bounded, so a process is up in
\* the end.
GoesOn(p) ==
    \/ Import(p) \/ Acknowledge(p) \/ Drained(p) \/ ReorgStore(p)
    \/ BeginRelease(p) \/ FindSuccessor(p) \/ MakeSuccessor(p) \/ Release(p)
    \/ (\E how \in {"ok", "failed", "threw"} : Executed(p, how)) \/ Record(p) \/ RecordFails(p)
GetsLock(p) == (\E j \in Jobs : Claim(p, j)) \/ ReserveCount(p) \/ ReorgBusiness(p)
EndsLuw == CommitClose \/ RollbackClose \/ CommitDelete \/ AbandonDelete

Fairness ==
    /\ WF_vars(EndsLuw)
    /\ \A p \in Procs :
          /\ WF_vars(GoesOn(p)) /\ SF_vars(GetsLock(p))
          /\ SF_vars(DrainRead(p)) /\ \A j \in Timed : SF_vars(DueRead(p, j))

FairSpec == Spec /\ Fairness

-----------------------------------------------------------------------------
(* Properties *)

TypeOK ==
    /\ StoreTypeOK
    /\ identity \subseteq Jobs /\ outbox \subseteq Jobs
    /\ luw \in [kind : {"none", "close", "delete", "drain"}, jobs : SUBSET Jobs, by : Procs \cup {None}]
    /\ seqOf \in [Jobs -> Nat]
    /\ pc \in [Procs -> {"idle", "draining", "claimed", "imported", "due", "decided", "reserving",
                         "reserved", "releasing", "executing", "recording", "reorganising", "removing"}]
    /\ job \in [Procs -> Jobs \cup {None}]
    /\ step \in [Procs -> Nat]
    /\ outcome \in [Procs -> {None, "ok", "failed", "threw"}]
    /\ rows \in [Procs -> SUBSET Jobs]
    /\ old \subseteq Jobs /\ closed \subseteq Jobs /\ cancelled \subseteq Jobs
    /\ crashes \in 0 .. MaxCrashes

\* A run without its first `done` steps, at the step behind them, the rest untouched.
AtStep(steps, done, current, rest) ==
    \A i \in DOMAIN steps :
        steps[i] = IF i <= done THEN "COMPLETED" ELSE IF i = done + 1 THEN current ELSE rest
Stopped(steps, current, rest) ==
    steps = <<>> \/ \E done \in 0 .. Len(steps) - 1 : AtStep(steps, done, current, rest)

\* The steps of a run always tell where the run is: what claimNext, emitCompletion
\* and interruptQueued check at run time ("inconsistent ordered steps", "has no first
\* pending step", "inconsistent active step") cannot fail, whoever crashed, deleted or
\* interrupted meanwhile.
StepsConsistent ==
    \A j \in DOMAIN runs :
        LET steps == runs[j].steps
            waiting == \A i \in DOMAIN steps : steps[i] = "PENDING"
            over == \/ AtStep(steps, Len(steps), "COMPLETED", "COMPLETED")
                    \/ Stopped(steps, "FAILED", "SKIPPED")
                    \/ Stopped(steps, "INTERRUPTED", "SKIPPED") IN
        CASE runs[j].state \in {"WAITING", "RELEASING"} -> waiting
          [] runs[j].state = "QUEUED" -> Stopped(steps, "READY", "PENDING")
          [] runs[j].state = "RUNNING" -> Stopped(steps, "RUNNING", "PENDING")
          [] runs[j].state = "COMPLETED" -> AtStep(steps, Len(steps), "COMPLETED", "COMPLETED")
          [] runs[j].state = "FAILED" -> Stopped(steps, "FAILED", "SKIPPED")
          [] runs[j].state = "INTERRUPTED" -> Stopped(steps, "INTERRUPTED", "SKIPPED")
          [] runs[j].state = "DELETED" -> waiting \/ over

\* Every step of every job is started at most once, and in order: neither the retry of
\* an import whose acknowledgement was lost, nor a second worker, nor the removal of
\* the ledger entry by the reorganisation runs a report twice ("replay requires an
\* explicit decision about side effects").
StartedOnce ==
    \A j \in Jobs :
        /\ \A i \in DOMAIN started[j] : started[j][i] = i
        /\ Len(started[j]) <= (IF Steps[j] = 0 THEN 1 ELSE Steps[j])

\* One step runs at a time, and the process that runs it is the only one that can
\* record its result.
OneWorker ==
    /\ \A j, k \in Jobs : IsIn(j, {"RUNNING"}) /\ IsIn(k, {"RUNNING"}) => j = k
    /\ \A p, q \in Procs :
          /\ pc[p] \in {"executing", "recording"} /\ StillRuns(job[p], step[p])
          /\ pc[q] \in {"executing", "recording"} /\ StillRuns(job[q], step[q])
          => p = q

\* No report is run twice, by one process or by two.
RunsOnce == StartedOnce /\ OneWorker

\* The store's rows are sound in every state: their types and their steps.
StoreSound == TypeOK /\ StepsConsistent

\* No wake-up is lost between the two databases: a job waits only while what it waits
\* for has not happened since its JOB_CLOSE, also when that happened between the
\* JOB_CLOSE, the commit of its LUW and its import.
NoLostWakeUp ==
    \A j \in DOMAIN runs :
        runs[j].state = "WAITING" =>
            /\ After[j] \notin completed
            /\ \A e \in Accepts[j] : named[e] <= seqOf[j]

\* A job deleted before it started never starts, and a periodic job deleted while it
\* waited has no successor: a drain or a scheduler that read it before the delete
\* finds it gone (the two meet in the business write lock, and in WAITING).
DeletedForGood ==
    \A j \in cancelled :
        /\ started[j] = <<>>
        /\ Succ[j] # None => Succ[j] \notin DOMAIN runs

\* No identity points at nothing: a closed job is in the outbox or in the store, a
\* reserved successor's predecessor is still being released.
IdentityResolves ==
    \A j \in identity :
        \/ j \in outbox \/ j \in DOMAIN runs
        \/ \E k \in Jobs : Succ[k] = j /\ IsIn(k, {"RELEASING"})

\* A periodic job that was released has its successor, or had it until its retention
\* elapsed, whatever died in between.
ChainGoesOn ==
    \A j \in DOMAIN runs :
        Succ[j] # None /\ runs[j].state \in {"QUEUED", "RUNNING", "COMPLETED", "FAILED", "INTERRUPTED"}
            => Succ[j] \in DOMAIN runs \cup old

\* Each instance of a periodic chain runs once and is followed by the next.
ChainOfRuns == RunsOnce /\ ChainGoesOn

\* The reorganisation never takes a job that a waiting job is chained behind
\* (osd-job-reorg.mjs): the completion event goes with it, and the waiting job would
\* never start. A predecessor may still be coming: in the outbox, or the successor that a
\* release is about to make.
PredecessorKept ==
    \A j \in DOMAIN runs :
        runs[j].state = "WAITING" /\ After[j] # None
            => \/ After[j] \in DOMAIN runs \cup outbox \cup cancelled
               \/ \E k \in Jobs : Succ[k] = After[j] /\ IsIn(k, {"RELEASING"})

\* SAP_END_OF_JOB is raised for every job that finished, failed or was aborted
\* (docs/dsl-l3.md, the event mechanism of the job doctor).
JobEndTold ==
    \A j \in Jobs \ Local :
        IsIn(j, {"COMPLETED", "FAILED", "INTERRUPTED"}) => named[<<"end of", j>>] > 0

\* A committed intent leaves the outbox, whoever dies in the drain: imported, deleted
\* or acknowledged by the retry.
OutboxDrains == \A j \in Jobs : j \in outbox ~> j \notin outbox

\* A decision to start a job is carried out by the process that took it or, after its
\* death or a failed reservation, by a later pass.
ReleaseFinishes == \A j \in Jobs : IsIn(j, {"RELEASING"}) ~> ~IsIn(j, {"RELEASING"})

\* What one pass began and did not finish, a later one finishes.
PassesFinish == OutboxDrains /\ ReleaseFinishes
==============================================================================
