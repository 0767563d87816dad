----------------------------- MODULE BatchRuns ------------------------------
(***************************************************************************)
(* The operations store of the background jobs: class BatchRuns of         *)
(* tools/osd-batch-runs.mjs and its timed half,                            *)
(* tools/osd-batch-runs-timed.mjs. Every method is one SQLite transaction  *)
(* (BEGIN IMMEDIATE), so each is one action. Module Jobs composes it with  *)
(* the business database and the processes that work on both.              *)
(*                                                                         *)
(* A job is its intent: what it waits for, its steps and its events never  *)
(* change (the import ledger compares the payload), so they are constants. *)
(* One source system is modelled: one business database, client, system,   *)
(* owner and instance. Output files, texts and time stamps are left out;   *)
(* which of several QUEUED runs is the oldest is left open.                *)
(***************************************************************************)
EXTENDS Integers, Sequences, FiniteSets

CONSTANTS Jobs,      \* the jobs, each with its intent
          Local,     \* those queued by `enqueue`, without a job identity
          None,      \* undefined, where a job or an event would stand
          Steps,     \* job -> number of its steps, 0: a run without step rows
          After,     \* job -> the job it is chained behind, or None
          Accepts,   \* job -> the named events that start it, {}: it waits for none
          TailEvent, \* job -> the event its completion raises, or None
          Timed,     \* the jobs with a start time
          Succ       \* job -> the successor its release makes, or None

Events ==
    ({TailEvent[j] : j \in Jobs} \ {None}) \cup (UNION {Accepts[j] : j \in Jobs})
        \cup {<<"end of", j>> : j \in Jobs}

ASSUME JobsAssumption ==
    /\ Local \subseteq Jobs /\ Timed \subseteq Jobs /\ None \notin Jobs
    /\ Steps \in [Jobs -> Nat]
    /\ After \in [Jobs -> Jobs \cup {None}] /\ Succ \in [Jobs -> Jobs \cup {None}]

\* timedIntent, importIntent and JOB_CLOSE: one start condition, and step rows with
\* it; only a timed job has a period, and no intent but its predecessor's names a
\* successor.
ASSUME ConditionsAssumption ==
    \A j \in Jobs :
        /\ Cardinality({c \in 1 .. 3 : \/ c = 1 /\ After[j] # None
                                       \/ c = 2 /\ Accepts[j] # {}
                                       \/ c = 3 /\ j \in Timed}) <= 1
        /\ After[j] # None \/ Accepts[j] # {} \/ j \in Timed \/ TailEvent[j] # None => Steps[j] > 0
        /\ Succ[j] # None => j \in Timed /\ Succ[j] \in Timed
        /\ \A k \in Jobs : Succ[j] # None /\ Succ[j] = Succ[k] => j = k
        /\ j \in Local => Steps[j] = 0

VARIABLES
    runs,       \* batch_runs and batch_run_steps: job -> its run
    ledger,     \* batch_imports
    completed,  \* batch_job_events: the jobs whose completion is recorded
    named,      \* batch_named_events: event -> the sequence number of its last signal
    clock,      \* batch_signal_clock
    started     \* history: job -> the steps STEP_STARTED was logged for, in order

storeVars == <<runs, ledger, completed, named, clock, started>>

Final == {"COMPLETED", "FAILED", "INTERRUPTED", "DELETED"}
RunState == {"WAITING", "RELEASING", "QUEUED", "RUNNING"} \cup Final
StepState == {"PENDING", "READY", "RUNNING", "COMPLETED", "FAILED", "SKIPPED", "INTERRUPTED"}

\* waitSeq: wait_seq; instance: the run has a source instance to raise its end in.
Run == [state : RunState, steps : Seq(StepState), waitSeq : Nat, instance : BOOLEAN]

StoreInit ==
    /\ runs = <<>>
    /\ ledger = {} /\ completed = {}
    /\ named = [e \in Events |-> 0]
    /\ clock = 0
    /\ started = [j \in Jobs |-> <<>>]

IsIn(j, states) == j \in DOMAIN runs /\ runs[j].state \in states

-----------------------------------------------------------------------------
(* Waking up those who wait, inside the transaction that ends a job *)

Tables == [runs |-> runs, completed |-> completed, named |-> named, clock |-> clock]

Write(t) ==
    /\ runs' = t.runs /\ completed' = t.completed
    /\ named' = t.named /\ clock' = t.clock

\* The first pending step becomes READY and the run QUEUED.
Released(r) ==
    [r EXCEPT !.state = "QUEUED",
              !.steps = [i \in DOMAIN @ |-> IF i = 1 THEN "READY" ELSE @[i]]]

Woken(rs, who) ==
    [j \in DOMAIN rs |-> IF rs[j].state = "WAITING" /\ j \in who THEN Released(rs[j]) ELSE rs[j]]

\* A named event, with the next number of the signal clock.
Signal(t, e) ==
    LET seq == t.clock + 1
        waitFor == {j \in DOMAIN t.runs : e \in Accepts[j] /\ t.runs[j].waitSeq < seq} IN
    [t EXCEPT !.clock = seq,
              !.named[e] = seq,
              !.runs = Woken(t.runs, waitFor)]

\* #emitCompletion: the completion event, those chained behind, the tail event.
EmitCompletion(t, j) ==
    LET behind == {k \in Jobs : After[k] = j}
        done == [t EXCEPT !.completed = @ \cup {j}, !.runs = Woken(t.runs, behind)] IN
    IF j \in Local THEN t
    ELSE IF TailEvent[j] = None THEN done ELSE Signal(done, TailEvent[j])

\* #emitJobEnd: SAP_END_OF_JOB, in the job's source instance if it has one.
EmitJobEnd(t, j) ==
    IF j \in Local \/ ~t.runs[j].instance THEN t ELSE Signal(t, <<"end of", j>>)

-----------------------------------------------------------------------------
(* Runs come in *)

NewRun(j, released, seq, instance) ==
    [state |-> IF released THEN "QUEUED" ELSE "WAITING",
     steps |-> [i \in 1 .. Steps[j] |-> IF i = 1 /\ released THEN "READY" ELSE "PENDING"],
     waitSeq |-> seq, instance |-> instance]

WithRun(j, r) == [k \in DOMAIN runs \cup {j} |-> IF k = j THEN r ELSE runs[k]]

\* Mutant of AlreadyReleased: an event before the import is not looked for.
OnlyUnconditional(j, seq) == j \notin Timed /\ Accepts[j] = {} /\ After[j] = None

\* What the job waits for has happened already; a timed job's start is the
\* scheduler's alone.
AlreadyReleased(j, seq) ==
    /\ j \notin Timed
    /\ After[j] # None => After[j] \in completed
    /\ Accepts[j] # {} => \E e \in Accepts[j] : named[e] > seq

\* The ledger and the run in one transaction; an intent the ledger has is a
\* duplicate and changes nothing.
importIntent(j, seq, instance) ==
    /\ IF j \in ledger
       THEN UNCHANGED <<runs, ledger>>
       ELSE /\ runs' = WithRun(j, NewRun(j, AlreadyReleased(j, seq), seq, instance))
            /\ ledger' = ledger \cup {j}
    /\ UNCHANGED <<completed, named, clock, started>>

enqueue(j) ==
    /\ j \in Local /\ j \notin DOMAIN runs
    /\ runs' = WithRun(j, NewRun(j, TRUE, 0, FALSE))
    /\ UNCHANGED <<ledger, completed, named, clock, started>>

\* BP_EVENT_RAISE; a repeated import of the same event is a duplicate.
importNamedEvent(e) ==
    /\ Write(Signal(Tables, e))
    /\ UNCHANGED <<ledger, started>>

reserveSignalSeq ==
    /\ clock' = clock + 1
    /\ UNCHANGED <<runs, ledger, completed, named, started>>

-----------------------------------------------------------------------------
(* Runs are worked on *)

\* The step a run is at, 0 for a run without step rows.
StepIn(j, state) ==
    IF \E i \in DOMAIN runs[j].steps : runs[j].steps[i] = state
    THEN CHOOSE i \in DOMAIN runs[j].steps : runs[j].steps[i] = state
    ELSE 0

WithStep(steps, i, state) == [k \in DOMAIN steps |-> IF k = i THEN state ELSE steps[k]]

\* A RUNNING run holds the one worker of the source, even if its process is gone.
Busy(j) == \E k \in Jobs : IsIn(k, {"RUNNING"})

claimNext(j) ==
    /\ ~Busy(j)
    /\ IsIn(j, {"QUEUED"})
    /\ LET n == StepIn(j, "READY") IN
       /\ runs' = [runs EXCEPT ![j].state = "RUNNING", ![j].steps = WithStep(@, n, "RUNNING")]
       /\ started' = [started EXCEPT ![j] = Append(@, IF n = 0 THEN 1 ELSE n)]
    /\ UNCHANGED <<ledger, completed, named, clock>>

\* Mutant of Ended: what is not started stays as it is.
EndedUnskipped(j, n, state) ==
    [runs EXCEPT ![j].state = state, ![j].steps = WithStep(@, n, state)]

\* The run and its step as they end: what is not started is skipped.
Ended(j, n, state) ==
    [runs EXCEPT ![j].state = state,
                 ![j].steps = [i \in DOMAIN @ |-> IF i = n THEN state
                                                  ELSE IF @[i] \in {"READY", "PENDING"} THEN "SKIPPED"
                                                  ELSE @[i]]]

EndedTables(j, n, state) == [Tables EXCEPT !.runs = Ended(j, n, state)]

\* The worker's transaction applies only to the step it runs, still RUNNING.
StillRuns(j, n) ==
    IF n = 0 THEN IsIn(j, {"RUNNING"}) ELSE j \in DOMAIN runs /\ runs[j].steps[n] = "RUNNING"

\* finishStep of the last or a failed step, and finish of a run without step rows.
finish(j, n, success) ==
    /\ StillRuns(j, n)
    /\ IF success
       THEN Write(EmitJobEnd(EmitCompletion(EndedTables(j, n, "COMPLETED"), j), j))
       ELSE Write(EmitJobEnd(EndedTables(j, n, "FAILED"), j))
    /\ UNCHANGED <<ledger, started>>

\* Mutant of advance: the step that ended is made ready again.
AdvanceInPlace(j, n) ==
    /\ StillRuns(j, n) /\ n \in 1 .. Len(runs[j].steps) - 1
    /\ runs' = [runs EXCEPT ![j].state = "QUEUED", ![j].steps = WithStep(@, n, "READY")]
    /\ UNCHANGED <<ledger, completed, named, clock, started>>

\* finishStep of a step with another behind it.
advance(j, n) ==
    /\ StillRuns(j, n) /\ n \in 1 .. Len(runs[j].steps) - 1
    /\ runs' = [runs EXCEPT ![j].state = "QUEUED",
                            ![j].steps = WithStep(WithStep(@, n, "COMPLETED"), n + 1, "READY")]
    /\ UNCHANGED <<ledger, completed, named, clock, started>>

\* failStep records the failure and raises no SAP_END_OF_JOB; fail, for a run
\* without step rows, does.
fail(j, n) ==
    /\ StillRuns(j, n)
    /\ IF n = 0 THEN Write(EmitJobEnd(EndedTables(j, n, "FAILED"), j))
                ELSE Write(EndedTables(j, n, "FAILED"))
    /\ UNCHANGED <<ledger, started>>

\* BP_JOB_ABORT, or the operator after a worker died.
interruptQueued(j) ==
    /\ IsIn(j, {"RUNNING"})
    /\ Write(EmitJobEnd(EndedTables(j, StepIn(j, "RUNNING"), "INTERRUPTED"), j))
    /\ UNCHANGED <<ledger, started>>

-----------------------------------------------------------------------------
(* Timed jobs, and BP_JOB_DELETE *)

\* A successor is periodic like its predecessor; the last one modelled has None.
IsSuccessor(j) == \E k \in Jobs : Succ[k] = j
Periodic(j) == Succ[j] # None \/ IsSuccessor(j)

successorOf(j) == Succ[j] # None /\ Succ[j] \in DOMAIN runs

\* The decision to start a due job, taken once.
Decidable(j) == IsIn(j, {"WAITING", "RELEASING"})

beginRelease(j) ==
    /\ Decidable(j)
    /\ runs' = [runs EXCEPT ![j].state = "RELEASING"]
    /\ UNCHANGED <<ledger, completed, named, clock, started>>

\* The latest start has passed, or not; the job may have been released meanwhile.
releaseTimed(j, expired) ==
    /\ IsIn(j, {"RELEASING"})
    /\ runs' = IF expired THEN Ended(j, 1, "FAILED") ELSE [runs EXCEPT ![j] = Released(@)]
    /\ UNCHANGED <<ledger, completed, named, clock, started>>

Deletable(j) == IsIn(j, {"WAITING", "COMPLETED", "FAILED", "INTERRUPTED"})

deleteJob(j) ==
    /\ Deletable(j)
    /\ runs' = [runs EXCEPT ![j].state = "DELETED"]
    /\ UNCHANGED <<ledger, completed, named, clock, started>>

-----------------------------------------------------------------------------
(* Job reorganisation (tools/osd-job-reorg.mjs) *)

\* Mutant of reorgCandidates: nobody looks who is chained behind the run.
ReorgCandidatesUnchained(old) ==
    {j \in old : IsIn(j, Final) /\ j \notin Local /\ (Periodic(j) => successorOf(j))}

\* The final runs that may leave: never the latest of a periodic chain, never one a
\* run that is not final is chained behind.
reorgCandidates(old) ==
    {j \in old : /\ IsIn(j, Final) /\ j \notin Local
                 /\ Periodic(j) => successorOf(j)
                 /\ \A k \in DOMAIN runs : After[k] = j => runs[k].state \in Final}

removeRuns(J) ==
    /\ runs' = [j \in DOMAIN runs \ J |-> runs[j]]
    /\ ledger' = ledger \ J
    /\ completed' = completed \ J
    /\ UNCHANGED <<named, clock, started>>

-----------------------------------------------------------------------------
StoreTypeOK ==
    /\ DOMAIN runs \subseteq Jobs
    /\ \A j \in DOMAIN runs : runs[j] \in Run
    /\ ledger \subseteq Jobs \ Local /\ completed \subseteq Jobs \ Local
    /\ named \in [Events -> Nat]
    /\ clock \in Nat
    /\ started \in [Jobs -> Seq(Nat)]
=============================================================================
