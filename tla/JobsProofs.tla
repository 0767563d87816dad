----------------------------- MODULE JobsProofs ------------------------------
(***************************************************************************)
(* Background jobs lose no wake-up, run no step twice and forget no job,   *)
(* for any jobs, conditions and processes, whoever dies in between.        *)
(***************************************************************************)
EXTENDS Jobs, FiniteSetTheorems, TLAPS

-----------------------------------------------------------------------------
(* The inductive invariant *)

Successors == {s \in Jobs : IsSuccessor(s)}
Draining == {"draining", "claimed", "imported"}
Scheduling == {"due", "decided", "reserving", "reserved", "releasing"}
Deciding == Scheduling \ {"due"}
Working == {"executing", "recording"}
Reorganising == {"reorganising", "removing"}

\* Which transaction holds the business write lock, and for whom. What a caller closes was
\* nowhere before, and its predecessor is there; what is deleted is known.
LuwKnown ==
    /\ luw.kind = "none" => luw = NoLuw
    /\ luw.kind \in {"close", "delete"} => luw.by = None
    /\ luw.kind = "close" => \A j \in luw.jobs :
          /\ j \notin Local \cup closed \cup Successors
          /\ After[j] # None => After[j] \in (luw.jobs \cup identity) \ old
    /\ luw.kind = "delete" => luw.jobs \subseteq identity \cap (DOMAIN runs \cup outbox)

\* Where a job can have come from, and that the ledger is the store's runs with an identity.
Origins ==
    /\ closed \cap (Local \cup Successors) = {}
    /\ outbox \subseteq closed /\ identity \subseteq closed \cup Successors
    /\ DOMAIN runs \cup old \subseteq closed \cup Successors \cup Local
    /\ cancelled \subseteq closed \cup Successors
    /\ ledger = DOMAIN runs \ Local

\* A run whose retention elapsed is over and, once it left the store, over for good.
Elapsed ==
    /\ \A j \in old \cap DOMAIN runs : runs[j].state \in Final
    /\ old \cap (outbox \cup identity \cup Local) \subseteq DOMAIN runs

\* What each process is at.
Places ==
    \A p \in Procs :
        /\ pc[p] \in {"claimed", "imported"} =>
              /\ luw = [kind |-> "drain", jobs |-> {job[p]}, by |-> p]
              /\ job[p] \in outbox
              /\ pc[p] = "imported" => job[p] \in DOMAIN runs
        /\ pc[p] \in Scheduling => job[p] \in Timed \cap DOMAIN runs /\ job[p] \notin old /\ Succ[job[p]] \notin old
        /\ pc[p] \in Deciding => runs[job[p]].state # "WAITING" /\ job[p] \notin cancelled
        /\ pc[p] \in {"reserving", "reserved"} => Succ[job[p]] # None
        /\ pc[p] = "releasing" => Succ[job[p]] \in DOMAIN runs \cup {None}

\* What was in the outbox when a run became old is imported before that run can be taken:
\* by the drain that the reorganisation follows.
DrainedFirst ==
    \A p \in Procs :
        /\ pc[p] \in Draining => \A j \in outbox :
              j \in old \/ After[j] \in old => j \in rows[p] \/ (pc[p] # "draining" /\ j = job[p])
        /\ pc[p] \in Reorganising =>
              /\ rows[p] \subseteq old \ (Local \cup outbox)
              /\ \A k \in outbox : After[k] \notin rows[p]
              /\ \A k \in DOMAIN runs : After[k] \in rows[p] => runs[k].state \in Final
        /\ pc[p] = "removing" => rows[p] \cap identity = {}

\* A successor is made by the release of its predecessor, and a release makes it.
Chained ==
    /\ \A k \in Jobs : Succ[k] \in DOMAIN runs \cup old =>
          k \in DOMAIN runs \cup old /\ k \notin cancelled /\ ~IsIn(k, {"WAITING"})
    /\ \A k \in Jobs : Succ[k] \in old => ~IsIn(k, {"WAITING", "RELEASING"})
    /\ \A k \in DOMAIN runs :
          Succ[k] # None /\ runs[k].state \notin {"WAITING", "RELEASING"} /\ k \notin cancelled
              => Succ[k] \in DOMAIN runs \cup old

\* The steps of a job that were started are the first ones, as far as its run got.
StepsOf(j) == IF Steps[j] = 0 THEN 1 ELSE Steps[j]
Progress ==
    /\ \A j \in Jobs : /\ \A i \in DOMAIN started[j] : started[j][i] = i
                       /\ Len(started[j]) <= StepsOf(j)
    /\ \A j \in Jobs \ (DOMAIN runs \cup old) : started[j] = <<>>
    /\ \A j \in DOMAIN runs :
          /\ Len(runs[j].steps) = Steps[j]
          /\ runs[j].state \in {"WAITING", "RELEASING"} => started[j] = <<>> /\ Steps[j] > 0
          /\ runs[j].state = "QUEUED" =>
                /\ Len(started[j]) < StepsOf(j)
                /\ AtStep(runs[j].steps, Len(started[j]), "READY", "PENDING")
          /\ runs[j].state = "RUNNING" =>
                /\ 1 <= Len(started[j])
                /\ AtStep(runs[j].steps, Len(started[j]) - 1, "RUNNING", "PENDING")

\* Who runs a step has started it, and no other did.
Workers ==
    /\ \A p \in Procs : pc[p] \in Working =>
          /\ job[p] \in Jobs /\ step[p] \in (IF Steps[job[p]] = 0 THEN {0} ELSE 1 .. Steps[job[p]])
          /\ 1 <= Len(started[job[p]]) /\ step[p] <= Len(started[job[p]])
    /\ \A p, q \in Procs : pc[p] \in Working /\ pc[q] \in Working /\ job[p] = job[q] /\ step[p] = step[q] => p = q
    /\ \A j, k \in Jobs : IsIn(j, {"RUNNING"}) /\ IsIn(k, {"RUNNING"}) => j = k

\* A job that was deleted before it started is deleted or gone, and gone for good.
Deleted ==
    \A j \in cancelled :
        /\ started[j] = <<>>
        /\ j \in DOMAIN runs => runs[j].state = "DELETED"
        /\ j \notin DOMAIN runs => j \notin outbox /\ j \in closed \cup old

\* A job waits only for what has not happened since its JOB_CLOSE, with that number.
Waits ==
    /\ \A j \in Jobs : seqOf[j] <= clock
    /\ \A j \in DOMAIN runs : runs[j].state = "WAITING" /\ Accepts[j] # {} => runs[j].waitSeq = seqOf[j]
    /\ NoLostWakeUp

\* The job another is chained behind is there: in the store, or to come.
There(j) == \/ j \in DOMAIN runs \cup outbox
            \/ \E k \in Jobs : Succ[k] = j /\ IsIn(k, {"RELEASING"})
Resolved ==
    /\ \A j \in identity : There(j)
    /\ \A j \in Jobs : (j \in outbox \/ IsIn(j, {"WAITING"})) /\ After[j] # None => There(After[j]) \/ After[j] \in cancelled

IInv == /\ TypeOK /\ LuwKnown /\ Origins /\ Elapsed /\ Places /\ DrainedFirst /\ Chained
        /\ StepsConsistent /\ Progress /\ Workers /\ Deleted /\ Waits /\ Resolved

-----------------------------------------------------------------------------
(* Intents *)

\* A set of numbers of conditions with two members has more than one.
LEMMA TwoConditions ==
    ASSUME NEW S \in SUBSET (1 .. 3), NEW c \in S, NEW d \in S, c # d
    PROVE  ~(Cardinality(S) <= 1)
<1>1. IsFiniteSet(S)
  <2>1. IsFiniteSet(1 .. 3)
    BY FS_Interval, 1 \in Int, 3 \in Int
  <2> QED
    BY <2>1, FS_Subset
<1>2. Cardinality({c, d}) = 2
  <2>1. IsFiniteSet({c}) /\ Cardinality({c}) = 1
    BY FS_Singleton
  <2>2. Cardinality({c} \cup {d}) = Cardinality({c}) + 1
    BY <2>1, FS_AddElement, d \notin {c}
  <2>3. {c, d} = {c} \cup {d}
    OBVIOUS
  <2> QED
    BY <2>1, <2>2, <2>3
<1>3. Cardinality({c, d}) <= Cardinality(S) /\ Cardinality(S) \in Nat
  BY <1>1, FS_Subset, FS_CardinalityType, {c, d} \subseteq S
<1> QED
  BY <1>2, <1>3

\* One start condition: a timed job waits for no event and behind no job, a chained one for
\* no event. A job with a condition has steps, a local one has neither.
LEMMA OneCondition ==
    ASSUME NEW j \in Jobs
    PROVE  /\ j \in Timed => After[j] = None /\ Accepts[j] = {}
           /\ After[j] # None => Accepts[j] = {} /\ j \notin Timed
           /\ HasCondition(j) => Steps[j] > 0
           /\ Succ[j] # None => j \in Timed /\ Succ[j] \in Timed /\ Succ[j] \in Jobs
           /\ After[j] # None => After[j] \in Jobs
           /\ Steps[j] \in Nat
           /\ j \in Local => j \notin Timed /\ Steps[j] = 0 /\ After[j] = None /\ Accepts[j] = {}
<1> DEFINE S == {c \in 1 .. 3 : \/ c = 1 /\ After[j] # None
                                \/ c = 2 /\ Accepts[j] # {}
                                \/ c = 3 /\ j \in Timed}
<1>1. Cardinality(S) <= 1
  BY ConditionsAssumption
<1>2. (After[j] # None => 1 \in S) /\ (Accepts[j] # {} => 2 \in S) /\ (j \in Timed => 3 \in S)
  OBVIOUS
<1>3. S \in SUBSET (1 .. 3)
  OBVIOUS
<1>4. ~(1 \in S /\ 2 \in S) /\ ~(1 \in S /\ 3 \in S) /\ ~(2 \in S /\ 3 \in S)
  <2> HIDE DEF S
  <2> QED
    BY <1>1, <1>3, TwoConditions, 1 # 2, 1 # 3, 2 # 3
<1>5. /\ After[j] # None \/ Accepts[j] # {} \/ j \in Timed => Steps[j] > 0
      /\ Succ[j] # None => j \in Timed /\ Succ[j] \in Timed
      /\ j \in Local => Steps[j] = 0
  BY ConditionsAssumption
<1>6. Steps[j] \in Nat /\ After[j] \in Jobs \cup {None} /\ Succ[j] \in Jobs \cup {None}
  BY JobsAssumption
<1> HIDE DEF S
<1> QED
  BY <1>2, <1>4, <1>5, <1>6 DEF HasCondition

\* A successor has one predecessor and is neither local nor chained.
LEMMA OnePredecessor ==
    /\ \A j, k \in Jobs : Succ[j] # None /\ Succ[j] = Succ[k] => j = k
    /\ \A s \in Successors : s \in Timed /\ s \notin Local
    /\ \A k \in Jobs : Succ[k] # None => Succ[k] \in Successors
    /\ None \notin Jobs
<1>1. \A j, k \in Jobs : Succ[j] # None /\ Succ[j] = Succ[k] => j = k
  BY ConditionsAssumption
<1>2. None \notin Jobs
  BY JobsAssumption
<1>3. \A k \in Jobs : Succ[k] # None => Succ[k] \in Successors
  BY OneCondition DEF Successors, IsSuccessor
<1>4. \A s \in Successors : s \in Timed /\ s \notin Local
  BY <1>2, OneCondition DEF Successors, IsSuccessor
<1> QED
  BY <1>1, <1>2, <1>3, <1>4

-----------------------------------------------------------------------------
(* What the transactions of the store do to a run *)

TypedRuns(rs) == DOMAIN rs \subseteq Jobs /\ \A j \in DOMAIN rs : rs[j] \in Run

\* A run that is released is queued at its first step and otherwise what it was.
LEMMA ReleasedRun ==
    ASSUME NEW r \in Run
    PROVE  /\ Released(r) \in Run /\ Released(r).state = "QUEUED"
           /\ Released(r).waitSeq = r.waitSeq /\ Released(r).instance = r.instance
           /\ Len(Released(r).steps) = Len(r.steps)
           /\ \A i \in 1 .. Len(r.steps) : Released(r).steps[i] = IF i = 1 THEN "READY" ELSE r.steps[i]
<1> DEFINE st == [i \in DOMAIN r.steps |-> IF i = 1 THEN "READY" ELSE r.steps[i]]
<1>1. r.steps \in Seq(StepState)
  BY DEF Run
<1>2. st \in Seq(StepState) /\ Len(st) = Len(r.steps) /\ DOMAIN r.steps = 1 .. Len(r.steps)
  BY <1>1 DEF StepState
<1>3. Released(r) = [[r EXCEPT !.state = "QUEUED"] EXCEPT !.steps = st]
  BY DEF Released, Run
<1> HIDE DEF st
<1>4. Released(r) \in Run /\ Released(r).state = "QUEUED" /\ Released(r).waitSeq = r.waitSeq
      /\ Released(r).instance = r.instance /\ Released(r).steps = st
  BY <1>2, <1>3 DEF Run, RunState
<1> QED
  BY <1>2, <1>4 DEF st

\* A run as it comes in.
LEMMA NewRunIs ==
    ASSUME NEW j \in Jobs, NEW released \in BOOLEAN, NEW seq \in Nat, NEW instance \in BOOLEAN
    PROVE  LET r == NewRun(j, released, seq, instance) IN
           /\ r \in Run /\ r.state = (IF released THEN "QUEUED" ELSE "WAITING")
           /\ r.waitSeq = seq /\ Len(r.steps) = Steps[j]
           /\ \A i \in 1 .. Steps[j] : r.steps[i] = IF i = 1 /\ released THEN "READY" ELSE "PENDING"
<1> DEFINE st == [i \in 1 .. Steps[j] |-> IF i = 1 /\ released THEN "READY" ELSE "PENDING"]
<1>1. Steps[j] \in Nat
  BY OneCondition
<1>2. st \in Seq(StepState) /\ Len(st) = Steps[j]
  BY <1>1 DEF StepState
<1>3. NewRun(j, released, seq, instance).steps = st /\ NewRun(j, released, seq, instance).waitSeq = seq
      /\ NewRun(j, released, seq, instance).state = (IF released THEN "QUEUED" ELSE "WAITING")
  BY DEF NewRun
<1>4. NewRun(j, released, seq, instance) \in Run
  BY <1>2 DEF NewRun, Run, RunState
<1> QED
  BY <1>2, <1>3, <1>4

\* A run that ends: its step with it, and what is not started is skipped.
LEMMA EndedRun ==
    ASSUME TypedRuns(runs), NEW j \in DOMAIN runs, NEW n \in Nat, NEW state \in {"COMPLETED", "FAILED", "INTERRUPTED"}
    PROVE  LET rs == Ended(j, n, state) IN
           /\ TypedRuns(rs) /\ DOMAIN rs = DOMAIN runs /\ \A k \in DOMAIN runs \ {j} : rs[k] = runs[k]
           /\ rs[j].state = state /\ Len(rs[j].steps) = Len(runs[j].steps)
           /\ rs[j].waitSeq = runs[j].waitSeq /\ rs[j].instance = runs[j].instance
           /\ \A i \in 1 .. Len(runs[j].steps) :
                 rs[j].steps[i] = IF i = n THEN state
                                  ELSE IF runs[j].steps[i] \in {"READY", "PENDING"} THEN "SKIPPED"
                                  ELSE runs[j].steps[i]
<1> DEFINE st == [i \in DOMAIN runs[j].steps |-> IF i = n THEN state
                                  ELSE IF runs[j].steps[i] \in {"READY", "PENDING"} THEN "SKIPPED"
                                  ELSE runs[j].steps[i]]
           r == [[runs[j] EXCEPT !.state = state] EXCEPT !.steps = st]
<1>1. runs[j] \in Run /\ runs[j].steps \in Seq(StepState)
  BY DEF TypedRuns, Run
<1>2. st \in Seq(StepState) /\ Len(st) = Len(runs[j].steps) /\ DOMAIN runs[j].steps = 1 .. Len(runs[j].steps)
  BY <1>1 DEF StepState
<1>3. Ended(j, n, state) = [runs EXCEPT ![j] = r]
  <2>1. Ended(j, n, state) = [[runs EXCEPT ![j].state = state] EXCEPT ![j].steps = st]
    BY <1>1 DEF Ended, Run
  <2>2. [[runs EXCEPT ![j].state = state] EXCEPT ![j].steps = st]
        = [runs EXCEPT ![j] = [[runs[j] EXCEPT !.state = state] EXCEPT !.steps = st]]
    OBVIOUS
  <2> QED
    BY <2>1, <2>2
<1> HIDE DEF st
<1>4. r \in Run /\ r.state = state /\ r.steps = st /\ r.waitSeq = runs[j].waitSeq /\ r.instance = runs[j].instance
  BY <1>1, <1>2 DEF Run, RunState, Final
<1> HIDE DEF r
<1>5. TypedRuns(Ended(j, n, state)) /\ DOMAIN Ended(j, n, state) = DOMAIN runs /\ Ended(j, n, state)[j] = r
      /\ \A k \in DOMAIN runs \ {j} : Ended(j, n, state)[k] = runs[k]
  BY <1>3, <1>4 DEF TypedRuns
<1> QED
  BY <1>2, <1>4, <1>5 DEF st

-----------------------------------------------------------------------------
(* Waking up *)

TypedTables(t) ==
    /\ DOMAIN t = {"runs", "completed", "named", "clock"}
    /\ TypedRuns(t.runs) /\ t.completed \subseteq Jobs \ Local
    /\ t.named \in [Events -> Nat] /\ t.clock \in Nat

\* Waits, of the tables in the middle of a transaction.
Patient(t) ==
    /\ \A j \in Jobs : seqOf[j] \in Nat /\ seqOf[j] <= t.clock
    /\ \A j \in DOMAIN t.runs : t.runs[j].state = "WAITING" =>
          /\ Accepts[j] # {} => t.runs[j].waitSeq = seqOf[j]
          /\ After[j] \notin t.completed
          /\ \A e \in Accepts[j] : t.named[e] <= seqOf[j]

\* The runs are the same but for some that waited, for no time, and are released.
WokenInto(rs, rt) ==
    /\ DOMAIN rt = DOMAIN rs
    /\ \A k \in DOMAIN rs : rt[k] = rs[k] \/ (rs[k].state = "WAITING" /\ k \notin Timed /\ rt[k] = Released(rs[k]))

\* Released runs are typed.
LEMMA WokenTyped ==
    ASSUME NEW rs, NEW rt, TypedRuns(rs), WokenInto(rs, rt)
    PROVE  TypedRuns(rt)
<1> SUFFICES ASSUME NEW k \in DOMAIN rs PROVE rt[k] \in Run
  BY DEF TypedRuns, WokenInto
<1> QED
  BY ReleasedRun DEF TypedRuns, WokenInto

\* Waking up in two steps.
LEMMA WokenTwice ==
    ASSUME NEW rs, NEW rt, NEW ru, TypedRuns(rs), WokenInto(rs, rt), WokenInto(rt, ru)
    PROVE  WokenInto(rs, ru)
<1> SUFFICES ASSUME NEW k \in DOMAIN rs
             PROVE  ru[k] = rs[k] \/ (rs[k].state = "WAITING" /\ k \notin Timed /\ ru[k] = Released(rs[k]))
  BY DEF WokenInto
<1>1. rt[k] = rs[k] \/ (rt[k].state = "QUEUED" /\ rs[k].state = "WAITING" /\ k \notin Timed /\ rt[k] = Released(rs[k]))
  BY ReleasedRun DEF TypedRuns, WokenInto
<1> QED
  BY <1>1 DEF WokenInto

\* Nobody who waits for an event is left waiting when it is signalled: its number is above
\* all that were given out.
LEMMA SignalWakes ==
    ASSUME NEW t, TypedTables(t), Patient(t), NEW e \in Events
    PROVE  LET u == Signal(t, e) IN
           TypedTables(u) /\ Patient(u) /\ WokenInto(t.runs, u.runs) /\ u.completed = t.completed
<1> DEFINE seq == t.clock + 1
           who == {j \in DOMAIN t.runs : e \in Accepts[j] /\ t.runs[j].waitSeq < seq}
           u == Signal(t, e)
<1>1. /\ DOMAIN u = DOMAIN t /\ u.clock = seq /\ u.completed = t.completed
      /\ u.named = [t.named EXCEPT ![e] = seq] /\ u.runs = Woken(t.runs, who)
  BY DEF Signal, TypedTables
<1>2. DOMAIN u.runs = DOMAIN t.runs
      /\ \A k \in DOMAIN t.runs :
            u.runs[k] = IF t.runs[k].state = "WAITING" /\ k \in who THEN Released(t.runs[k]) ELSE t.runs[k]
  BY <1>1 DEF Woken
<1>3. \A k \in who : k \in Jobs /\ k \notin Timed
  BY OneCondition DEF TypedTables, TypedRuns
<1> HIDE DEF u
<1>4. WokenInto(t.runs, u.runs)
  BY <1>2, <1>3 DEF WokenInto
<1>5. TypedTables(u)
  BY <1>1, <1>4, WokenTyped DEF TypedTables
<1>6. \A j \in Jobs : seqOf[j] \in Nat /\ seqOf[j] <= u.clock
  BY <1>1 DEF Patient, TypedTables
<1>7. ASSUME NEW j \in DOMAIN u.runs, u.runs[j].state = "WAITING"
      PROVE  /\ Accepts[j] # {} => u.runs[j].waitSeq = seqOf[j]
             /\ After[j] \notin u.completed
             /\ \A f \in Accepts[j] : u.named[f] <= seqOf[j]
  <2>1. j \in DOMAIN t.runs /\ t.runs[j] \in Run /\ j \in Jobs
    BY <1>2, <1>7 DEF TypedTables, TypedRuns
  <2>2. u.runs[j] = t.runs[j] /\ (t.runs[j].state = "WAITING" => j \notin who)
    BY <1>2, <1>7, <2>1, ReleasedRun
  <2>3. /\ Accepts[j] # {} => t.runs[j].waitSeq = seqOf[j]
        /\ After[j] \notin t.completed
        /\ \A f \in Accepts[j] : t.named[f] <= seqOf[j]
    BY <1>7, <2>1, <2>2 DEF Patient
  <2>4. e \notin Accepts[j]
    <3> SUFFICES ASSUME e \in Accepts[j] PROVE FALSE
      OBVIOUS
    <3>1. t.runs[j].waitSeq = seqOf[j] /\ seqOf[j] \in Nat /\ seqOf[j] <= t.clock /\ t.clock \in Nat
      BY <2>1, <2>3 DEF Patient, TypedTables
    <3> QED
      BY <1>7, <2>1, <2>2, <3>1
  <2>5. \A f \in Accepts[j] : u.named[f] = t.named[f]
    <3>1. \A f \in Accepts[j] : f \in Events
      BY <2>1 DEF Events
    <3> QED
      BY <1>1, <2>4, <3>1 DEF TypedTables
  <2> QED
    BY <1>1, <2>2, <2>3, <2>5
<1> QED
  BY <1>1, <1>4, <1>5, <1>6, <1>7 DEF Patient, u

\* The completion of a job releases those chained behind it and signals its tail event.
LEMMA CompletionWakes ==
    ASSUME NEW t, TypedTables(t), Patient(t), NEW j \in Jobs
    PROVE  LET u == EmitCompletion(t, j) IN
           TypedTables(u) /\ Patient(u) /\ WokenInto(t.runs, u.runs)
<1> DEFINE behind == {k \in Jobs : After[k] = j}
           done == [t EXCEPT !.completed = @ \cup {j}, !.runs = Woken(t.runs, behind)]
<1>1. CASE j \in Local
  BY <1>1 DEF EmitCompletion, WokenInto
<1>2. CASE j \notin Local
  <2>1. /\ DOMAIN done = DOMAIN t /\ done.clock = t.clock /\ done.named = t.named
        /\ done.completed = t.completed \cup {j} /\ done.runs = Woken(t.runs, behind)
    BY DEF TypedTables
  <2>2. DOMAIN done.runs = DOMAIN t.runs
        /\ \A k \in DOMAIN t.runs :
              done.runs[k] = IF t.runs[k].state = "WAITING" /\ k \in behind THEN Released(t.runs[k]) ELSE t.runs[k]
    BY <2>1 DEF Woken
  <2>3. \A k \in behind : k \notin Timed
    BY OneCondition, JobsAssumption
  <2>4. EmitCompletion(t, j) = IF TailEvent[j] = None THEN done ELSE Signal(done, TailEvent[j])
    BY <1>2 DEF EmitCompletion
  <2> HIDE DEF done
  <2>5. WokenInto(t.runs, done.runs)
    BY <2>2, <2>3 DEF WokenInto
  <2>6. TypedTables(done)
    BY <1>2, <2>1, <2>5, WokenTyped DEF TypedTables
  <2>7. Patient(done)
    <3>1. ASSUME NEW k \in DOMAIN done.runs, done.runs[k].state = "WAITING"
          PROVE  done.runs[k] = t.runs[k] /\ k \notin behind /\ k \in DOMAIN t.runs /\ k \in Jobs
      BY <2>2, <3>1, ReleasedRun DEF TypedTables, TypedRuns
    <3> QED
      BY <2>1, <3>1 DEF Patient
  <2>8. CASE TailEvent[j] = None
    BY <2>4, <2>5, <2>6, <2>7, <2>8
  <2>9. CASE TailEvent[j] # None
    <3>1. TailEvent[j] \in Events
      BY <2>9 DEF Events
    <3>2. TypedTables(Signal(done, TailEvent[j])) /\ Patient(Signal(done, TailEvent[j]))
          /\ WokenInto(done.runs, Signal(done, TailEvent[j]).runs)
      BY <2>6, <2>7, <3>1, SignalWakes
    <3>3. WokenInto(t.runs, Signal(done, TailEvent[j]).runs)
      BY <2>5, <3>2, WokenTwice DEF TypedTables
    <3> QED
      BY <2>4, <2>9, <3>2, <3>3
  <2> QED
    BY <2>8, <2>9
<1> QED
  BY <1>1, <1>2

\* So does the end of a job, with its event.
LEMMA JobEndWakes ==
    ASSUME NEW t, TypedTables(t), Patient(t), NEW j \in Jobs
    PROVE  LET u == EmitJobEnd(t, j) IN
           TypedTables(u) /\ Patient(u) /\ WokenInto(t.runs, u.runs)
<1>1. <<"end of", j>> \in Events
  BY Zenon DEF Events
<1>2. WokenInto(t.runs, t.runs)
  BY DEF WokenInto
<1> QED
  BY <1>1, <1>2, SignalWakes DEF EmitJobEnd

-----------------------------------------------------------------------------
(* The transactions of the store *)

\* The tables of a state that satisfies the invariant.
LEMMA TablesNow ==
    ASSUME TypeOK, Waits
    PROVE  /\ TypedTables(Tables) /\ Patient(Tables) /\ TypedRuns(runs)
           /\ Tables.runs = runs /\ Tables.completed = completed /\ Tables.named = named /\ Tables.clock = clock
<1>1. /\ DOMAIN Tables = {"runs", "completed", "named", "clock"}
      /\ Tables.runs = runs /\ Tables.completed = completed /\ Tables.named = named /\ Tables.clock = clock
  BY DEF Tables
<1>2. TypedRuns(runs)
  BY DEF TypeOK, StoreTypeOK, TypedRuns
<1>3. TypedTables(Tables)
  BY <1>1, <1>2 DEF TypeOK, StoreTypeOK, TypedTables
<1>4. Patient(Tables)
  BY <1>1 DEF TypeOK, Waits, NoLostWakeUp, Patient
<1> QED
  BY <1>1, <1>2, <1>3, <1>4

\* What a transaction writes is what the tables are then.
LEMMA TablesThen ==
    ASSUME NEW t, TypedTables(t), Patient(t), Write(t), UNCHANGED seqOf,
           ledger' \subseteq Jobs \ Local, started' \in [Jobs -> Seq(Nat)]
    PROVE  StoreTypeOK' /\ Waits'
<1>1. StoreTypeOK'
  BY DEF Write, TypedTables, TypedRuns, StoreTypeOK
<1>2. Waits'
  BY DEF Write, Patient, Waits, NoLostWakeUp
<1> QED
  BY <1>1, <1>2

\* Tables where only the runs differ, and no new one waits.
LEMMA TablesWith ==
    ASSUME TypeOK, Waits, NEW rs, TypedRuns(rs),
           \A k \in DOMAIN rs : rs[k].state = "WAITING" => k \in DOMAIN runs /\ rs[k] = runs[k]
    PROVE  /\ TypedTables([Tables EXCEPT !.runs = rs]) /\ Patient([Tables EXCEPT !.runs = rs])
           /\ [Tables EXCEPT !.runs = rs].runs = rs
<1> DEFINE t == [Tables EXCEPT !.runs = rs]
<1>1. DOMAIN t = DOMAIN Tables /\ t.runs = rs /\ t.completed = completed /\ t.named = named /\ t.clock = clock
  BY TablesNow DEF TypedTables
<1>2. TypedTables(t)
  BY <1>1, TablesNow DEF TypedTables
<1> HIDE DEF t
<1>3. Patient(t)
  BY <1>1, TablesNow DEF Patient
<1> QED
  BY <1>1, <1>2, <1>3 DEF t

\* An intent becomes a run once, released if what it waits for has happened.
LEMMA ImportDoes ==
    ASSUME TypeOK, Waits, ledger = DOMAIN runs \ Local, UNCHANGED seqOf,
           NEW j \in Jobs \ Local, NEW seq \in Nat, j \in Timed \/ seq = seqOf[j],
           NEW instance \in BOOLEAN, importIntent(j, seq, instance)
    PROVE  /\ StoreTypeOK' /\ Waits' /\ UNCHANGED started /\ ledger' = ledger \cup {j}
           /\ DOMAIN runs' = DOMAIN runs \cup {j} /\ \A k \in DOMAIN runs : runs'[k] = runs[k]
           /\ j \notin DOMAIN runs => \E released \in BOOLEAN :
                 runs'[j] = NewRun(j, released, seq, instance) /\ (released => j \notin Timed) /\ (~released => HasCondition(j))
<1>1. CASE j \in DOMAIN runs
  <2>1. UNCHANGED storeVars
    BY <1>1 DEF importIntent, storeVars
  <2>2. StoreTypeOK'
    BY <2>1 DEF TypeOK, StoreTypeOK, storeVars
  <2>3. Waits'
    BY <2>1 DEF Waits, NoLostWakeUp, storeVars
  <2> QED
    BY <1>1, <2>1, <2>2, <2>3 DEF storeVars
<1>2. CASE j \notin DOMAIN runs
  <2> DEFINE released == AlreadyReleased(j, seq)
             r == NewRun(j, released, seq, instance)
  <2>1. runs' = WithRun(j, r) /\ ledger' = ledger \cup {j} /\ UNCHANGED <<completed, named, clock, started>>
    BY <1>2 DEF importIntent
  <2>2. released \in BOOLEAN
    BY DEF AlreadyReleased
  <2>3. (released => j \notin Timed) /\ (~released => HasCondition(j))
    BY DEF AlreadyReleased, HasCondition
  <2>4. r \in Run /\ r.state = (IF released THEN "QUEUED" ELSE "WAITING") /\ r.waitSeq = seq
    BY <2>2, NewRunIs
  <2>5. DOMAIN runs' = DOMAIN runs \cup {j} /\ runs'[j] = r /\ \A k \in DOMAIN runs : runs'[k] = runs[k]
    BY <1>2, <2>1 DEF WithRun
  <2>6. ~released => /\ Accepts[j] # {} => seq = seqOf[j]
                     /\ After[j] \notin completed
                     /\ \A e \in Accepts[j] : named[e] <= seqOf[j]
    <3>1. \A e \in Accepts[j] : e \in Events
      BY DEF Events
    <3>2. None \notin completed
      BY OnePredecessor DEF TypeOK, StoreTypeOK
    <3>3. \A e \in Accepts[j] : named[e] \in Nat
      BY <3>1 DEF TypeOK, StoreTypeOK
    <3> QED
      BY <3>2, <3>3, OneCondition DEF AlreadyReleased
  <2> HIDE DEF r, released
  <2>7. StoreTypeOK'
    BY <2>1, <2>4, <2>5 DEF TypeOK, StoreTypeOK
  <2>8. Waits'
    BY <2>1, <2>4, <2>5, <2>6 DEF Waits, NoLostWakeUp
  <2> QED
    BY <1>2, <2>1, <2>2, <2>3, <2>5, <2>7, <2>8 DEF r
<1> QED
  BY <1>1, <1>2

\* An event is signalled.
LEMMA RaiseDoes ==
    ASSUME TypeOK, Waits, UNCHANGED seqOf, NEW e \in Events, importNamedEvent(e)
    PROVE  StoreTypeOK' /\ Waits' /\ UNCHANGED <<ledger, started>> /\ WokenInto(runs, runs')
<1>1. TypedTables(Signal(Tables, e)) /\ Patient(Signal(Tables, e)) /\ WokenInto(runs, Signal(Tables, e).runs)
  BY TablesNow, SignalWakes
<1>2. Write(Signal(Tables, e)) /\ UNCHANGED <<ledger, started>>
  BY DEF importNamedEvent
<1>3. ledger' \subseteq Jobs \ Local /\ started' \in [Jobs -> Seq(Nat)]
  BY <1>2 DEF TypeOK, StoreTypeOK
<1> QED
  BY <1>1, <1>2, <1>3, TablesThen DEF Write

\* A run ends in this state, at this step, and others that waited may be released.
Ending(j, n, state) ==
    /\ DOMAIN runs' = DOMAIN runs /\ runs'[j] = Ended(j, n, state)[j]
    /\ \A k \in DOMAIN runs \ {j} :
          runs'[k] = runs[k] \/ (runs[k].state = "WAITING" /\ k \notin Timed /\ runs'[k] = Released(runs[k]))

\* The end of a run, whatever it signals.
LEMMA EndingDoes ==
    ASSUME TypeOK, Waits, UNCHANGED <<ledger, started, seqOf>>,
           NEW j \in DOMAIN runs, NEW n \in Nat, NEW state \in {"COMPLETED", "FAILED", "INTERRUPTED"},
           \/ Write(EndedTables(j, n, state))
           \/ Write(EmitJobEnd(EndedTables(j, n, state), j))
           \/ Write(EmitJobEnd(EmitCompletion(EndedTables(j, n, state), j), j))
    PROVE  StoreTypeOK' /\ Waits' /\ Ending(j, n, state)
<1> DEFINE rs == Ended(j, n, state)
           t == EndedTables(j, n, state)
           u == EmitJobEnd(t, j)
           v == EmitCompletion(t, j)
           w == EmitJobEnd(v, j)
<1>1. /\ TypedRuns(rs) /\ DOMAIN rs = DOMAIN runs /\ rs[j].state = state
      /\ \A k \in DOMAIN runs \ {j} : rs[k] = runs[k]
  BY TablesNow, EndedRun
<1>2. TypedTables(t) /\ Patient(t) /\ t.runs = rs
  BY <1>1, TablesWith DEF EndedTables
<1>3. j \in Jobs /\ WokenInto(rs, rs)
  BY <1>1 DEF WokenInto, TypedRuns
<1> HIDE DEF rs, t
<1>4. TypedTables(u) /\ Patient(u) /\ WokenInto(rs, u.runs)
  BY <1>2, <1>3, JobEndWakes
<1>5. TypedTables(v) /\ Patient(v) /\ WokenInto(rs, v.runs)
  BY <1>2, <1>3, CompletionWakes
<1> HIDE DEF u, v
<1>6. TypedTables(w) /\ Patient(w) /\ WokenInto(rs, w.runs)
  BY <1>1, <1>3, <1>5, JobEndWakes, WokenTwice
<1> HIDE DEF w
<1>7. ASSUME NEW x, TypedTables(x), Patient(x), WokenInto(rs, x.runs), Write(x)
      PROVE  StoreTypeOK' /\ Waits' /\ Ending(j, n, state)
  <2>1. ledger' \subseteq Jobs \ Local /\ started' \in [Jobs -> Seq(Nat)]
    BY DEF TypeOK, StoreTypeOK
  <2>2. StoreTypeOK' /\ Waits'
    BY <1>7, <2>1, TablesThen
  <2>3. runs' = x.runs
    BY <1>7 DEF Write
  <2>4. runs'[j] = rs[j]
    BY <1>1, <1>7, <2>3 DEF WokenInto
  <2> QED
    BY <1>1, <1>7, <2>2, <2>3, <2>4 DEF WokenInto, Ending, rs
<1> QED
  BY <1>2, <1>3, <1>4, <1>5, <1>6, <1>7 DEF t, u, v, w

\* A step is recorded: the next one is ready, or the run ends.
Advanced(j, n) ==
    [runs EXCEPT ![j].state = "QUEUED", ![j].steps = WithStep(WithStep(@, n, "COMPLETED"), n + 1, "READY")]
LEMMA RecordedDoes ==
    ASSUME TypeOK, Waits, UNCHANGED seqOf, NEW j \in DOMAIN runs, NEW n \in Nat, NEW how, Recorded(j, n, how)
    PROVE  /\ StillRuns(j, n) /\ UNCHANGED <<ledger, started>>
           /\ \/ n \in 1 .. Len(runs[j].steps) - 1 /\ runs' = Advanced(j, n) /\ UNCHANGED <<completed, named, clock>>
              \/ /\ StoreTypeOK' /\ Waits'
                 /\ (Ending(j, n, "COMPLETED") /\ n = Len(runs[j].steps)) \/ Ending(j, n, "FAILED")
<1>1. CASE advance(j, n)
  BY <1>1 DEF advance, Advanced
<1>2. CASE n = Len(runs[j].steps) /\ finish(j, n, TRUE)
  BY <1>2, EndingDoes DEF finish
<1>3. CASE finish(j, n, FALSE)
  BY <1>3, EndingDoes DEF finish
<1>4. CASE fail(j, n)
  BY <1>4, EndingDoes DEF fail
<1> QED
  BY <1>1, <1>2, <1>3, <1>4 DEF Recorded

\* One run changes, and does not wait.
LEMMA RunChanges ==
    ASSUME TypeOK, Waits, NEW j \in DOMAIN runs, NEW state \in RunState, NEW steps \in Seq(StepState),
           runs' = [[runs EXCEPT ![j].state = state] EXCEPT ![j].steps = steps], state # "WAITING",
           UNCHANGED <<ledger, completed, named, clock, seqOf>>, started' \in [Jobs -> Seq(Nat)]
    PROVE  /\ StoreTypeOK' /\ Waits' /\ DOMAIN runs' = DOMAIN runs
           /\ runs'[j].state = state /\ runs'[j].steps = steps
           /\ \A k \in DOMAIN runs \ {j} : runs'[k] = runs[k]
<1> DEFINE r == [[runs[j] EXCEPT !.state = state] EXCEPT !.steps = steps]
<1>1. TypedRuns(runs) /\ runs[j] \in Run
  BY TablesNow DEF TypedRuns
<1>2. runs' = [runs EXCEPT ![j] = r]
  OBVIOUS
<1>3. r \in Run /\ r.state = state /\ r.steps = steps
  BY <1>1 DEF Run
<1> HIDE DEF r
<1>4. /\ DOMAIN runs' = DOMAIN runs /\ runs'[j] = r
      /\ \A k \in DOMAIN runs \ {j} : runs'[k] = runs[k]
  BY <1>2
<1>5. StoreTypeOK'
  BY <1>1, <1>3, <1>4 DEF TypeOK, StoreTypeOK, TypedRuns
<1>6. Waits'
  BY <1>3, <1>4 DEF Waits, NoLostWakeUp
<1> QED
  BY <1>3, <1>4, <1>5, <1>6

\* The states of the steps, with one replaced.
LEMMA StepSet ==
    ASSUME NEW steps \in Seq(StepState), NEW n \in Nat, NEW state \in StepState
    PROVE  /\ WithStep(steps, n, state) \in Seq(StepState) /\ Len(WithStep(steps, n, state)) = Len(steps)
           /\ \A i \in 1 .. Len(steps) : WithStep(steps, n, state)[i] = IF i = n THEN state ELSE steps[i]
BY DEF WithStep

\* The steps of a run that exists.
LEMMA StepsThere ==
    ASSUME TypeOK, Progress, NEW j \in DOMAIN runs
    PROVE  /\ j \in Jobs /\ Steps[j] \in Nat /\ runs[j] \in Run /\ runs[j].steps \in Seq(StepState)
           /\ Len(runs[j].steps) = Steps[j] /\ DOMAIN runs[j].steps = 1 .. Steps[j]
           /\ started[j] \in Seq(Nat) /\ Len(started[j]) \in Nat
<1>1. j \in Jobs /\ runs[j] \in Run /\ started[j] \in Seq(Nat)
  BY DEF TypeOK, StoreTypeOK
<1>2. Steps[j] \in Nat
  BY <1>1, OneCondition
<1>3. runs[j].steps \in Seq(StepState)
  BY <1>1 DEF Run
<1>4. Len(runs[j].steps) = Steps[j]
  BY DEF Progress
<1> QED
  BY <1>1, <1>2, <1>3, <1>4

\* A queued run has one step that is ready: the one behind those that were started.
LEMMA ReadyStep ==
    ASSUME TypeOK, Progress, NEW j \in DOMAIN runs, runs[j].state = "QUEUED"
    PROVE  StepIn(j, "READY") = IF Steps[j] = 0 THEN 0 ELSE Len(started[j]) + 1
<1> DEFINE n == Len(started[j])
<1>1. n \in Nat /\ Steps[j] \in Nat /\ DOMAIN runs[j].steps = 1 .. Steps[j]
  BY StepsThere
<1>2. n < StepsOf(j) /\ \A i \in 1 .. Steps[j] :
         runs[j].steps[i] = IF i <= n THEN "COMPLETED" ELSE IF i = n + 1 THEN "READY" ELSE "PENDING"
  BY <1>1 DEF Progress, AtStep
<1> HIDE DEF n
<1>3. CASE Steps[j] = 0
  <2>1. ~\E i \in DOMAIN runs[j].steps : runs[j].steps[i] = "READY"
    BY <1>1, <1>3
  <2> QED
    BY <1>3, <2>1 DEF StepIn
<1>4. CASE Steps[j] # 0
  <2>1. n + 1 \in 1 .. Steps[j] /\ runs[j].steps[n + 1] = "READY"
    BY <1>1, <1>2, <1>4 DEF StepsOf
  <2>2. \A i \in 1 .. Steps[j] : runs[j].steps[i] = "READY" => i = n + 1
    BY <1>1, <1>2
  <2>3. StepIn(j, "READY") = CHOOSE i \in DOMAIN runs[j].steps : runs[j].steps[i] = "READY"
    BY <1>1, <2>1 DEF StepIn
  <2> QED
    BY <1>1, <1>4, <2>1, <2>2, <2>3 DEF n
<1> QED
  BY <1>3, <1>4

\* A running run has one step that runs: the last that was started.
LEMMA RunningStep ==
    ASSUME TypeOK, Progress, NEW j \in DOMAIN runs, runs[j].state = "RUNNING"
    PROVE  /\ StepIn(j, "RUNNING") = IF Steps[j] = 0 THEN 0 ELSE Len(started[j])
           /\ \A i \in 1 .. Steps[j] : runs[j].steps[i] = "RUNNING" => i = Len(started[j])
<1> DEFINE n == Len(started[j])
<1>1. n \in Nat /\ Steps[j] \in Nat /\ DOMAIN runs[j].steps = 1 .. Steps[j] /\ j \in Jobs
  BY StepsThere
<1>2. 1 <= n /\ n <= StepsOf(j) /\ \A i \in 1 .. Steps[j] :
         runs[j].steps[i] = IF i <= n - 1 THEN "COMPLETED" ELSE IF i = (n - 1) + 1 THEN "RUNNING" ELSE "PENDING"
  BY <1>1 DEF Progress, AtStep
<1> HIDE DEF n
<1>3. \A i \in 1 .. Steps[j] : runs[j].steps[i] = "RUNNING" => i = n
  BY <1>1, <1>2
<1>4. CASE Steps[j] = 0
  <2>1. ~\E i \in DOMAIN runs[j].steps : runs[j].steps[i] = "RUNNING"
    BY <1>1, <1>4
  <2> QED
    BY <1>1, <1>3, <1>4, <2>1 DEF StepIn, n
<1>5. CASE Steps[j] # 0
  <2>1. n \in 1 .. Steps[j] /\ runs[j].steps[n] = "RUNNING"
    BY <1>1, <1>2, <1>5 DEF StepsOf
  <2>2. StepIn(j, "RUNNING") = CHOOSE i \in DOMAIN runs[j].steps : runs[j].steps[i] = "RUNNING"
    BY <1>1, <2>1 DEF StepIn
  <2> QED
    BY <1>1, <1>3, <1>5, <2>1, <2>2 DEF n
<1> QED
  BY <1>4, <1>5

\* A step that runs is the last started, of a run that runs.
LEMMA StillRunsIs ==
    ASSUME TypeOK, StepsConsistent, Progress, NEW j \in Jobs, NEW n \in IF Steps[j] = 0 THEN {0} ELSE 1 .. Steps[j],
           StillRuns(j, n)
    PROVE  /\ j \in DOMAIN runs /\ runs[j].state = "RUNNING" /\ n \in Nat
           /\ n = IF Steps[j] = 0 THEN 0 ELSE Len(started[j])
<1>1. j \in DOMAIN runs
  BY DEF StillRuns, IsIn
<1>2. Steps[j] \in Nat /\ DOMAIN runs[j].steps = 1 .. Steps[j] /\ runs[j] \in Run /\ Len(runs[j].steps) = Steps[j]
  BY <1>1, StepsThere
<1>3. CASE Steps[j] = 0
  BY <1>1, <1>3 DEF StillRuns, IsIn
<1>4. CASE Steps[j] # 0
  <2>1. n \in 1 .. Steps[j] /\ runs[j].steps[n] = "RUNNING" /\ n \in Nat
    BY <1>1, <1>2, <1>4 DEF StillRuns
  <2>2. ASSUME NEW current \in {"READY", "FAILED", "INTERRUPTED"}, NEW rest \in {"PENDING", "SKIPPED"}
        PROVE  ~Stopped(runs[j].steps, current, rest)
    <3>1. \A done \in 0 .. Len(runs[j].steps) - 1 : ~AtStep(runs[j].steps, done, current, rest)
      BY <1>2, <2>1 DEF AtStep
    <3> QED
      BY <1>2, <2>1, <3>1 DEF Stopped
  <2>3. ~AtStep(runs[j].steps, Len(runs[j].steps), "COMPLETED", "COMPLETED")
    BY <1>2, <2>1 DEF AtStep
  <2>4. ~\A i \in DOMAIN runs[j].steps : runs[j].steps[i] = "PENDING"
    BY <1>2, <2>1
  <2>5. runs[j].state \in RunState
    BY <1>2 DEF Run
  <2>6. runs[j].state = "RUNNING"
    BY <1>1, <2>2, <2>3, <2>4, <2>5 DEF StepsConsistent, RunState, Final
  <2> QED
    BY <1>1, <1>4, <2>1, <2>6, RunningStep
<1> QED
  BY <1>3, <1>4

-----------------------------------------------------------------------------
(* The steps of a run, from its import to its end *)

Pending(steps) == \A i \in DOMAIN steps : steps[i] = "PENDING"
Finished(steps) == AtStep(steps, Len(steps), "COMPLETED", "COMPLETED")

\* StepsConsistent of one run, and how many of its steps were started.
Shape(j, r, n) ==
    /\ r \in Run /\ Len(r.steps) = Steps[j] /\ n \in Nat /\ n <= StepsOf(j)
    /\ r.state \in {"WAITING", "RELEASING"} => Pending(r.steps) /\ n = 0 /\ Steps[j] > 0
    /\ r.state = "QUEUED" => n < StepsOf(j) /\ AtStep(r.steps, n, "READY", "PENDING")
    /\ r.state = "RUNNING" => 1 <= n /\ AtStep(r.steps, n - 1, "RUNNING", "PENDING")
    /\ r.state = "COMPLETED" => Finished(r.steps)
    /\ r.state = "FAILED" => Stopped(r.steps, "FAILED", "SKIPPED")
    /\ r.state = "INTERRUPTED" => Stopped(r.steps, "INTERRUPTED", "SKIPPED")
    /\ r.state = "DELETED" => \/ Pending(r.steps) \/ Finished(r.steps)
                              \/ Stopped(r.steps, "FAILED", "SKIPPED")
                              \/ Stopped(r.steps, "INTERRUPTED", "SKIPPED")

\* That of every run is what the invariant says of the steps.
LEMMA ShapeNow ==
    ASSUME TypeOK, StepsConsistent, Progress, NEW j \in DOMAIN runs
    PROVE  Shape(j, runs[j], Len(started[j]))
<1>1. runs[j] \in Run /\ j \in Jobs /\ Len(runs[j].steps) = Steps[j] /\ Len(started[j]) \in Nat /\ started[j] \in Seq(Nat)
  BY StepsThere
<1>2. Len(started[j]) <= StepsOf(j)
  BY <1>1 DEF Progress
<1>3. runs[j].state \in {"WAITING", "RELEASING"} => started[j] = <<>> /\ Steps[j] > 0
  BY DEF Progress
<1>4. /\ runs[j].state = "QUEUED" =>
             Len(started[j]) < StepsOf(j) /\ AtStep(runs[j].steps, Len(started[j]), "READY", "PENDING")
      /\ runs[j].state = "RUNNING" =>
             1 <= Len(started[j]) /\ AtStep(runs[j].steps, Len(started[j]) - 1, "RUNNING", "PENDING")
  BY DEF Progress
<1>5. /\ runs[j].state \in {"WAITING", "RELEASING"} => Pending(runs[j].steps)
      /\ runs[j].state = "COMPLETED" => Finished(runs[j].steps)
      /\ runs[j].state = "FAILED" => Stopped(runs[j].steps, "FAILED", "SKIPPED")
      /\ runs[j].state = "INTERRUPTED" => Stopped(runs[j].steps, "INTERRUPTED", "SKIPPED")
      /\ runs[j].state = "DELETED" => \/ Pending(runs[j].steps) \/ Finished(runs[j].steps)
                                      \/ Stopped(runs[j].steps, "FAILED", "SKIPPED")
                                      \/ Stopped(runs[j].steps, "INTERRUPTED", "SKIPPED")
  BY DEF StepsConsistent, Pending, Finished
<1> QED
  BY <1>1, <1>2, <1>3, <1>4, <1>5 DEF Shape

\* And conversely.
LEMMA ShapeThen ==
    ASSUME StoreTypeOK', \A j \in DOMAIN runs' : Shape(j, runs'[j], Len(started'[j])),
           \A j \in Jobs : /\ \A i \in DOMAIN started'[j] : started'[j][i] = i
                           /\ Len(started'[j]) <= StepsOf(j),
           \A j \in Jobs \ (DOMAIN runs' \cup old') : started'[j] = <<>>
    PROVE  StepsConsistent' /\ Progress'
<1>1. ASSUME NEW j \in DOMAIN runs'
      PROVE  /\ Len(runs'[j].steps) = Steps[j]
             /\ runs'[j].state \in {"WAITING", "RELEASING"} => started'[j] = <<>> /\ Steps[j] > 0
             /\ runs'[j].state = "QUEUED" =>
                   Len(started'[j]) < StepsOf(j) /\ AtStep(runs'[j].steps, Len(started'[j]), "READY", "PENDING")
             /\ runs'[j].state = "RUNNING" =>
                   1 <= Len(started'[j]) /\ AtStep(runs'[j].steps, Len(started'[j]) - 1, "RUNNING", "PENDING")
  <2>1. started'[j] \in Seq(Nat)
    BY DEF StoreTypeOK
  <2> QED
    BY <2>1 DEF Shape
<1>2. Progress'
  BY <1>1 DEF Progress
<1>3. ASSUME NEW j \in DOMAIN runs'
      PROVE  LET steps == runs'[j].steps
                 waiting == \A i \in DOMAIN steps : steps[i] = "PENDING"
                 over == \/ AtStep(steps, Len(steps), "COMPLETED", "COMPLETED")
                         \/ Stopped(steps, "FAILED", "SKIPPED")
                         \/ Stopped(steps, "INTERRUPTED", "SKIPPED") IN
             CASE runs'[j].state \in {"WAITING", "RELEASING"} -> waiting
               [] runs'[j].state = "QUEUED" -> Stopped(steps, "READY", "PENDING")
               [] runs'[j].state = "RUNNING" -> Stopped(steps, "RUNNING", "PENDING")
               [] runs'[j].state = "COMPLETED" -> AtStep(steps, Len(steps), "COMPLETED", "COMPLETED")
               [] runs'[j].state = "FAILED" -> Stopped(steps, "FAILED", "SKIPPED")
               [] runs'[j].state = "INTERRUPTED" -> Stopped(steps, "INTERRUPTED", "SKIPPED")
               [] runs'[j].state = "DELETED" -> waiting \/ over
  <2> DEFINE r == runs'[j]
             n == Len(started'[j])
  <2>1. Shape(j, r, n) /\ r \in Run /\ r.state \in RunState /\ r.steps \in Seq(StepState)
    BY DEF StoreTypeOK, Run
  <2> HIDE DEF r, n
  <2>2. Len(r.steps) = 0 => r.steps = <<>>
    BY <2>1
  <2>3. r.state = "QUEUED" => Stopped(r.steps, "READY", "PENDING")
    BY <2>1, <2>2 DEF Shape, Stopped, StepsOf
  <2>4. r.state = "RUNNING" => Stopped(r.steps, "RUNNING", "PENDING")
    BY <2>1, <2>2 DEF Shape, Stopped, StepsOf
  <2>5. r.state \in {"WAITING", "RELEASING", "QUEUED", "RUNNING", "COMPLETED", "FAILED", "INTERRUPTED", "DELETED"}
    BY <2>1 DEF RunState, Final
  <2>6. r.state \in {"WAITING", "RELEASING"} => \A i \in DOMAIN r.steps : r.steps[i] = "PENDING"
    BY <2>1 DEF Shape, Pending
  <2>7. /\ r.state = "COMPLETED" => AtStep(r.steps, Len(r.steps), "COMPLETED", "COMPLETED")
        /\ r.state = "FAILED" => Stopped(r.steps, "FAILED", "SKIPPED")
        /\ r.state = "INTERRUPTED" => Stopped(r.steps, "INTERRUPTED", "SKIPPED")
        /\ r.state = "DELETED" => \/ \A i \in DOMAIN r.steps : r.steps[i] = "PENDING"
                                  \/ AtStep(r.steps, Len(r.steps), "COMPLETED", "COMPLETED")
                                  \/ Stopped(r.steps, "FAILED", "SKIPPED")
                                  \/ Stopped(r.steps, "INTERRUPTED", "SKIPPED")
    BY <2>1 DEF Shape, Pending, Finished
  <2> QED
    BY <2>3, <2>4, <2>5, <2>6, <2>7 DEF r
<1>4. StepsConsistent'
  BY <1>3 DEF StepsConsistent, AtStep, Stopped
<1> QED
  BY <1>2, <1>4

\* A run that waits is released at its first step.
LEMMA ReleasedShape ==
    ASSUME NEW j \in Jobs, NEW r, NEW n, Shape(j, r, n), r.state \in {"WAITING", "RELEASING"}
    PROVE  Shape(j, Released(r), n)
<1>1. r \in Run /\ r.steps \in Seq(StepState) /\ Len(r.steps) = Steps[j] /\ Steps[j] \in Nat /\ Steps[j] > 0 /\ n = 0
      /\ \A i \in 1 .. Steps[j] : r.steps[i] = "PENDING"
  BY OneCondition DEF Shape, Run, Pending
<1>2. /\ Released(r) \in Run /\ Released(r).state = "QUEUED" /\ Len(Released(r).steps) = Steps[j]
      /\ \A i \in 1 .. Steps[j] : Released(r).steps[i] = IF i = 1 THEN "READY" ELSE "PENDING"
  BY <1>1, ReleasedRun
<1>3. Released(r).steps \in Seq(StepState)
  BY <1>2 DEF Run
<1>4. AtStep(Released(r).steps, 0, "READY", "PENDING")
  BY <1>1, <1>2, <1>3 DEF AtStep
<1> QED
  BY <1>1, <1>2, <1>4 DEF Shape, StepsOf

\* A run comes in, queued or waiting.
LEMMA NewShape ==
    ASSUME NEW j \in Jobs, NEW released \in BOOLEAN, NEW seq \in Nat, NEW instance \in BOOLEAN,
           ~released => Steps[j] > 0
    PROVE  Shape(j, NewRun(j, released, seq, instance), 0)
<1> DEFINE r == NewRun(j, released, seq, instance)
<1>1. /\ r \in Run /\ r.state = (IF released THEN "QUEUED" ELSE "WAITING") /\ Len(r.steps) = Steps[j]
      /\ \A i \in 1 .. Steps[j] : r.steps[i] = IF i = 1 /\ released THEN "READY" ELSE "PENDING"
  BY NewRunIs
<1> HIDE DEF r
<1>2. Steps[j] \in Nat /\ r.steps \in Seq(StepState)
  BY <1>1, OneCondition DEF Run
<1>3. released => AtStep(r.steps, 0, "READY", "PENDING")
  BY <1>1, <1>2 DEF AtStep
<1>4. ~released => Pending(r.steps)
  BY <1>1, <1>2 DEF Pending
<1>5. Shape(j, r, 0)
  BY <1>1, <1>2, <1>3, <1>4 DEF Shape, StepsOf
<1> QED
  BY <1>5 DEF r

\* The next step of a queued run is started.
LEMMA ClaimedShape ==
    ASSUME NEW j \in Jobs, NEW r, NEW n, Shape(j, r, n), r.state = "QUEUED",
           NEW u \in Run, u.state = "RUNNING",
           u.steps = WithStep(r.steps, IF Steps[j] = 0 THEN 0 ELSE n + 1, "RUNNING")
    PROVE  Shape(j, u, n + 1)
<1>1. r.steps \in Seq(StepState) /\ Len(r.steps) = Steps[j] /\ Steps[j] \in Nat /\ n \in Nat /\ n < StepsOf(j)
      /\ \A i \in 1 .. Steps[j] :
            r.steps[i] = IF i <= n THEN "COMPLETED" ELSE IF i = n + 1 THEN "READY" ELSE "PENDING"
  BY OneCondition DEF Shape, Run, AtStep
<1>2. /\ u.steps \in Seq(StepState) /\ Len(u.steps) = Steps[j]
      /\ \A i \in 1 .. Steps[j] : u.steps[i] = IF i = n + 1 THEN "RUNNING" ELSE r.steps[i]
  <2>1. PICK at \in Nat : at = IF Steps[j] = 0 THEN 0 ELSE n + 1
    BY <1>1
  <2>2. /\ WithStep(r.steps, at, "RUNNING") \in Seq(StepState) /\ Len(WithStep(r.steps, at, "RUNNING")) = Len(r.steps)
        /\ \A i \in 1 .. Len(r.steps) : WithStep(r.steps, at, "RUNNING")[i] = IF i = at THEN "RUNNING" ELSE r.steps[i]
    BY <1>1, StepSet DEF StepState
  <2>3. u.steps = WithStep(r.steps, at, "RUNNING")
    BY <2>1
  <2>4. \A i \in 1 .. Steps[j] : i = at <=> i = n + 1
    BY <1>1, <2>1
  <2> QED
    BY <1>1, <2>2, <2>3, <2>4
<1>3. AtStep(u.steps, (n + 1) - 1, "RUNNING", "PENDING")
  BY <1>1, <1>2 DEF AtStep
<1>4. n + 1 <= StepsOf(j)
  BY <1>1 DEF StepsOf
<1> QED
  BY <1>1, <1>2, <1>3, <1>4 DEF Shape

\* The step that ran is completed and the one behind it ready.
LEMMA AdvancedShape ==
    ASSUME NEW j \in Jobs, NEW r, NEW n \in 1 .. Steps[j] - 1, Shape(j, r, n), r.state = "RUNNING",
           NEW u \in Run, u.state = "QUEUED",
           u.steps = WithStep(WithStep(r.steps, n, "COMPLETED"), n + 1, "READY")
    PROVE  Shape(j, u, n)
<1>1. r.steps \in Seq(StepState) /\ Len(r.steps) = Steps[j] /\ Steps[j] \in Nat /\ n \in Nat
      /\ \A i \in 1 .. Steps[j] :
            r.steps[i] = IF i <= n - 1 THEN "COMPLETED" ELSE IF i = (n - 1) + 1 THEN "RUNNING" ELSE "PENDING"
  BY OneCondition DEF Shape, Run, AtStep
<1> DEFINE s == WithStep(r.steps, n, "COMPLETED")
<1>2. /\ s \in Seq(StepState) /\ Len(s) = Steps[j]
      /\ \A i \in 1 .. Steps[j] : s[i] = IF i = n THEN "COMPLETED" ELSE r.steps[i]
  BY <1>1, StepSet DEF StepState
<1> HIDE DEF s
<1>3. /\ u.steps \in Seq(StepState) /\ Len(u.steps) = Steps[j]
      /\ \A i \in 1 .. Steps[j] : u.steps[i] = IF i = n + 1 THEN "READY" ELSE s[i]
  <2>1. PICK at \in Nat : at = n + 1
    BY <1>1
  <2>2. /\ WithStep(s, at, "READY") \in Seq(StepState) /\ Len(WithStep(s, at, "READY")) = Len(s)
        /\ \A i \in 1 .. Len(s) : WithStep(s, at, "READY")[i] = IF i = at THEN "READY" ELSE s[i]
    BY <1>2, StepSet DEF StepState
  <2>3. u.steps = WithStep(s, at, "READY")
    BY <2>1 DEF s
  <2> QED
    BY <1>2, <2>1, <2>2, <2>3
<1>4. AtStep(u.steps, n, "READY", "PENDING")
  BY <1>1, <1>2, <1>3 DEF AtStep
<1> QED
  BY <1>1, <1>3, <1>4 DEF Shape, StepsOf

\* A run ends at the step that runs; with success, it is the last.
LEMMA EndedShape ==
    ASSUME TypedRuns(runs), NEW j \in DOMAIN runs, NEW n, Shape(j, runs[j], n), runs[j].state = "RUNNING",
           NEW state \in {"COMPLETED", "FAILED", "INTERRUPTED"},
           state = "COMPLETED" => Steps[j] = 0 \/ n = Steps[j]
    PROVE  Shape(j, Ended(j, IF Steps[j] = 0 THEN 0 ELSE n, state)[j], n)
<1> DEFINE at == IF Steps[j] = 0 THEN 0 ELSE n
           r == runs[j]
           u == Ended(j, at, state)[j]
<1>1. j \in Jobs /\ r.steps \in Seq(StepState) /\ Len(r.steps) = Steps[j] /\ Steps[j] \in Nat /\ n \in Nat
      /\ 1 <= n /\ n <= StepsOf(j) /\ at \in Nat
      /\ \A i \in 1 .. Steps[j] :
            r.steps[i] = IF i <= n - 1 THEN "COMPLETED" ELSE IF i = (n - 1) + 1 THEN "RUNNING" ELSE "PENDING"
  BY OneCondition DEF TypedRuns, Shape, Run, AtStep
<1>2. /\ u \in Run /\ u.state = state /\ Len(u.steps) = Steps[j]
      /\ \A i \in 1 .. Steps[j] :
            u.steps[i] = IF i = at THEN state ELSE IF r.steps[i] \in {"READY", "PENDING"} THEN "SKIPPED" ELSE r.steps[i]
  BY <1>1, EndedRun DEF TypedRuns
<1> HIDE DEF u, r
<1>3. u.steps \in Seq(StepState) /\ (Steps[j] = 0 => u.steps = <<>>)
  BY <1>1, <1>2 DEF Run
<1>4. \A i \in 1 .. Steps[j] :
         u.steps[i] = IF i <= n - 1 THEN "COMPLETED" ELSE IF i = (n - 1) + 1 THEN state ELSE "SKIPPED"
  BY <1>1, <1>2
<1>5. AtStep(u.steps, n - 1, state, "SKIPPED")
  BY <1>1, <1>2, <1>3, <1>4 DEF AtStep
<1>6. Stopped(u.steps, state, "SKIPPED")
  BY <1>1, <1>2, <1>3, <1>5 DEF Stopped, StepsOf
<1>7. state = "COMPLETED" => Finished(u.steps)
  BY <1>1, <1>2, <1>3, <1>4 DEF Finished, AtStep
<1>8. Shape(j, u, n)
  BY <1>1, <1>2, <1>6, <1>7 DEF Shape
<1> QED
  BY <1>8 DEF u

\* A run whose latest start has passed fails at its first step, before it started.
LEMMA ExpiredShape ==
    ASSUME TypedRuns(runs), NEW j \in DOMAIN runs, NEW n, Shape(j, runs[j], n), runs[j].state = "RELEASING"
    PROVE  Shape(j, Ended(j, 1, "FAILED")[j], n)
<1> DEFINE r == runs[j]
           u == Ended(j, 1, "FAILED")[j]
<1>1. j \in Jobs /\ r.steps \in Seq(StepState) /\ Len(r.steps) = Steps[j] /\ Steps[j] \in Nat /\ Steps[j] > 0 /\ n = 0
      /\ \A i \in 1 .. Steps[j] : r.steps[i] = "PENDING"
  BY OneCondition DEF TypedRuns, Shape, Run, Pending
<1>2. /\ u \in Run /\ u.state = "FAILED" /\ Len(u.steps) = Steps[j]
      /\ \A i \in 1 .. Steps[j] :
            u.steps[i] = IF i = 1 THEN "FAILED" ELSE IF r.steps[i] \in {"READY", "PENDING"} THEN "SKIPPED" ELSE r.steps[i]
  BY <1>1, EndedRun DEF TypedRuns
<1> HIDE DEF u, r
<1>3. u.steps \in Seq(StepState)
  BY <1>2 DEF Run
<1>4. AtStep(u.steps, 0, "FAILED", "SKIPPED")
  BY <1>1, <1>2, <1>3 DEF AtStep
<1>5. Stopped(u.steps, "FAILED", "SKIPPED")
  BY <1>1, <1>2, <1>3, <1>4 DEF Stopped
<1>6. Shape(j, u, n)
  BY <1>1, <1>2, <1>5 DEF Shape, StepsOf
<1> QED
  BY <1>6 DEF u

-----------------------------------------------------------------------------
(* The life of a run *)

\* How the state of a run may change in a step.
Moves(k) ==
    \/ runs'[k] = runs[k]
    \/ runs[k].state = "WAITING" /\ k \notin Timed /\ runs'[k].state = "QUEUED"
    \/ runs[k].state \in {"WAITING", "RELEASING"} /\ k \in Timed /\ runs'[k].state = "RELEASING"
    \/ /\ runs[k].state = "RELEASING" /\ runs'[k].state \in {"QUEUED", "FAILED"}
       /\ \E p \in Procs : pc[p] = "releasing" /\ job[p] = k
    \/ /\ runs[k].state = "QUEUED" /\ runs'[k].state = "RUNNING" /\ ~Busy(k)
       /\ Len(started'[k]) = Len(started[k]) + 1 /\ \A i \in Jobs \ {k} : started'[i] = started[i]
    \/ runs[k].state = "RUNNING" /\ runs'[k].state \in {"QUEUED", "COMPLETED", "FAILED", "INTERRUPTED"}
    \/ runs[k].state \in {"COMPLETED", "FAILED", "INTERRUPTED"} /\ runs'[k].state = "DELETED"
    \/ runs[k].state = "WAITING" /\ runs'[k].state = "DELETED" /\ k \in cancelled'

\* Where a run that was not there can come from.
Arrives(k) ==
    /\ runs'[k].state \in {"WAITING", "QUEUED"} /\ (k \in Timed => runs'[k].state = "WAITING")
    /\ started' = started /\ UNCHANGED <<business, old, history>>
    /\ \/ k \in Local
       \/ \E p \in Procs : pc[p] = "claimed" /\ job[p] = k
       \/ \E p \in Procs : pc[p] = "reserved" /\ Succ[job[p]] = k

\* What a step makes of the store: it is typed and patient, the steps of its runs are
\* consistent, and each run comes, goes on or leaves as it may.
StoreStep ==
    /\ StoreTypeOK' /\ Waits' /\ StepsConsistent' /\ Progress' /\ ledger' = DOMAIN runs' \ Local
    /\ \A k \in DOMAIN runs \ DOMAIN runs' : \E p \in Procs : pc[p] = "removing" /\ k \in rows[p]
    /\ \A k \in DOMAIN runs' \ DOMAIN runs : Arrives(k)
    /\ \A k \in DOMAIN runs \cap DOMAIN runs' : Moves(k)

\* Runs that are there go on.
LEMMA RunsMove ==
    ASSUME IInv, StoreTypeOK', Waits', ledger' = ledger, old \subseteq old', DOMAIN runs' = DOMAIN runs,
           \A k \in DOMAIN runs : Moves(k) /\ Shape(k, runs'[k], Len(started'[k])),
           \A k \in Jobs : k \notin DOMAIN runs => started'[k] = started[k],
           \A k \in DOMAIN runs : \A i \in DOMAIN started'[k] : started'[k][i] = i
    PROVE  StoreStep
<1>1. \A k \in Jobs : /\ \A i \in DOMAIN started'[k] : started'[k][i] = i
                      /\ Len(started'[k]) <= StepsOf(k)
  BY DEF IInv, Progress, Shape
<1>2. \A k \in Jobs \ (DOMAIN runs' \cup old') : started'[k] = <<>>
  BY DEF IInv, Progress
<1>3. StepsConsistent' /\ Progress'
  BY <1>1, <1>2, ShapeThen
<1>4. ledger' = DOMAIN runs' \ Local
  BY DEF IInv, Origins
<1> QED
  BY <1>3, <1>4 DEF StoreStep

\* Nothing happens in the store.
LEMMA StoreRests ==
    ASSUME IInv, UNCHANGED <<runs, ledger, completed, named, started>>, clock' \in Nat, clock <= clock',
           seqOf' \in [Jobs -> Nat], old \subseteq old',
           \A j \in DOMAIN runs : seqOf'[j] = seqOf[j], \A j \in Jobs : seqOf'[j] <= clock'
    PROVE  StoreStep
<1>1. StoreTypeOK'
  BY DEF IInv, TypeOK, StoreTypeOK
<1>2. Waits'
  BY DEF IInv, Waits, NoLostWakeUp
<1>3. \A k \in DOMAIN runs : Moves(k) /\ Shape(k, runs'[k], Len(started'[k]))
  BY ShapeNow DEF IInv, Moves
<1>4. \A k \in DOMAIN runs : \A i \in DOMAIN started'[k] : started'[k][i] = i
  BY DEF IInv, Progress, TypeOK, StoreTypeOK
<1> QED
  BY <1>1, <1>2, <1>3, <1>4, RunsMove

\* A step that leaves the store alone.
LEMMA StoreUntouched ==
    ASSUME IInv, UNCHANGED <<storeVars, seqOf>>, old \subseteq old'
    PROVE  StoreStep
<1>1. clock \in Nat /\ seqOf \in [Jobs -> Nat] /\ \A j \in Jobs : seqOf[j] <= clock
  BY DEF IInv, TypeOK, StoreTypeOK, Waits
<1>2. UNCHANGED <<runs, ledger, completed, named, started, clock, seqOf>>
  BY DEF storeVars
<1> QED
  BY <1>1, <1>2, StoreRests

\* One run goes on, and others may be released.
LEMMA RunMoves ==
    ASSUME IInv, StoreTypeOK', Waits', UNCHANGED <<ledger, old>>, DOMAIN runs' = DOMAIN runs,
           NEW j \in DOMAIN runs, Moves(j), Shape(j, runs'[j], Len(started'[j])),
           \A i \in DOMAIN started'[j] : started'[j][i] = i,
           \A k \in DOMAIN runs \ {j} :
               runs'[k] = runs[k] \/ (runs[k].state = "WAITING" /\ k \notin Timed /\ runs'[k] = Released(runs[k])),
           \A k \in Jobs \ {j} : started'[k] = started[k]
    PROVE  StoreStep
<1>1. ASSUME NEW k \in DOMAIN runs PROVE Moves(k) /\ Shape(k, runs'[k], Len(started'[k]))
  <2>1. CASE k = j
    BY <2>1
  <2>2. CASE k # j
    <3>1. k \in Jobs /\ Shape(k, runs[k], Len(started[k])) /\ runs[k] \in Run
      BY ShapeNow DEF IInv, TypeOK, StoreTypeOK
    <3>2. CASE runs'[k] = runs[k]
      BY <2>2, <3>1, <3>2 DEF Moves
    <3>3. CASE runs[k].state = "WAITING" /\ k \notin Timed /\ runs'[k] = Released(runs[k])
      BY <2>2, <3>1, <3>3, ReleasedShape, ReleasedRun DEF Moves
    <3> QED
      BY <2>2, <3>2, <3>3
  <2> QED
    BY <2>1, <2>2
<1>2. \A k \in DOMAIN runs : \A i \in DOMAIN started'[k] : started'[k][i] = i
  BY DEF IInv, Progress, TypeOK, StoreTypeOK
<1>3. \A k \in Jobs : k \notin DOMAIN runs => started'[k] = started[k]
  OBVIOUS
<1> QED
  BY <1>1, <1>2, <1>3, RunsMove

\* A run comes in.
LEMMA RunArrives ==
    ASSUME IInv, StoreTypeOK', Waits', UNCHANGED <<started, old>>, NEW j \in Jobs,
           ledger' = (DOMAIN runs \cup {j}) \ Local,
           DOMAIN runs' = DOMAIN runs \cup {j}, \A k \in DOMAIN runs : runs'[k] = runs[k],
           j \notin DOMAIN runs => Arrives(j) /\ j \notin old /\ Shape(j, runs'[j], 0)
    PROVE  StoreStep
<1>1. \A k \in Jobs : /\ \A i \in DOMAIN started'[k] : started'[k][i] = i
                      /\ Len(started'[k]) <= StepsOf(k)
  BY DEF IInv, Progress
<1>2. \A k \in Jobs \ (DOMAIN runs' \cup old') : started'[k] = <<>>
  BY DEF IInv, Progress
<1>3. ASSUME NEW k \in DOMAIN runs' PROVE Shape(k, runs'[k], Len(started'[k]))
  <2>1. CASE k \in DOMAIN runs
    BY <2>1, ShapeNow DEF IInv
  <2>2. CASE k \notin DOMAIN runs
    <3>1. k = j /\ started[j] = <<>>
      BY <1>3, <2>2 DEF IInv, Progress
    <3> QED
      BY <2>2, <3>1
  <2> QED
    BY <2>1, <2>2
<1>4. StepsConsistent' /\ Progress'
  BY <1>1, <1>2, <1>3, ShapeThen
<1> QED
  BY <1>4 DEF StoreStep, Moves

\* Only the state of a run changes.
LEMMA StateChanges ==
    ASSUME TypeOK, Waits, NEW j \in DOMAIN runs, NEW state \in RunState, state # "WAITING",
           runs' = [runs EXCEPT ![j].state = state],
           UNCHANGED <<ledger, completed, named, clock, seqOf, started>>
    PROVE  /\ StoreTypeOK' /\ Waits' /\ DOMAIN runs' = DOMAIN runs
           /\ runs'[j] \in Run /\ runs'[j].state = state /\ runs'[j].steps = runs[j].steps
           /\ \A k \in DOMAIN runs \ {j} : runs'[k] = runs[k]
<1> DEFINE r == [runs[j] EXCEPT !.state = state]
<1>1. TypedRuns(runs) /\ runs[j] \in Run
  BY TablesNow DEF TypedRuns
<1>2. runs' = [runs EXCEPT ![j] = r]
  OBVIOUS
<1>3. r \in Run /\ r.state = state /\ r.steps = runs[j].steps
  BY <1>1 DEF Run
<1> HIDE DEF r
<1>4. /\ DOMAIN runs' = DOMAIN runs /\ runs'[j] = r
      /\ \A k \in DOMAIN runs \ {j} : runs'[k] = runs[k]
  BY <1>2
<1>5. StoreTypeOK'
  BY <1>1, <1>3, <1>4 DEF TypeOK, StoreTypeOK, TypedRuns
<1>6. Waits'
  BY <1>3, <1>4 DEF Waits, NoLostWakeUp
<1> QED
  BY <1>3, <1>4, <1>5, <1>6

\* What was started stays started.
LEMMA StartedNow ==
    ASSUME IInv, NEW j \in Jobs
    PROVE  /\ started[j] \in Seq(Nat) /\ \A i \in DOMAIN started[j] : started[j][i] = i
           /\ started \in [Jobs -> Seq(Nat)]
BY DEF IInv, TypeOK, StoreTypeOK, Progress

\* BP_JOB_DELETE: a job that waits, or is over.
LEMMA DeleteStep ==
    ASSUME IInv, NEW j \in Jobs, BP_JOB_DELETE(j)
    PROVE  StoreStep
<1>1. UNCHANGED <<seqOf, old>>
  BY DEF BP_JOB_DELETE
<1>2. CASE UNCHANGED storeVars
  BY <1>1, <1>2, StoreUntouched
<1>3. CASE deleteJob(j)
  <2>1. j \in DOMAIN runs /\ runs[j].state \in {"WAITING", "COMPLETED", "FAILED", "INTERRUPTED"}
        /\ runs' = [runs EXCEPT ![j].state = "DELETED"]
        /\ UNCHANGED <<ledger, completed, named, clock, started>>
    BY <1>3 DEF deleteJob, Deletable, IsIn
  <2>2. /\ StoreTypeOK' /\ Waits' /\ DOMAIN runs' = DOMAIN runs
        /\ runs'[j] \in Run /\ runs'[j].state = "DELETED" /\ runs'[j].steps = runs[j].steps
        /\ \A k \in DOMAIN runs \ {j} : runs'[k] = runs[k]
    BY <1>1, <2>1, StateChanges DEF IInv, RunState, Final
  <2>3. Shape(j, runs'[j], Len(started'[j]))
    BY <2>1, <2>2, ShapeNow DEF IInv, Shape
  <2>4. Moves(j)
    <3>1. runs[j].state = "WAITING" => j \in cancelled'
      BY <2>1 DEF BP_JOB_DELETE, IsIn
    <3> QED
      BY <2>1, <2>2, <3>1 DEF Moves
  <2> QED
    BY <1>1, <2>1, <2>2, <2>3, <2>4, RunMoves, StartedNow
<1> QED
  BY <1>2, <1>3 DEF BP_JOB_DELETE

\* BP_JOB_ABORT: the run ends at the step that runs.
LEMMA InterruptStep ==
    ASSUME IInv, NEW j \in Jobs, Interrupt(j)
    PROVE  StoreStep
<1>1. UNCHANGED <<seqOf, old, ledger, started>> /\ j \in DOMAIN runs /\ runs[j].state = "RUNNING"
      /\ Write(EmitJobEnd(EndedTables(j, StepIn(j, "RUNNING"), "INTERRUPTED"), j))
  BY DEF Interrupt, interruptQueued, IsIn, business
<1>2. PICK n \in Nat : n = StepIn(j, "RUNNING") /\ n = IF Steps[j] = 0 THEN 0 ELSE Len(started[j])
  BY <1>1, RunningStep, StepsThere DEF IInv
<1>3. StoreTypeOK' /\ Waits' /\ Ending(j, n, "INTERRUPTED")
  BY <1>1, <1>2, EndingDoes DEF IInv
<1>4. Shape(j, runs[j], Len(started[j])) /\ TypedRuns(runs)
  BY <1>1, ShapeNow, TablesNow DEF IInv
<1>5. Shape(j, runs'[j], Len(started'[j]))
  BY <1>1, <1>2, <1>3, <1>4, EndedShape DEF Ending
<1>6. runs'[j].state = "INTERRUPTED"
  BY <1>1, <1>3, <1>4, EndedRun DEF Ending
<1> QED
  BY <1>1, <1>3, <1>5, <1>6, RunMoves, StartedNow DEF Ending, Moves

\* Those who wait for the event are released.
LEMMA RaiseStep ==
    ASSUME IInv, NEW e \in Events, BP_EVENT_RAISE(e)
    PROVE  StoreStep
<1>1. UNCHANGED <<seqOf, old>> /\ importNamedEvent(e)
  BY DEF BP_EVENT_RAISE, business
<1>2. StoreTypeOK' /\ Waits' /\ UNCHANGED <<ledger, started>> /\ WokenInto(runs, runs')
  BY <1>1, RaiseDoes DEF IInv
<1>3. ASSUME NEW k \in DOMAIN runs PROVE Moves(k) /\ Shape(k, runs'[k], Len(started'[k]))
  <2>1. k \in Jobs /\ Shape(k, runs[k], Len(started[k])) /\ runs[k] \in Run
    BY ShapeNow DEF IInv, TypeOK, StoreTypeOK
  <2>2. CASE runs'[k] = runs[k]
    BY <1>2, <2>1, <2>2 DEF Moves
  <2>3. CASE runs[k].state = "WAITING" /\ k \notin Timed /\ runs'[k] = Released(runs[k])
    BY <1>2, <2>1, <2>3, ReleasedShape, ReleasedRun DEF Moves
  <2> QED
    BY <1>2, <2>2, <2>3 DEF WokenInto
<1>4. DOMAIN runs' = DOMAIN runs /\ DOMAIN runs \subseteq Jobs
  BY <1>2 DEF WokenInto, IInv, TypeOK, StoreTypeOK
<1>5. /\ \A k \in Jobs : k \notin DOMAIN runs => started'[k] = started[k]
      /\ \A k \in DOMAIN runs : \A i \in DOMAIN started'[k] : started'[k][i] = i
  BY <1>2, <1>4, StartedNow
<1> QED
  BY <1>1, <1>2, <1>3, <1>4, <1>5, RunsMove

\* A run without a job identity.
LEMMA EnqueueStep ==
    ASSUME IInv, NEW j \in Jobs, Enqueue(j)
    PROVE  StoreStep
<1>1. j \in Local /\ j \notin DOMAIN runs /\ runs' = WithRun(j, NewRun(j, TRUE, 0, FALSE))
      /\ UNCHANGED <<ledger, completed, named, clock, started, business, old, history>>
  BY DEF Enqueue, enqueue
<1>2. /\ Shape(j, NewRun(j, TRUE, 0, FALSE), 0) /\ NewRun(j, TRUE, 0, FALSE).state = "QUEUED"
      /\ NewRun(j, TRUE, 0, FALSE) \in Run
  <2>1. \A released, instance \in BOOLEAN, seq \in Nat :
           (~released => Steps[j] > 0) => Shape(j, NewRun(j, released, seq, instance), 0)
    BY NewShape
  <2>2. \A released, instance \in BOOLEAN, seq \in Nat :
           /\ NewRun(j, released, seq, instance) \in Run
           /\ NewRun(j, released, seq, instance).state = (IF released THEN "QUEUED" ELSE "WAITING")
    BY NewRunIs
  <2> QED
    BY <2>1, <2>2, 0 \in Nat
<1>3. DOMAIN runs' = DOMAIN runs \cup {j} /\ runs'[j] = NewRun(j, TRUE, 0, FALSE)
      /\ \A k \in DOMAIN runs : runs'[k] = runs[k]
  BY <1>1 DEF WithRun
<1>4. StoreTypeOK'
  BY <1>1, <1>2, <1>3 DEF IInv, TypeOK, StoreTypeOK
<1>5. Waits'
  BY <1>1, <1>2, <1>3 DEF IInv, Waits, NoLostWakeUp, business
<1>6. Arrives(j) /\ j \notin old
  BY <1>1, <1>2, <1>3, OneCondition DEF Arrives, IInv, Elapsed
<1>7. ledger' = (DOMAIN runs \cup {j}) \ Local
  BY <1>1 DEF IInv, Origins
<1> QED
  BY <1>1, <1>2, <1>3, <1>4, <1>5, <1>6, <1>7, RunArrives

\* The drain's import, and the scheduler's of a successor.
LEMMA ImportStep ==
    ASSUME IInv, NEW j \in Jobs \ Local, NEW seq \in Nat, NEW instance \in BOOLEAN, importIntent(j, seq, instance),
           UNCHANGED <<business, old, history>>, j \in Timed \/ seq = seqOf[j], j \in old => j \in DOMAIN runs,
           \/ \E p \in Procs : pc[p] = "claimed" /\ job[p] = j
           \/ \E p \in Procs : pc[p] = "reserved" /\ Succ[job[p]] = j
    PROVE  StoreStep
<1>1. /\ StoreTypeOK' /\ Waits' /\ UNCHANGED started /\ ledger' = ledger \cup {j}
      /\ DOMAIN runs' = DOMAIN runs \cup {j} /\ \A k \in DOMAIN runs : runs'[k] = runs[k]
      /\ j \notin DOMAIN runs => \E released \in BOOLEAN :
            runs'[j] = NewRun(j, released, seq, instance) /\ (released => j \notin Timed) /\ (~released => HasCondition(j))
  BY ImportDoes DEF IInv, Origins, business
<1>2. ledger' = (DOMAIN runs \cup {j}) \ Local
  BY <1>1 DEF IInv, Origins
<1>3. ASSUME j \notin DOMAIN runs PROVE Arrives(j) /\ j \notin old /\ Shape(j, runs'[j], 0)
  <2>1. PICK released \in BOOLEAN : /\ runs'[j] = NewRun(j, released, seq, instance)
                                    /\ (released => j \notin Timed) /\ (~released => HasCondition(j))
    BY <1>1, <1>3
  <2>2. ~released => Steps[j] > 0
    BY <2>1, OneCondition
  <2>3. Shape(j, runs'[j], 0) /\ runs'[j].state = (IF released THEN "QUEUED" ELSE "WAITING")
    BY <2>1, <2>2, NewShape, NewRunIs
  <2> QED
    BY <1>1, <1>3, <2>1, <2>3 DEF Arrives
<1> QED
  BY <1>1, <1>2, <1>3, RunArrives

\* The decision to start a timed job.
LEMMA BeginReleaseStep ==
    ASSUME IInv, NEW p \in Procs, BeginRelease(p)
    PROVE  StoreStep
<1>1. UNCHANGED <<seqOf, old>> /\ job[p] \in Timed \cap DOMAIN runs
  BY DEF BeginRelease, business, IInv, Places, Scheduling
<1>2. CASE UNCHANGED storeVars
  BY <1>1, <1>2, StoreUntouched
<1>3. CASE beginRelease(job[p])
  <2>1. PICK j \in Timed \cap DOMAIN runs : j = job[p]
    BY <1>1
  <2>2. runs[j].state \in {"WAITING", "RELEASING"} /\ runs' = [runs EXCEPT ![j].state = "RELEASING"]
        /\ UNCHANGED <<ledger, completed, named, clock, started>>
    BY <1>3, <2>1 DEF beginRelease, Decidable, IsIn
  <2>3. /\ StoreTypeOK' /\ Waits' /\ DOMAIN runs' = DOMAIN runs
        /\ runs'[j] \in Run /\ runs'[j].state = "RELEASING" /\ runs'[j].steps = runs[j].steps
        /\ \A k \in DOMAIN runs \ {j} : runs'[k] = runs[k]
    BY <1>1, <2>2, StateChanges DEF IInv, RunState
  <2>4. Shape(j, runs'[j], Len(started'[j]))
    BY <2>2, <2>3, ShapeNow DEF IInv, Shape
  <2>5. Moves(j) /\ j \in Jobs
    BY <2>2, <2>3 DEF Moves, IInv, TypeOK, StoreTypeOK
  <2> QED
    BY <1>1, <2>2, <2>3, <2>4, <2>5, RunMoves, StartedNow
<1> QED
  BY <1>2, <1>3 DEF BeginRelease

\* A timed job is released, or its latest start has passed.
LEMMA ReleaseStep ==
    ASSUME IInv, NEW p \in Procs, Release(p)
    PROVE  StoreStep
<1>1. UNCHANGED <<seqOf, old>> /\ job[p] \in Timed \cap DOMAIN runs /\ pc[p] = "releasing"
  BY DEF Release, business, IInv, Places, Scheduling
<1>2. CASE UNCHANGED storeVars
  BY <1>1, <1>2, StoreUntouched
<1>3. ASSUME NEW expired \in BOOLEAN, releaseTimed(job[p], expired) PROVE StoreStep
  <2>1. PICK j \in Timed \cap DOMAIN runs : j = job[p]
    BY <1>1
  <2>2. runs[j].state = "RELEASING" /\ UNCHANGED <<ledger, completed, named, clock, started>>
        /\ runs' = IF expired THEN Ended(j, 1, "FAILED") ELSE [runs EXCEPT ![j] = Released(@)]
    BY <1>3, <2>1 DEF releaseTimed, IsIn
  <2>3. j \in Jobs /\ runs[j] \in Run /\ TypedRuns(runs) /\ Shape(j, runs[j], Len(started[j]))
    BY ShapeNow, TablesNow DEF IInv, TypeOK, StoreTypeOK
  <2>4. /\ TypedRuns(runs') /\ DOMAIN runs' = DOMAIN runs /\ runs'[j].state \in {"QUEUED", "FAILED"}
        /\ \A k \in DOMAIN runs \ {j} : runs'[k] = runs[k]
        /\ Shape(j, runs'[j], Len(started[j]))
    <3>1. CASE expired
      BY <2>2, <2>3, <3>1, EndedRun, ExpiredShape
    <3>2. CASE ~expired
      <4>1. Released(runs[j]) \in Run /\ Released(runs[j]).state = "QUEUED" /\ Shape(j, Released(runs[j]), Len(started[j]))
        BY <2>2, <2>3, ReleasedRun, ReleasedShape
      <4> QED
        BY <2>2, <2>3, <3>2, <4>1 DEF TypedRuns
    <3> QED
      BY <3>1, <3>2
  <2>5. StoreTypeOK'
    BY <2>2, <2>4 DEF IInv, TypeOK, StoreTypeOK, TypedRuns
  <2>6. Waits'
    BY <1>1, <2>2, <2>4 DEF IInv, Waits, NoLostWakeUp
  <2>7. Moves(j)
    BY <1>1, <2>1, <2>2, <2>4 DEF Moves
  <2> QED
    BY <1>1, <2>2, <2>3, <2>4, <2>5, <2>6, <2>7, RunMoves, StartedNow
<1> QED
  BY <1>2, <1>3 DEF Release

\* The worker starts the step that is ready.
LEMMA WorkStep ==
    ASSUME IInv, NEW p \in Procs, NEW j \in Jobs, Work(p, j)
    PROVE  /\ StoreStep /\ j \in DOMAIN runs /\ runs[j].state = "QUEUED" /\ ~Busy(j) /\ step'[p] \in Nat
           /\ started' = [started EXCEPT ![j] = Append(@, Len(started[j]) + 1)]
           /\ step'[p] = IF Steps[j] = 0 THEN 0 ELSE Len(started[j]) + 1
           /\ Len(started[j]) < StepsOf(j) /\ runs'[j].state = "RUNNING"
<1> DEFINE n == Len(started[j])
<1>1. claimNext(j) /\ ~Busy(j) /\ j \in DOMAIN runs /\ runs[j].state = "QUEUED"
      /\ UNCHANGED <<seqOf, old, ledger, completed, named, clock>>
  BY DEF Work, claimNext, IsIn, business
<1>2. /\ Shape(j, runs[j], n) /\ n \in Nat /\ n < StepsOf(j) /\ runs[j].steps \in Seq(StepState)
      /\ Steps[j] \in Nat /\ started[j] \in Seq(Nat)
  BY <1>1, ShapeNow, StepsThere DEF IInv, Shape
<1>3. PICK at \in Nat : at = StepIn(j, "READY") /\ at = IF Steps[j] = 0 THEN 0 ELSE n + 1
  BY <1>1, <1>2, ReadyStep DEF IInv
<1>4. (IF at = 0 THEN 1 ELSE at) = n + 1
  BY <1>2, <1>3 DEF StepsOf
<1>5. started' = [started EXCEPT ![j] = Append(@, n + 1)] /\ step'[p] = at
  <2>1. started' = [started EXCEPT ![j] = Append(@, IF at = 0 THEN 1 ELSE at)]
    BY <1>1, <1>3 DEF claimNext
  <2>2. step' = [step EXCEPT ![p] = at] /\ step \in [Procs -> Nat]
    BY <1>3 DEF Work, IInv, TypeOK
  <2> QED
    BY <1>4, <2>1, <2>2
<1> HIDE DEF n
<1>6. /\ started' \in [Jobs -> Seq(Nat)] /\ Len(started'[j]) = n + 1
      /\ \A i \in DOMAIN started'[j] : started'[j][i] = i
      /\ \A k \in Jobs \ {j} : started'[k] = started[k]
  <2>1. started'[j] = Append(started[j], n + 1) /\ \A k \in Jobs \ {j} : started'[k] = started[k]
    BY <1>5, StartedNow
  <2>2. Append(started[j], n + 1) \in Seq(Nat) /\ Len(started'[j]) = n + 1
        /\ \A i \in DOMAIN started'[j] : started'[j][i] = i
    BY <1>2, <2>1, StartedNow DEF n
  <2> QED
    BY <1>2, <1>5, <2>1, <2>2, StartedNow
<1>7. WithStep(runs[j].steps, at, "RUNNING") \in Seq(StepState)
  BY <1>2, StepSet DEF StepState
<1>8. runs' = [[runs EXCEPT ![j].state = "RUNNING"] EXCEPT ![j].steps = WithStep(runs[j].steps, at, "RUNNING")]
  BY <1>1, <1>3 DEF claimNext, WithStep
<1>9. /\ StoreTypeOK' /\ Waits' /\ DOMAIN runs' = DOMAIN runs
      /\ runs'[j].state = "RUNNING" /\ runs'[j].steps = WithStep(runs[j].steps, at, "RUNNING")
      /\ \A k \in DOMAIN runs \ {j} : runs'[k] = runs[k]
  BY <1>1, <1>6, <1>7, <1>8, RunChanges DEF IInv, RunState
<1>10. Shape(j, runs'[j], n + 1)
  <2>1. runs'[j] \in Run
    BY <1>1, <1>9 DEF StoreTypeOK
  <2> QED
    BY <1>1, <1>2, <1>3, <1>9, <2>1, ClaimedShape
<1>11. Moves(j)
  BY <1>1, <1>6, <1>9 DEF Moves, n
<1>12. StoreStep
  BY <1>1, <1>6, <1>9, <1>10, <1>11, RunMoves
<1> QED
  BY <1>1, <1>2, <1>3, <1>5, <1>9, <1>12 DEF n

\* A step is recorded by the process that ran it.
LEMMA RecordStep ==
    ASSUME IInv, NEW p \in Procs, Record(p)
    PROVE  StoreStep /\ UNCHANGED started /\ job[p] \in DOMAIN runs /\ runs[job[p]].state = "RUNNING"
<1>1. PICK j \in Jobs, n \in IF Steps[job[p]] = 0 THEN {0} ELSE 1 .. Steps[job[p]] : j = job[p] /\ n = step[p]
  BY DEF Record, IInv, Workers, Working
<1>2. StillRuns(j, n) /\ Recorded(j, n, outcome[p]) /\ UNCHANGED <<seqOf, old>>
  BY <1>1 DEF Record, business
<1>3. j \in DOMAIN runs /\ runs[j].state = "RUNNING" /\ n \in Nat /\ n = IF Steps[j] = 0 THEN 0 ELSE Len(started[j])
  BY <1>1, <1>2, StillRunsIs DEF IInv
<1>4. /\ UNCHANGED <<ledger, started>>
      /\ \/ n \in 1 .. Len(runs[j].steps) - 1 /\ runs' = Advanced(j, n) /\ UNCHANGED <<completed, named, clock>>
         \/ /\ StoreTypeOK' /\ Waits'
            /\ (Ending(j, n, "COMPLETED") /\ n = Len(runs[j].steps)) \/ Ending(j, n, "FAILED")
  BY <1>2, <1>3, RecordedDoes DEF IInv
<1>5. /\ Shape(j, runs[j], Len(started[j])) /\ TypedRuns(runs) /\ Len(runs[j].steps) = Steps[j]
      /\ Steps[j] \in Nat /\ runs[j].steps \in Seq(StepState) /\ started \in [Jobs -> Seq(Nat)]
  BY <1>3, ShapeNow, TablesNow, StepsThere, StartedNow DEF IInv
<1>6. ASSUME n \in 1 .. Len(runs[j].steps) - 1, runs' = Advanced(j, n), UNCHANGED <<completed, named, clock>>
      PROVE  StoreStep
  <2> DEFINE steps == WithStep(WithStep(runs[j].steps, n, "COMPLETED"), n + 1, "READY")
  <2>1. steps \in Seq(StepState)
    <3>1. WithStep(runs[j].steps, n, "COMPLETED") \in Seq(StepState)
      BY <1>3, <1>5, StepSet DEF StepState
    <3>2. PICK m \in Nat : m = n + 1
      BY <1>3
    <3>3. WithStep(WithStep(runs[j].steps, n, "COMPLETED"), m, "READY") \in Seq(StepState)
      BY <3>1, StepSet DEF StepState
    <3> QED
      BY <3>2, <3>3
  <2>2. runs' = [[runs EXCEPT ![j].state = "QUEUED"] EXCEPT ![j].steps = steps]
    BY <1>3, <1>6 DEF Advanced, WithStep
  <2>3. /\ StoreTypeOK' /\ Waits' /\ DOMAIN runs' = DOMAIN runs
        /\ runs'[j].state = "QUEUED" /\ runs'[j].steps = steps
        /\ \A k \in DOMAIN runs \ {j} : runs'[k] = runs[k]
    <3> HIDE DEF steps
    <3>1. /\ TypeOK /\ Waits /\ "QUEUED" \in RunState /\ j \in DOMAIN runs
          /\ UNCHANGED <<ledger, completed, named, clock, seqOf>> /\ started' \in [Jobs -> Seq(Nat)]
      BY <1>2, <1>3, <1>4, <1>5, <1>6 DEF IInv, RunState
    <3> QED
      BY <2>1, <2>2, <3>1, RunChanges
  <2>4. n = Len(started[j]) /\ n \in 1 .. Steps[j] - 1
    BY <1>3, <1>5, <1>6
  <2>5. Shape(j, runs'[j], n)
    <3>1. runs'[j] \in Run
      BY <1>3, <2>3 DEF StoreTypeOK
    <3> QED
      BY <1>3, <1>5, <2>3, <2>4, <3>1, AdvancedShape
  <2>6. Moves(j)
    BY <1>3, <2>3 DEF Moves
  <2> QED
    BY <1>2, <1>3, <1>4, <2>3, <2>4, <2>5, <2>6, RunMoves, StartedNow
<1>7. ASSUME StoreTypeOK', Waits', NEW state \in {"COMPLETED", "FAILED"}, Ending(j, n, state),
             state = "COMPLETED" => n = Len(runs[j].steps)
      PROVE  StoreStep
  <2>1. Shape(j, runs'[j], Len(started'[j]))
    <3>1. state = "COMPLETED" => Steps[j] = 0 \/ Len(started[j]) = Steps[j]
      BY <1>3, <1>5, <1>7
    <3> QED
      BY <1>3, <1>4, <1>5, <1>7, <3>1, EndedShape DEF Ending
  <2>2. runs'[j].state = state
    BY <1>3, <1>5, <1>7, EndedRun DEF Ending
  <2> QED
    BY <1>2, <1>3, <1>4, <1>7, <2>1, <2>2, RunMoves, StartedNow DEF Ending, Moves
<1>8. StoreStep
  BY <1>4, <1>6, <1>7
<1> QED
  BY <1>1, <1>3, <1>4, <1>8

\* The reorganisation takes runs whose retention elapsed.
LEMMA ReorgStep ==
    ASSUME IInv, NEW p \in Procs, ReorgStore(p)
    PROVE  StoreStep
<1>1. /\ pc[p] = "removing" /\ UNCHANGED <<seqOf, old, named, clock, started>>
      /\ runs' = [j \in DOMAIN runs \ rows[p] |-> runs[j]]
      /\ ledger' = ledger \ rows[p] /\ completed' = completed \ rows[p]
  BY DEF ReorgStore, removeRuns, business
<1>2. DOMAIN runs' = DOMAIN runs \ rows[p] /\ \A k \in DOMAIN runs' : runs'[k] = runs[k]
  BY <1>1
<1>3. rows[p] \subseteq old
  BY <1>1 DEF IInv, DrainedFirst, Reorganising
<1>4. StoreTypeOK'
  BY <1>1, <1>2 DEF IInv, TypeOK, StoreTypeOK
<1>5. Waits'
  BY <1>1, <1>2 DEF IInv, Waits, NoLostWakeUp
<1>6. StepsConsistent' /\ Progress'
  <2>1. \A j \in DOMAIN runs' : Shape(j, runs'[j], Len(started'[j]))
    BY <1>1, <1>2, ShapeNow DEF IInv
  <2>2. \A j \in Jobs : /\ \A i \in DOMAIN started'[j] : started'[j][i] = i
                        /\ Len(started'[j]) <= StepsOf(j)
    BY <1>1 DEF IInv, Progress
  <2>3. \A j \in Jobs \ (DOMAIN runs' \cup old') : started'[j] = <<>>
    BY <1>1, <1>2, <1>3 DEF IInv, Progress
  <2> QED
    BY <1>4, <2>1, <2>2, <2>3, ShapeThen
<1>7. ledger' = DOMAIN runs' \ Local
  BY <1>1, <1>2 DEF IInv, Origins
<1> QED
  BY <1>1, <1>2, <1>4, <1>5, <1>6, <1>7 DEF StoreStep, Moves

\* JOB_CLOSE takes a number of the signal clock for a job that was nowhere before.
LEMMA CloseStep ==
    ASSUME IInv, NEW j \in Jobs, JOB_CLOSE(j)
    PROVE  StoreStep /\ j \notin DOMAIN runs /\ seqOf' \in [Jobs -> Nat]
<1>1. j \notin DOMAIN runs
  BY DEF JOB_CLOSE, IInv, Origins, Successors
<1>2. UNCHANGED <<runs, ledger, completed, named, started, old>> /\ clock \in Nat /\ seqOf \in [Jobs -> Nat]
      /\ DOMAIN runs \subseteq Jobs
      /\ \A k \in Jobs : seqOf[k] <= clock
  BY DEF JOB_CLOSE, reserveSignalSeq, storeVars, IInv, TypeOK, StoreTypeOK, Waits
<1>3. \/ UNCHANGED <<clock, seqOf>>
      \/ clock' = clock + 1 /\ seqOf' = [seqOf EXCEPT ![j] = clock + 1]
  BY DEF JOB_CLOSE, reserveSignalSeq, storeVars
<1>4. /\ clock' \in Nat /\ clock <= clock' /\ seqOf' \in [Jobs -> Nat]
      /\ \A k \in DOMAIN runs : seqOf'[k] = seqOf[k]
      /\ \A k \in Jobs : seqOf'[k] <= clock'
  BY <1>1, <1>2, <1>3
<1> QED
  BY <1>1, <1>2, <1>4, StoreRests

\* The actions that leave the store alone.
Outside ==
    \/ CommitClose \/ RollbackClose \/ CommitDelete \/ AbandonDelete
    \/ \E j \in Jobs : Age(j)
    \/ \E p \in Procs :
          \/ DrainRead(p) \/ (\E j \in Jobs : Claim(p, j)) \/ Acknowledge(p) \/ Drained(p)
          \/ (\E j \in Jobs : DueRead(p, j)) \/ FindSuccessor(p) \/ ReserveCount(p) \/ ReserveFails(p)
          \/ (\E how \in {"ok", "failed", "threw"} : Executed(p, how)) \/ RecordFails(p)
          \/ ReorgRead(p) \/ ReorgBusiness(p) \/ Crash(p)

\* They do.
LEMMA OutsideRests ==
    ASSUME IInv, Outside
    PROVE  StoreStep /\ UNCHANGED storeVars
<1>1. UNCHANGED <<storeVars, seqOf>> /\ old \subseteq old'
  BY DEF Outside, CommitClose, RollbackClose, CommitDelete, AbandonDelete, Age, DrainRead, Claim, Acknowledge,
         Drained, DueRead, FindSuccessor, ReserveCount, ReserveFails, Executed, RecordFails, ReorgRead,
         ReorgBusiness, Crash, business
<1> QED
  BY <1>1, StoreUntouched

\* The job a drain imports, or a release makes, was never there.
LEMMA Unborn ==
    ASSUME IInv, NEW p \in Procs
    PROVE  /\ pc[p] = "claimed" => job[p] \in Jobs \ Local /\ (job[p] \in old => job[p] \in DOMAIN runs)
           /\ pc[p] = "reserved" => /\ Succ[job[p]] \in Jobs \ Local /\ Succ[job[p]] \in Timed /\ Succ[job[p]] \notin old
                                    /\ job[p] \in DOMAIN runs /\ job[p] \in Jobs
<1>1. pc[p] = "claimed" => job[p] \in outbox
  BY DEF IInv, Places
<1>2. outbox \subseteq Jobs \ Local /\ old \cap outbox \subseteq DOMAIN runs
  BY DEF IInv, Origins, Elapsed, TypeOK
<1>3. pc[p] = "reserved" => job[p] \in Jobs /\ job[p] \in DOMAIN runs /\ Succ[job[p]] # None /\ Succ[job[p]] \notin old
  BY JobsAssumption DEF IInv, Places, Scheduling
<1>4. pc[p] = "reserved" => Succ[job[p]] \in Jobs \ Local /\ Succ[job[p]] \in Timed
  BY <1>3, OnePredecessor, OneCondition
<1> QED
  BY <1>1, <1>2, <1>3, <1>4

\* Import and MakeSuccessor.
LEMMA ImportSteps ==
    ASSUME IInv, NEW p \in Procs, Import(p) \/ MakeSuccessor(p)
    PROVE  StoreStep
<1>1. CASE Import(p)
  <2>1. importIntent(job[p], seqOf[job[p]], TRUE) /\ pc[p] = "claimed" /\ UNCHANGED <<business, old, history>>
    BY <1>1 DEF Import
  <2>2. job[p] \in Jobs \ Local /\ seqOf[job[p]] \in Nat /\ (job[p] \in old => job[p] \in DOMAIN runs)
    BY <2>1, Unborn DEF IInv, TypeOK
  <2> QED
    BY <2>1, <2>2, ImportStep
<1>2. CASE MakeSuccessor(p)
  <2>1. /\ pc[p] = "reserved" /\ UNCHANGED <<business, old, history>>
        /\ importIntent(Succ[job[p]], 0, SuccessorInstance(Succ[job[p]]))
    BY <1>2, Unborn DEF MakeSuccessor
  <2>2. PICK instance \in BOOLEAN : instance = SuccessorInstance(Succ[job[p]])
    BY DEF SuccessorInstance
  <2>3. Succ[job[p]] \in Jobs \ Local /\ Succ[job[p]] \in Timed /\ Succ[job[p]] \notin old
    BY <2>1, Unborn
  <2> QED
    BY <2>1, <2>2, <2>3, ImportStep
<1> QED
  BY <1>1, <1>2

\* Every step of the system is a step of the store.
LEMMA StoreSteps ==
    ASSUME IInv, [Next]_vars
    PROVE  StoreStep
<1>1. CASE UNCHANGED vars
  BY <1>1, StoreUntouched DEF vars, business
<1>2. CASE Caller
  <2>1. ASSUME NEW j \in Jobs, JOB_CLOSE(j) \/ BP_JOB_DELETE(j) \/ Interrupt(j) \/ Enqueue(j) \/ Age(j) PROVE StoreStep
    BY <2>1, CloseStep, DeleteStep, InterruptStep, EnqueueStep, OutsideRests DEF Outside
  <2>2. ASSUME NEW e \in Events, BP_EVENT_RAISE(e) PROVE StoreStep
    BY <2>2, RaiseStep
  <2>3. CASE CommitClose \/ RollbackClose \/ CommitDelete \/ AbandonDelete
    BY <2>3, OutsideRests DEF Outside
  <2> QED
    BY <1>2, <2>1, <2>2, <2>3 DEF Caller
<1>3. ASSUME NEW p \in Procs, \/ Drains(p) \/ Schedules(p) \/ Works(p) \/ Reorganises(p)
                              \/ ReserveFails(p) \/ RecordFails(p) \/ Crash(p)
      PROVE  StoreStep
  <2>1. ASSUME NEW j \in Jobs, Work(p, j) PROVE StoreStep
    BY <2>1, WorkStep
  <2>2. CASE Import(p) \/ MakeSuccessor(p)
    BY <2>2, ImportSteps
  <2>3. CASE BeginRelease(p) \/ Release(p) \/ Record(p) \/ ReorgStore(p)
    BY <2>3, BeginReleaseStep, ReleaseStep, RecordStep, ReorgStep
  <2>4. CASE Outside
    BY <2>4, OutsideRests
  <2> QED
    BY <1>3, <2>1, <2>2, <2>3, <2>4 DEF Drains, Schedules, Works, Reorganises, Outside
<1> QED
  BY <1>1, <1>2, <1>3 DEF Next

-----------------------------------------------------------------------------
(* Types *)

\* The processes' variables have their types.
ProcessesTyped ==
    /\ pc \in [Procs -> {"idle", "draining", "claimed", "imported", "due", "decided", "reserving",
                         "reserved", "releasing", "executing", "recording", "reorganising", "removing"}]
    /\ job \in [Procs -> Jobs \cup {None}] /\ step \in [Procs -> Nat]
    /\ outcome \in [Procs -> {None, "ok", "failed", "threw"}] /\ rows \in [Procs -> SUBSET Jobs]

\* A process rests, and the others go on.
LEMMA RestsDoes ==
    ASSUME TypeOK, NEW p \in Procs, Rests(p)
    PROVE  /\ pc'[p] = "idle" /\ job'[p] = None /\ step'[p] = 0 /\ outcome'[p] = None /\ rows'[p] = {}
           /\ \A q \in Procs \ {p} : /\ pc'[q] = pc[q] /\ job'[q] = job[q] /\ step'[q] = step[q]
                                     /\ outcome'[q] = outcome[q] /\ rows'[q] = rows[q]
           /\ ProcessesTyped'
BY DEF Rests, Goes, TypeOK, ProcessesTyped

\* The processes' variables keep them.
LEMMA ProcessesStep ==
    ASSUME IInv, [Next]_vars
    PROVE  ProcessesTyped'
<1>0. TypeOK /\ ProcessesTyped
  BY DEF IInv, TypeOK, ProcessesTyped
<1>1. CASE UNCHANGED process
  BY <1>0, <1>1 DEF process, ProcessesTyped
<1>2. ASSUME NEW p \in Procs, Rests(p) PROVE ProcessesTyped'
  BY <1>0, <1>2, RestsDoes
<1>3. CASE UNCHANGED vars \/ Caller
  BY <1>1, <1>3 DEF vars, Caller, JOB_CLOSE, BP_JOB_DELETE, Interrupt, Enqueue, Age, BP_EVENT_RAISE,
                    CommitClose, RollbackClose, CommitDelete, AbandonDelete
<1>4. ASSUME NEW p \in Procs, NEW to \in {"draining", "claimed", "imported", "due", "decided", "reserving", "reserved",
                                          "releasing", "executing", "recording", "reorganising", "removing"},
             Goes(p, to) \/ UNCHANGED pc,
             \/ UNCHANGED job
             \/ \E j \in Jobs \cup {None} : job' = [job EXCEPT ![p] = j],
             \/ UNCHANGED step
             \/ \E n \in Nat : step' = [step EXCEPT ![p] = n],
             \/ UNCHANGED outcome
             \/ \E how \in {"ok", "failed", "threw"} : outcome' = [outcome EXCEPT ![p] = how],
             \/ UNCHANGED rows
             \/ \E J \in SUBSET Jobs : rows' = [rows EXCEPT ![p] = J]
      PROVE  ProcessesTyped'
  <2>1. pc' \in [Procs -> {"idle", "draining", "claimed", "imported", "due", "decided", "reserving",
                           "reserved", "releasing", "executing", "recording", "reorganising", "removing"}]
    BY <1>0, <1>4 DEF Goes, ProcessesTyped
  <2>2. job' \in [Procs -> Jobs \cup {None}]
    BY <1>0, <1>4 DEF ProcessesTyped
  <2>3. step' \in [Procs -> Nat] /\ outcome' \in [Procs -> {None, "ok", "failed", "threw"}] /\ rows' \in [Procs -> SUBSET Jobs]
    BY <1>0, <1>4 DEF ProcessesTyped
  <2> QED
    BY <2>1, <2>2, <2>3 DEF ProcessesTyped
<1>5. outbox \in SUBSET Jobs /\ reorgCandidates(old) \in SUBSET Jobs /\ \A p \in Procs : rows[p] \in SUBSET Jobs
  BY <1>0 DEF TypeOK, reorgCandidates
<1>6. ASSUME NEW p \in Procs, Drains(p) PROVE ProcessesTyped'
  <2>1. CASE DrainRead(p)
    BY <1>4, <1>5, <2>1 DEF DrainRead
  <2>2. ASSUME NEW j \in Jobs, Claim(p, j) PROVE ProcessesTyped'
    <3>1. (rows[p] \ {j}) \in SUBSET Jobs /\ rows' = [rows EXCEPT ![p] = rows[p] \ {j}]
      BY <1>5, <2>2 DEF Claim
    <3> QED
      BY <1>4, <2>2, <3>1 DEF Claim
  <2>3. CASE Import(p) \/ Acknowledge(p)
    BY <1>4, <2>3 DEF Import, Acknowledge
  <2>4. CASE Drained(p)
    BY <1>2, <2>4 DEF Drained
  <2> QED
    BY <1>6, <2>1, <2>2, <2>3, <2>4 DEF Drains
<1>7. ASSUME NEW p \in Procs, Schedules(p) \/ ReserveFails(p) PROVE ProcessesTyped'
  <2>1. ASSUME NEW j \in Jobs, DueRead(p, j) PROVE ProcessesTyped'
    BY <1>4, <2>1 DEF DueRead
  <2>2. CASE BeginRelease(p)
    BY <1>2, <1>4, <2>2 DEF BeginRelease
  <2>3. CASE FindSuccessor(p)
    BY <1>4, <2>3 DEF FindSuccessor
  <2>4. CASE ReserveCount(p)
    BY <1>4, <2>4 DEF ReserveCount
  <2>5. CASE MakeSuccessor(p)
    BY <1>2, <1>4, <2>5 DEF MakeSuccessor
  <2>6. CASE Release(p) \/ ReserveFails(p)
    BY <1>2, <2>6 DEF Release, ReserveFails
  <2> QED
    BY <1>7, <2>1, <2>2, <2>3, <2>4, <2>5, <2>6 DEF Schedules
<1>8. ASSUME NEW p \in Procs, Works(p) \/ RecordFails(p) PROVE ProcessesTyped'
  <2>1. ASSUME NEW j \in Jobs, Work(p, j) PROVE ProcessesTyped'
    <3>1. step'[p] \in Nat /\ step' = [step EXCEPT ![p] = StepIn(j, "READY")] /\ p \in DOMAIN step
      BY <1>0, <2>1, WorkStep DEF Work, ProcessesTyped
    <3>2. StepIn(j, "READY") \in Nat
      BY <3>1
    <3> QED
      BY <1>4, <2>1, <3>1, <3>2 DEF Work
  <2>2. ASSUME NEW how \in {"ok", "failed", "threw"}, Executed(p, how) PROVE ProcessesTyped'
    BY <1>2, <1>4, <2>2 DEF Executed
  <2>3. CASE Record(p) \/ RecordFails(p)
    BY <1>2, <2>3 DEF Record, RecordFails
  <2> QED
    BY <1>8, <2>1, <2>2, <2>3 DEF Works
<1>9. ASSUME NEW p \in Procs, Reorganises(p) \/ Crash(p) PROVE ProcessesTyped'
  <2>1. CASE ReorgRead(p)
    BY <1>4, <1>5, <2>1 DEF ReorgRead
  <2>2. CASE ReorgBusiness(p)
    BY <1>4, <2>2 DEF ReorgBusiness
  <2>3. CASE ReorgStore(p) \/ Crash(p)
    BY <1>2, <2>3 DEF ReorgStore, Crash
  <2> QED
    BY <1>9, <2>1, <2>2, <2>3 DEF Reorganises
<1> QED
  BY <1>3, <1>6, <1>7, <1>8, <1>9 DEF Next

\* So do the others.
LEMMA TypeStep ==
    ASSUME IInv, [Next]_vars
    PROVE  TypeOK'
<1> DEFINE BusinessTyped ==
        /\ identity \subseteq Jobs /\ outbox \subseteq Jobs
        /\ luw \in [kind : {"none", "close", "delete", "drain"}, jobs : SUBSET Jobs, by : Procs \cup {None}]
        /\ seqOf \in [Jobs -> Nat]
           HistoryTyped == old \subseteq Jobs /\ closed \subseteq Jobs /\ cancelled \subseteq Jobs /\ crashes \in 0 .. MaxCrashes
<1>0. BusinessTyped /\ HistoryTyped /\ StoreTypeOK /\ MaxCrashes \in Nat
  BY ProcsAssumption DEF IInv, TypeOK
<1>1. NoLuw \in [kind : {"none", "close", "delete", "drain"}, jobs : SUBSET Jobs, by : Procs \cup {None}]
  BY DEF NoLuw
<1>2. CASE UNCHANGED vars
  BY <1>0, <1>2, StoreSteps, ProcessesStep DEF vars, business, history, TypeOK, ProcessesTyped, StoreStep
<1>3. ASSUME NEW j \in Jobs, JOB_CLOSE(j) PROVE BusinessTyped' /\ HistoryTyped'
  <2>1. seqOf' \in [Jobs -> Nat]
    BY <1>3, CloseStep
  <2> QED
    BY <1>0, <1>3, <2>1 DEF JOB_CLOSE, history
<1>4. ASSUME NEW j \in Jobs, BP_JOB_DELETE(j) PROVE BusinessTyped' /\ HistoryTyped'
  BY <1>0, <1>4 DEF BP_JOB_DELETE
<1>5. ASSUME CommitClose \/ RollbackClose \/ CommitDelete \/ AbandonDelete PROVE BusinessTyped' /\ HistoryTyped'
  <2>1. CASE CommitClose
    BY <1>0, <1>1, <2>1 DEF CommitClose
  <2>2. CASE RollbackClose
    BY <1>0, <1>1, <2>2 DEF RollbackClose, history
  <2>3. CASE CommitDelete
    BY <1>0, <1>1, <2>3 DEF CommitDelete
  <2>4. CASE AbandonDelete
    BY <1>0, <1>1, <2>4 DEF AbandonDelete
  <2> QED
    BY <1>5, <2>1, <2>2, <2>3, <2>4
<1>6. ASSUME NEW j \in Jobs, Interrupt(j) \/ Enqueue(j) \/ Age(j) PROVE BusinessTyped' /\ HistoryTyped'
  BY <1>0, <1>6 DEF Interrupt, Enqueue, Age, business, history
<1>7. ASSUME NEW e, BP_EVENT_RAISE(e) PROVE BusinessTyped' /\ HistoryTyped'
  BY <1>0, <1>7 DEF BP_EVENT_RAISE, business, history
<1>8. ASSUME NEW p \in Procs, NEW j \in Jobs, Claim(p, j) PROVE BusinessTyped' /\ HistoryTyped'
  BY <1>0, <1>8 DEF Claim, history
<1>9. ASSUME NEW p \in Procs, Acknowledge(p) \/ ReorgBusiness(p) \/ Crash(p) PROVE BusinessTyped' /\ HistoryTyped'
  BY <1>0, <1>1, <1>9 DEF Acknowledge, ReorgBusiness, Crash, history
<1>10. ASSUME NEW p \in Procs, ReserveCount(p) PROVE BusinessTyped' /\ HistoryTyped'
  <2>1. Succ[job[p]] \in Jobs
    BY <1>10, OneCondition, JobsAssumption DEF ReserveCount, IInv, Places, Scheduling
  <2> QED
    BY <1>0, <1>10, <2>1 DEF ReserveCount, history
<1>11. ASSUME NEW p \in Procs,
              \/ DrainRead(p) \/ Import(p) \/ Drained(p) \/ (\E j \in Jobs : DueRead(p, j)) \/ BeginRelease(p)
              \/ FindSuccessor(p) \/ ReserveFails(p) \/ MakeSuccessor(p) \/ Release(p) \/ (\E j \in Jobs : Work(p, j))
              \/ (\E how \in {"ok", "failed", "threw"} : Executed(p, how)) \/ Record(p) \/ RecordFails(p)
              \/ ReorgRead(p) \/ ReorgStore(p)
       PROVE  BusinessTyped' /\ HistoryTyped'
  <2>1. UNCHANGED <<business, old, history>>
    BY <1>11 DEF DrainRead, Import, Drained, DueRead, BeginRelease, FindSuccessor, ReserveFails, MakeSuccessor,
                 Release, Work, Executed, Record, RecordFails, ReorgRead, ReorgStore
  <2> QED
    BY <1>0, <2>1 DEF business, history
<1>12. CASE Next
  <2>1. BusinessTyped' /\ HistoryTyped'
    <3> HIDE DEF BusinessTyped, HistoryTyped
    <3>1. CASE Caller
      BY <1>3, <1>4, <1>5, <1>6, <1>7, <3>1 DEF Caller
    <3>2. ASSUME NEW p \in Procs, \/ Drains(p) \/ Schedules(p) \/ Works(p) \/ Reorganises(p)
                                  \/ ReserveFails(p) \/ RecordFails(p) \/ Crash(p)
          PROVE  BusinessTyped' /\ HistoryTyped'
      <4>1. CASE Drains(p)
        BY <1>8, <1>9, <1>11, <4>1 DEF Drains
      <4>2. CASE Schedules(p)
        BY <1>10, <1>11, <4>2 DEF Schedules
      <4>3. CASE Works(p) \/ Reorganises(p)
        BY <1>9, <1>11, <4>3 DEF Works, Reorganises
      <4> QED
        BY <1>9, <1>11, <3>2, <4>1, <4>2, <4>3
    <3> QED
      BY <1>12, <3>1, <3>2 DEF Next
  <2> QED
    BY <2>1, StoreSteps, ProcessesStep DEF TypeOK, ProcessesTyped, StoreStep
<1> QED
  BY <1>2, <1>12 DEF StoreStep

-----------------------------------------------------------------------------
(* The business database *)

\* The actions that change it, or what is remembered of it.
LEMMA BusinessSteps ==
    ASSUME [Next]_vars
    PROVE  \/ UNCHANGED <<business, old, history>>
           \/ \E j \in Jobs : JOB_CLOSE(j) \/ BP_JOB_DELETE(j) \/ Age(j)
           \/ CommitClose \/ RollbackClose \/ CommitDelete \/ AbandonDelete
           \/ \E p \in Procs : \/ \E j \in Jobs : Claim(p, j)
                               \/ Acknowledge(p) \/ ReserveCount(p) \/ ReorgBusiness(p) \/ Crash(p)
<1>1. CASE UNCHANGED vars
  BY <1>1 DEF vars
<1>2. CASE Caller
  BY <1>2 DEF Caller, Interrupt, Enqueue, BP_EVENT_RAISE
<1>3. ASSUME NEW p \in Procs, Drains(p) \/ Works(p) \/ Reorganises(p) \/ RecordFails(p)
      PROVE  \/ UNCHANGED <<business, old, history>>
             \/ (\E j \in Jobs : Claim(p, j)) \/ Acknowledge(p) \/ ReorgBusiness(p)
  BY <1>3 DEF Drains, DrainRead, Import, Drained, Works, Work, Executed, Record, RecordFails, Reorganises,
              ReorgRead, ReorgStore
<1>4. ASSUME NEW p \in Procs, Schedules(p) \/ ReserveFails(p)
      PROVE  UNCHANGED <<business, old, history>> \/ ReserveCount(p)
  BY <1>4 DEF Schedules, DueRead, BeginRelease, FindSuccessor, MakeSuccessor, Release, ReserveFails
<1> QED
  BY <1>1, <1>2, <1>3, <1>4 DEF Next

\* A job being closed is nowhere yet.
Fresh(j) == j \notin DOMAIN runs \cup old \cup outbox \cup identity \cup closed \cup cancelled \cup Local \cup Successors
LEMMA ClosingIsFresh ==
    ASSUME IInv, luw.kind = "close", NEW j \in luw.jobs
    PROVE  Fresh(j) /\ j \in Jobs
BY DEF IInv, TypeOK, LuwKnown, Origins, Fresh

\* What can enter and leave the tables of the business database.
Entering ==
    /\ \A j \in outbox' \ outbox : Fresh(j) /\ j \in identity' /\ luw.kind = "close" /\ j \in luw.jobs /\ luw.jobs \subseteq outbox'
    /\ \A j \in identity' \ identity :
          \/ Fresh(j) /\ j \in outbox'
          \/ \E p \in Procs : pc[p] = "reserving" /\ j = Succ[job[p]] /\ job' = job /\ UNCHANGED storeVars
    /\ \A j \in closed' \ closed : Fresh(j)
    /\ outbox' \subseteq closed' \cup outbox
Leaving ==
    \A j \in outbox \ outbox' :
        \/ \E p \in Procs : pc[p] = "imported" /\ j = job[p]
        \/ j \notin identity' /\ (j \in ledger \/ j \in cancelled')
        \/ \E p \in Procs : pc[p] = "reorganising" /\ j \in rows[p]
Remembering ==
    /\ closed \subseteq closed' /\ old \subseteq old' /\ cancelled \subseteq cancelled'
    /\ \A j \in old' \ old : /\ j \in DOMAIN runs /\ runs[j].state \in Final /\ luw = NoLuw
                             /\ \A p \in Procs : pc[p] = "idle"
                             /\ \A k \in Jobs : Succ[k] = j => ~IsIn(k, {"RELEASING"})
                             /\ UNCHANGED <<storeVars, business, process, history>>
    /\ \A j \in cancelled' \ cancelled :
          /\ j \in identity
          /\ \/ IsIn(j, {"WAITING"}) /\ runs' = [runs EXCEPT ![j].state = "DELETED"] /\ UNCHANGED started
             \/ j \notin ledger /\ j \in outbox \ outbox' /\ UNCHANGED storeVars

\* They do.
LEMMA BusinessDoes ==
    ASSUME IInv, [Next]_vars
    PROVE  Entering /\ Leaving /\ Remembering
<1>1. CASE UNCHANGED <<business, old, history>>
  BY <1>1 DEF business, history, Entering, Leaving, Remembering
<1>2. ASSUME NEW j \in Jobs, JOB_CLOSE(j) PROVE Entering /\ Leaving /\ Remembering
  BY <1>2 DEF JOB_CLOSE, history, Entering, Leaving, Remembering
<1>3. ASSUME NEW j \in Jobs, BP_JOB_DELETE(j) PROVE Entering /\ Leaving /\ Remembering
  <2>1. Entering /\ Leaving
    BY <1>3 DEF BP_JOB_DELETE, Entering, Leaving
  <2>2. ASSUME NEW k \in cancelled' \ cancelled
        PROVE  k = j /\ j \in identity /\ IsIn(j, {"WAITING"}) /\ runs' = [runs EXCEPT ![j].state = "DELETED"] /\ UNCHANGED started
    <3>1. k = j /\ j \in identity /\ IsIn(j, {"WAITING"}) /\ j \in DOMAIN runs
      BY <1>3, <2>2 DEF BP_JOB_DELETE, IsIn
    <3>2. j \in ledger
      BY <3>1, OneCondition, StepsThere DEF IInv, Origins, Progress, IsIn
    <3> QED
      BY <1>3, <3>1, <3>2 DEF BP_JOB_DELETE, deleteJob
  <2> QED
    BY <1>3, <2>1, <2>2 DEF BP_JOB_DELETE, Remembering
<1>4. ASSUME NEW j \in Jobs, Age(j) PROVE Entering /\ Leaving /\ Remembering
  BY <1>4 DEF Age, IsIn, business, history, Entering, Leaving, Remembering
<1>5. ASSUME CommitClose PROVE Entering /\ Leaving /\ Remembering
  BY <1>5, ClosingIsFresh DEF CommitClose, Entering, Leaving, Remembering
<1>6. ASSUME RollbackClose \/ AbandonDelete PROVE Entering /\ Leaving /\ Remembering
  BY <1>6 DEF RollbackClose, AbandonDelete, history, Entering, Leaving, Remembering
<1>7. ASSUME CommitDelete PROVE Entering /\ Leaving /\ Remembering
  <2>1. luw.jobs \subseteq identity \cap (DOMAIN runs \cup outbox) /\ identity \cap Local = {} /\ ledger = DOMAIN runs \ Local
    BY <1>7, OnePredecessor DEF CommitDelete, IInv, LuwKnown, Origins
  <2> QED
    BY <1>7, <2>1 DEF CommitDelete, Entering, Leaving, Remembering
<1>8. ASSUME NEW p \in Procs, (\E j \in Jobs : Claim(p, j)) \/ Acknowledge(p) \/ ReorgBusiness(p) \/ Crash(p)
      PROVE  Entering /\ Leaving /\ Remembering
  BY <1>8 DEF Claim, Acknowledge, ReorgBusiness, Crash, history, Entering, Leaving, Remembering
<1>9. ASSUME NEW p \in Procs, ReserveCount(p) PROVE Entering /\ Leaving /\ Remembering
  BY <1>9 DEF ReserveCount, history, Entering, Leaving, Remembering
<1> QED
  BY <1>1, <1>2, <1>3, <1>4, <1>5, <1>6, <1>7, <1>8, <1>9, BusinessSteps

\* Jobs come from a JOB_CLOSE, from the release of their predecessor or from `enqueue`.
LEMMA OriginsStep ==
    ASSUME IInv, [Next]_vars
    PROVE  Origins'
<1>0. Origins /\ closed \subseteq Jobs /\ outbox \subseteq Jobs /\ StoreStep /\ Entering /\ Remembering
  BY StoreSteps, BusinessDoes DEF IInv, TypeOK
<1>1. closed' \cap (Local \cup Successors) = {}
  BY <1>0 DEF Origins, Entering, Fresh
<1>2. outbox' \subseteq closed'
  BY <1>0 DEF Origins, Entering, Remembering
<1>3. identity' \subseteq closed' \cup Successors
  <2>1. ASSUME NEW p \in Procs, pc[p] = "reserving" PROVE Succ[job[p]] \in Successors
    BY <2>1, OnePredecessor, JobsAssumption DEF IInv, Places, Scheduling
  <2>2. ASSUME NEW j \in identity' PROVE j \in closed' \cup Successors
    BY <1>0, <1>2, <2>1, <2>2 DEF Origins, Entering, Remembering
  <2> QED
    BY <2>2
<1>4. \A k \in DOMAIN runs' : k \in closed' \cup Successors \cup Local
  <2>1. ASSUME NEW k \in DOMAIN runs' \ DOMAIN runs PROVE k \in closed \cup Successors \cup Local
    <3>1. ASSUME NEW p \in Procs, pc[p] = "claimed" PROVE job[p] \in closed
      BY <3>1 DEF IInv, Places, Origins
    <3>2. ASSUME NEW p \in Procs, pc[p] = "reserved" PROVE Succ[job[p]] \in Successors
      BY <3>2, OnePredecessor, JobsAssumption DEF IInv, Places, Scheduling
    <3> QED
      BY <1>0, <3>1, <3>2 DEF StoreStep, Arrives
  <2> QED
    BY <1>0, <2>1 DEF Origins, Remembering
<1>5. old' \subseteq closed' \cup Successors \cup Local
  BY <1>0 DEF Origins, Remembering
<1>6. cancelled' \subseteq closed' \cup Successors
  BY <1>0 DEF Origins, Remembering
<1> QED
  BY <1>0, <1>1, <1>2, <1>3, <1>4, <1>5, <1>6 DEF Origins, StoreStep

\* A run that is over stays over.
LEMMA OverForGood ==
    ASSUME IInv, [Next]_vars, NEW j \in DOMAIN runs \cap DOMAIN runs', runs[j].state \in Final
    PROVE  runs'[j].state \in Final
BY StoreSteps DEF StoreStep, Moves, Final

\* What leaves the store was old and left the business database before; nobody in it, and no
\* run that is not over, is chained behind.
LEMMA GoneForGood ==
    ASSUME IInv, [Next]_vars, NEW j \in DOMAIN runs \ DOMAIN runs'
    PROVE  /\ j \in old \ (outbox \cup identity \cup Local) /\ j \notin outbox' \cup identity'
           /\ \A k \in outbox : After[k] # j
           /\ \A k \in DOMAIN runs : After[k] = j => runs[k].state \in Final
<1>1. PICK p \in Procs : pc[p] = "removing" /\ j \in rows[p]
  BY StoreSteps DEF StoreStep
<1>2. /\ j \in old \ (outbox \cup identity \cup Local)
      /\ \A k \in outbox : After[k] # j
      /\ \A k \in DOMAIN runs : After[k] = j => runs[k].state \in Final
  BY <1>1 DEF IInv, DrainedFirst, Reorganising
<1>3. j \notin outbox' /\ j \notin identity'
  BY <1>2, BusinessDoes DEF Entering, Fresh, storeVars
<1> QED
  BY <1>2, <1>3

\* What comes to the store was never there.
LEMMA NeverBefore ==
    ASSUME IInv, [Next]_vars, NEW j \in DOMAIN runs' \ DOMAIN runs
    PROVE  Arrives(j) /\ j \notin old'
<1>1. Arrives(j) /\ old' = old
  BY StoreSteps DEF StoreStep, Arrives
<1>2. j \in Local => j \notin old
  BY DEF IInv, Elapsed
<1> QED
  BY <1>1, <1>2, Unborn DEF Arrives

\* What became old is over, and gone for good when it is gone.
LEMMA ElapsedStep ==
    ASSUME IInv, [Next]_vars
    PROVE  Elapsed'
<1>0. Elapsed /\ Entering /\ Remembering
  BY BusinessDoes DEF IInv
<1>1. ASSUME NEW j \in old' \cap DOMAIN runs' PROVE runs'[j].state \in Final
  <2>1. j \in DOMAIN runs
    BY <1>1, NeverBefore
  <2>2. CASE j \in old
    BY <1>0, <1>1, <2>1, <2>2, OverForGood DEF Elapsed
  <2>3. CASE j \notin old
    BY <1>0, <1>1, <2>3 DEF Remembering, storeVars
  <2> QED
    BY <2>2, <2>3
<1>2. ASSUME NEW j \in old', j \in outbox' \cup identity' \cup Local PROVE j \in DOMAIN runs'
  <2>1. CASE j \notin old
    BY <1>0, <1>2, <2>1 DEF Remembering, storeVars
  <2>2. CASE j \in old
    <3>1. ASSUME NEW p \in Procs, pc[p] = "reserving" PROVE Succ[job[p]] \notin old
      BY <3>1 DEF IInv, Places, Scheduling
    <3>2. j \in outbox \cup identity \cup Local
      BY <1>0, <1>2, <2>2, <3>1 DEF Entering, Fresh
    <3> QED
      BY <1>0, <1>2, <2>2, <3>2, GoneForGood DEF Elapsed
  <2> QED
    BY <2>1, <2>2
<1> QED
  BY <1>1, <1>2 DEF Elapsed

\* The transaction that holds the write lock is known.
LEMMA LuwStep ==
    ASSUME IInv, [Next]_vars
    PROVE  LuwKnown'
<1>0. LuwKnown
  BY DEF IInv
<1>1. ASSUME luw' = NoLuw PROVE LuwKnown'
  BY <1>1 DEF LuwKnown, NoLuw
<1>2. ASSUME UNCHANGED <<luw, identity, outbox, old, closed>> PROVE LuwKnown'
  <2>1. \A j \in identity \cap DOMAIN runs : j \in DOMAIN runs'
    BY GoneForGood
  <2> QED
    BY <1>0, <1>2, <2>1 DEF LuwKnown
<1>3. CASE UNCHANGED <<business, old, history>>
  BY <1>2, <1>3 DEF business, history
<1>4. ASSUME NEW j \in Jobs, JOB_CLOSE(j) PROVE LuwKnown'
  <2>1. /\ luw' = [kind |-> "close", jobs |-> luw.jobs \cup {j}, by |-> None]
        /\ UNCHANGED <<identity, old, closed>> /\ luw.kind \in {"none", "close"}
        /\ j \notin Local \cup closed \cup Successors
        /\ After[j] # None => After[j] \in luw.jobs \/ (After[j] \in identity /\ ~IsIn(After[j], Final))
    BY <1>4 DEF JOB_CLOSE, history, Successors, PredecessorOpen
  <2>2. luw.kind = "none" => luw.jobs = {}
    BY <1>0 DEF LuwKnown, NoLuw
  <2>3. \A k \in luw.jobs : /\ k \notin Local \cup closed \cup Successors
                            /\ After[k] # None => After[k] \in (luw.jobs \cup identity) \ old
    BY <1>0, <2>1, <2>2 DEF LuwKnown
  <2>4. \A k \in luw.jobs : k \notin old
    BY <2>1, <2>2, ClosingIsFresh DEF Fresh
  <2>5. \A k \in identity : ~IsIn(k, Final) => k \notin old
    BY DEF IInv, Elapsed, IsIn
  <2>6. After[j] # None => After[j] \in (luw.jobs \cup {j} \cup identity) \ old
    BY <2>1, <2>4, <2>5
  <2> QED
    BY <2>1, <2>3, <2>6 DEF LuwKnown
<1>5. ASSUME NEW j \in Jobs, BP_JOB_DELETE(j) PROVE LuwKnown'
  <2>1. /\ luw' = [kind |-> "delete", jobs |-> {j}, by |-> None] /\ UNCHANGED <<identity, outbox>>
        /\ j \in identity /\ j \in DOMAIN runs \cup outbox
    BY <1>5 DEF BP_JOB_DELETE
  <2>2. j \in DOMAIN runs => j \in DOMAIN runs'
    BY <2>1, GoneForGood
  <2> QED
    BY <2>1, <2>2 DEF LuwKnown
<1>6. ASSUME NEW j \in Jobs, Age(j) PROVE LuwKnown'
  BY <1>1, <1>6 DEF Age, business
<1>7. ASSUME CommitClose \/ RollbackClose \/ CommitDelete \/ AbandonDelete PROVE LuwKnown'
  BY <1>1, <1>7 DEF CommitClose, RollbackClose, CommitDelete, AbandonDelete
<1>8. ASSUME NEW p \in Procs, \E j \in Jobs : Claim(p, j) PROVE LuwKnown'
  <2>1. luw' = NoLuw \/ luw'.kind = "drain"
    BY <1>8 DEF Claim
  <2> QED
    BY <1>1, <2>1 DEF LuwKnown
<1>9. ASSUME NEW p \in Procs, Acknowledge(p) \/ ReserveCount(p) \/ ReorgBusiness(p) \/ Crash(p) PROVE LuwKnown'
  <2>1. luw' = NoLuw \/ UNCHANGED <<luw, identity, outbox, old, closed>>
    BY <1>9 DEF Acknowledge, ReserveCount, ReorgBusiness, Crash
  <2> QED
    BY <1>1, <1>2, <2>1
<1> QED
  BY <1>3, <1>4, <1>5, <1>6, <1>7, <1>8, <1>9, BusinessSteps

-----------------------------------------------------------------------------
(* The processes *)

\* A process stays as it is.
Stays(q) == pc'[q] = pc[q] /\ job'[q] = job[q] /\ step'[q] = step[q] /\ rows'[q] = rows[q]

\* A process stays, rests, or takes one of its own steps.
LEMMA ProcessMoves ==
    ASSUME IInv, [Next]_vars, NEW q \in Procs
    PROVE  \/ Stays(q) \/ pc'[q] = "idle"
           \/ DrainRead(q) \/ (\E j \in Jobs : Claim(q, j)) \/ Import(q) \/ Acknowledge(q)
           \/ (\E j \in Jobs : DueRead(q, j)) \/ BeginRelease(q) \/ FindSuccessor(q) \/ ReserveCount(q) \/ MakeSuccessor(q)
           \/ (\E j \in Jobs : Work(q, j)) \/ (\E how \in {"ok", "failed", "threw"} : Executed(q, how))
           \/ ReorgRead(q) \/ ReorgBusiness(q)
<1>0. TypeOK
  BY DEF IInv
<1>1. CASE UNCHANGED process
  BY <1>1 DEF process, Stays
<1>2. CASE UNCHANGED vars \/ Caller
  BY <1>1, <1>2 DEF vars, Caller, JOB_CLOSE, BP_JOB_DELETE, Interrupt, Enqueue, Age, BP_EVENT_RAISE,
                    CommitClose, RollbackClose, CommitDelete, AbandonDelete
<1>3. ASSUME NEW p \in Procs, Rests(p) PROVE Stays(q) \/ pc'[q] = "idle"
  BY <1>0, <1>3, RestsDoes DEF Stays
<1>4. ASSUME NEW p \in Procs \ {q}, NEW to, NEW j, NEW n, NEW J,
             UNCHANGED pc \/ Goes(p, to), UNCHANGED job \/ job' = [job EXCEPT ![p] = j],
             UNCHANGED step \/ step' = [step EXCEPT ![p] = n], UNCHANGED rows \/ rows' = [rows EXCEPT ![p] = J]
      PROVE  Stays(q)
  BY <1>0, <1>4 DEF Goes, Stays, TypeOK
<1>5. ASSUME NEW p \in Procs \ {q}, Drains(p) PROVE Stays(q) \/ pc'[q] = "idle"
  <2>1. CASE DrainRead(p)
    BY <1>4, <2>1 DEF DrainRead
  <2>2. ASSUME NEW j \in Jobs, Claim(p, j) PROVE Stays(q)
    BY <1>4, <2>2 DEF Claim
  <2>3. CASE Import(p)
    BY <1>4, <2>3 DEF Import
  <2>4. CASE Acknowledge(p)
    BY <1>4, <2>4 DEF Acknowledge
  <2> QED
    BY <1>3, <1>5, <2>1, <2>2, <2>3, <2>4 DEF Drains, Drained
<1>6. ASSUME NEW p \in Procs \ {q}, Schedules(p) PROVE Stays(q) \/ pc'[q] = "idle"
  <2>1. ASSUME NEW j \in Jobs, DueRead(p, j) PROVE Stays(q)
    BY <1>4, <2>1 DEF DueRead
  <2>2. CASE BeginRelease(p)
    BY <1>3, <1>4, <2>2 DEF BeginRelease
  <2>3. CASE FindSuccessor(p)
    BY <1>4, <2>3 DEF FindSuccessor
  <2>4. CASE ReserveCount(p)
    BY <1>4, <2>4 DEF ReserveCount
  <2>5. CASE MakeSuccessor(p)
    BY <1>3, <1>4, <2>5 DEF MakeSuccessor
  <2> QED
    BY <1>3, <1>6, <2>1, <2>2, <2>3, <2>4, <2>5 DEF Schedules, Release
<1>7. ASSUME NEW p \in Procs \ {q}, Works(p) PROVE Stays(q) \/ pc'[q] = "idle"
  <2>1. ASSUME NEW j \in Jobs, Work(p, j) PROVE Stays(q)
    BY <1>4, <2>1 DEF Work
  <2>2. ASSUME NEW how, Executed(p, how) PROVE Stays(q) \/ pc'[q] = "idle"
    BY <1>3, <1>4, <2>2 DEF Executed
  <2> QED
    BY <1>3, <1>7, <2>1, <2>2 DEF Works, Record
<1>8. ASSUME NEW p \in Procs \ {q}, Reorganises(p) PROVE Stays(q) \/ pc'[q] = "idle"
  <2>1. CASE ReorgRead(p)
    BY <1>4, <2>1 DEF ReorgRead
  <2>2. CASE ReorgBusiness(p)
    BY <1>4, <2>2 DEF ReorgBusiness
  <2> QED
    BY <1>3, <1>8, <2>1, <2>2 DEF Reorganises, ReorgStore
<1>9. ASSUME NEW p \in Procs, \/ Drained(p) \/ Release(p) \/ Record(p) \/ ReorgStore(p)
                              \/ ReserveFails(p) \/ RecordFails(p) \/ Crash(p)
      PROVE  Stays(q) \/ pc'[q] = "idle"
  BY <1>3, <1>9 DEF Drained, Release, Record, ReorgStore, ReserveFails, RecordFails, Crash
<1> QED
  BY <1>2, <1>5, <1>6, <1>7, <1>8, <1>9 DEF Next, Drains, Schedules, Works, Reorganises

\* While a drain holds the write lock, nothing else is written to the business database.
LEMMA LockHolds ==
    ASSUME IInv, [Next]_vars, NEW q \in Procs, pc[q] \in {"claimed", "imported"}, pc'[q] = pc[q]
    PROVE  UNCHANGED <<luw, outbox, identity>>
<1>1. luw.kind = "drain" /\ luw.by = q /\ luw # NoLuw
  BY DEF IInv, Places, NoLuw
<1>2. CASE UNCHANGED <<business, old, history>>
  BY <1>2 DEF business
<1>3. ASSUME NEW j \in Jobs, JOB_CLOSE(j) \/ BP_JOB_DELETE(j) \/ Age(j) PROVE FALSE
  BY <1>1, <1>3 DEF JOB_CLOSE, BP_JOB_DELETE, Age
<1>4. ~(CommitClose \/ RollbackClose \/ CommitDelete \/ AbandonDelete)
  BY <1>1 DEF CommitClose, RollbackClose, CommitDelete, AbandonDelete
<1>5. ASSUME NEW p \in Procs, (\E j \in Jobs : Claim(p, j)) \/ ReserveCount(p) \/ ReorgBusiness(p) PROVE FALSE
  BY <1>1, <1>5 DEF Claim, ReserveCount, ReorgBusiness
<1>6. ASSUME NEW p \in Procs, Acknowledge(p) PROVE FALSE
  <2>1. p = q
    BY <1>1, <1>6 DEF Acknowledge, IInv, Places
  <2> QED
    BY <1>6, <2>1 DEF Acknowledge, Goes, IInv, TypeOK
<1>7. ASSUME NEW p \in Procs, Crash(p) PROVE UNCHANGED <<luw, outbox, identity>>
  <2>1. p # q
    BY <1>7, RestsDoes DEF Crash, IInv
  <2> QED
    BY <1>1, <1>7, <2>1 DEF Crash
<1> QED
  BY <1>2, <1>3, <1>4, <1>5, <1>6, <1>7, BusinessSteps

\* A job that is being released stays where it is.
LEMMA ScheduledStays ==
    ASSUME IInv, [Next]_vars, NEW q \in Procs, pc[q] \in Scheduling
    PROVE  /\ job[q] \in Timed /\ job[q] \in DOMAIN runs' /\ job[q] \notin old' /\ Succ[job[q]] \notin old'
           /\ pc[q] \in Deciding => runs'[job[q]].state # "WAITING" /\ job[q] \notin cancelled'
           /\ Succ[job[q]] \in DOMAIN runs => Succ[job[q]] \in DOMAIN runs'
<1>1. /\ job[q] \in Timed \cap DOMAIN runs /\ job[q] \notin old /\ Succ[job[q]] \notin old
      /\ pc[q] \in Deciding => runs[job[q]].state # "WAITING" /\ job[q] \notin cancelled
      /\ pc[q] # "idle" /\ job[q] \in Jobs
  BY JobsAssumption DEF IInv, Places, Scheduling, Deciding
<1>2. job[q] \in DOMAIN runs' /\ (Succ[job[q]] \in DOMAIN runs => Succ[job[q]] \in DOMAIN runs')
  BY <1>1, GoneForGood
<1>3. old' = old
  BY <1>1, BusinessDoes DEF Remembering
<1>4. runs[job[q]].state # "WAITING" => runs'[job[q]].state # "WAITING"
  BY <1>1, <1>2, StoreSteps DEF StoreStep, Moves
<1>5. job[q] \in ledger
  BY <1>1, OneCondition DEF IInv, Origins
<1>6. runs[job[q]].state # "WAITING" /\ job[q] \notin cancelled => job[q] \notin cancelled'
  BY <1>1, <1>5, BusinessDoes DEF Remembering, IsIn
<1> QED
  BY <1>1, <1>2, <1>3, <1>4, <1>6

\* Each process is where it believes to be.
LEMMA PlacesStep ==
    ASSUME IInv, [Next]_vars
    PROVE  Places'
<1> DEFINE Drain(q) == pc[q] \in {"claimed", "imported"} =>
              /\ luw = [kind |-> "drain", jobs |-> {job[q]}, by |-> q]
              /\ job[q] \in outbox
              /\ pc[q] = "imported" => job[q] \in DOMAIN runs
           Schedule(q) ==
              /\ pc[q] \in Scheduling => job[q] \in Timed \cap DOMAIN runs /\ job[q] \notin old /\ Succ[job[q]] \notin old
              /\ pc[q] \in Deciding => runs[job[q]].state # "WAITING" /\ job[q] \notin cancelled
              /\ pc[q] \in {"reserving", "reserved"} => Succ[job[q]] # None
              /\ pc[q] = "releasing" => Succ[job[q]] \in DOMAIN runs \cup {None}
<1>0. /\ TypeOK /\ \A q \in Procs : Drain(q) /\ Schedule(q)
      /\ pc \in [Procs -> {"idle", "draining", "claimed", "imported", "due", "decided", "reserving",
                         "reserved", "releasing", "executing", "recording", "reorganising", "removing"}]
      /\ job \in [Procs -> Jobs \cup {None}]
  BY DEF IInv, Places, TypeOK
<1> SUFFICES ASSUME NEW q \in Procs PROVE Drain(q)' /\ Schedule(q)'
  BY DEF Places
<1>1. CASE Stays(q)
  <2>1. Drain(q)'
    <3>1. CASE pc[q] \in {"claimed", "imported"}
      <4>1. UNCHANGED <<luw, outbox>> /\ job[q] \in outbox /\ (pc[q] = "imported" => job[q] \in DOMAIN runs)
        BY <1>0, <1>1, <3>1, LockHolds DEF Stays
      <4>2. pc[q] = "imported" => job[q] \in DOMAIN runs'
        BY <4>1, GoneForGood
      <4> QED
        BY <1>0, <1>1, <3>1, <4>1, <4>2 DEF Stays
    <3> QED
      BY <1>1, <3>1 DEF Stays
  <2>2. CASE pc[q] \in Scheduling
    BY <1>0, <1>1, <2>1, <2>2, ScheduledStays DEF Stays, Scheduling, Deciding
  <2>3. CASE pc[q] \notin Scheduling
    BY <1>1, <2>1, <2>3 DEF Stays, Scheduling, Deciding
  <2> QED
    BY <2>2, <2>3
<1>2. ASSUME pc'[q] \in {"idle", "draining", "executing", "recording", "reorganising", "removing"} PROVE Drain(q)' /\ Schedule(q)'
  BY <1>2 DEF Scheduling, Deciding
<1>3. ASSUME NEW j \in Jobs, Claim(q, j) PROVE Drain(q)' /\ Schedule(q)'
  <2>1. CASE StillThere(j)
    <3>1. pc'[q] = "claimed" /\ job'[q] = j /\ luw' = [kind |-> "drain", jobs |-> {j}, by |-> q] /\ j \in outbox'
      BY <1>0, <1>3, <2>1 DEF Claim, StillThere, Goes
    <3> QED
      BY <3>1 DEF Scheduling, Deciding
  <2>2. CASE ~StillThere(j)
    BY <1>2, <1>3, <2>2 DEF Claim
  <2> QED
    BY <2>1, <2>2
<1>4. ASSUME Import(q) PROVE Drain(q)' /\ Schedule(q)'
  <2>1. pc[q] = "claimed" /\ pc'[q] = "imported" /\ UNCHANGED <<job, luw, outbox>> /\ importIntent(job[q], seqOf[job[q]], TRUE)
    BY <1>0, <1>4 DEF Import, Goes, business
  <2>2. CASE job[q] \in ledger
    <3>1. job[q] \in DOMAIN runs /\ runs' = runs
      BY <2>1, <2>2 DEF importIntent, IInv, Origins
    <3> QED
      BY <1>0, <2>1, <3>1 DEF Scheduling, Deciding
  <2>3. CASE job[q] \notin ledger
    <3>1. job[q] \in DOMAIN runs'
      BY <2>1, <2>3 DEF importIntent, WithRun
    <3> QED
      BY <1>0, <2>1, <3>1 DEF Scheduling, Deciding
  <2> QED
    BY <2>2, <2>3
<1>5. ASSUME NEW j \in Jobs, DueRead(q, j) PROVE Drain(q)' /\ Schedule(q)'
  <2>1. pc'[q] = "due" /\ job'[q] = j /\ UNCHANGED <<runs, old>> /\ j \in Timed /\ IsIn(j, {"WAITING", "RELEASING"})
    BY <1>0, <1>5 DEF DueRead, Goes, storeVars, Decidable
  <2>2. j \notin old /\ Succ[j] \notin old /\ j \in DOMAIN runs
    BY <2>1 DEF IInv, Elapsed, Chained, IsIn, Final
  <2> QED
    BY <2>1, <2>2 DEF Scheduling, Deciding
<1>6. ASSUME BeginRelease(q) PROVE Drain(q)' /\ Schedule(q)'
  <2>1. CASE Decidable(job[q])
    <3>1. /\ pc[q] = "due" /\ pc'[q] = "decided" /\ UNCHANGED <<job, old, cancelled>> /\ IsIn(job[q], {"WAITING", "RELEASING"})
          /\ runs' = [runs EXCEPT ![job[q]].state = "RELEASING"]
      BY <1>0, <1>6, <2>1 DEF BeginRelease, beginRelease, Goes, history, Decidable
    <3>2. job[q] \in DOMAIN runs /\ runs[job[q]] \in Run /\ job[q] \notin cancelled
      BY <3>1 DEF IInv, Deleted, IsIn, TypeOK, StoreTypeOK
    <3>3. runs'[job[q]].state = "RELEASING"
      BY <3>1, <3>2 DEF Run
    <3> QED
      BY <3>1, <3>2, <3>3, ScheduledStays DEF Scheduling, Deciding
  <2>2. CASE ~Decidable(job[q])
    BY <1>0, <1>2, <1>6, <2>2, RestsDoes DEF BeginRelease
  <2> QED
    BY <2>1, <2>2
<1>7. ASSUME FindSuccessor(q) PROVE Drain(q)' /\ Schedule(q)'
  <2>1. /\ pc[q] = "decided" /\ UNCHANGED <<job, runs>>
        /\ \/ pc'[q] = "reserving" /\ Succ[job[q]] # None
           \/ pc'[q] = "releasing" /\ Succ[job[q]] \in DOMAIN runs \cup {None}
    BY <1>0, <1>7 DEF FindSuccessor, Goes, storeVars, NeedsSuccessor, successorOf
  <2> QED
    BY <2>1, ScheduledStays DEF Scheduling, Deciding
<1>8. ASSUME ReserveCount(q) PROVE Drain(q)' /\ Schedule(q)'
  <2>1. pc[q] = "reserving" /\ pc'[q] = "reserved" /\ UNCHANGED <<job, runs>>
    BY <1>0, <1>8 DEF ReserveCount, Goes, storeVars
  <2> QED
    BY <1>0, <2>1, ScheduledStays DEF Scheduling, Deciding
<1>9. ASSUME MakeSuccessor(q) PROVE Drain(q)' /\ Schedule(q)'
  <2>1. /\ pc[q] = "reserved" /\ job[q] \in DOMAIN runs /\ pc'[q] = "releasing" /\ UNCHANGED job
        /\ importIntent(Succ[job[q]], 0, SuccessorInstance(Succ[job[q]]))
    BY <1>0, <1>9, Unborn DEF MakeSuccessor, Goes
  <2>2. Succ[job[q]] \in DOMAIN runs'
    <3>1. CASE Succ[job[q]] \in ledger
      BY <2>1, <3>1 DEF importIntent, IInv, Origins
    <3>2. CASE Succ[job[q]] \notin ledger
      BY <2>1, <3>2 DEF importIntent, WithRun
    <3> QED
      BY <3>1, <3>2
  <2> QED
    BY <2>1, <2>2, ScheduledStays DEF Scheduling, Deciding
<1>10. ASSUME NEW j \in Jobs, Work(q, j) PROVE pc'[q] = "executing"
  BY <1>0, <1>10 DEF Work, Goes
<1>11. ASSUME NEW how, Executed(q, how) PROVE pc'[q] \in {"idle", "recording"}
  BY <1>0, <1>11, RestsDoes DEF Executed, Goes
<1>12. ASSUME DrainRead(q) \/ Acknowledge(q) \/ ReorgRead(q) \/ ReorgBusiness(q)
       PROVE  pc'[q] \in {"draining", "reorganising", "removing"}
  BY <1>0, <1>12 DEF DrainRead, Acknowledge, ReorgRead, ReorgBusiness, Goes
<1> HIDE DEF Drain, Schedule
<1> QED
  BY <1>1, <1>2, <1>3, <1>4, <1>5, <1>6, <1>7, <1>8, <1>9, <1>10, <1>11, <1>12, ProcessMoves

\* Nobody closes a job behind one whose retention has elapsed, and such a one is not new.
LEMMA NothingNewIsOld ==
    ASSUME IInv, [Next]_vars
    PROVE  /\ \A j \in outbox' \ outbox : j \notin old /\ After[j] \notin old
           /\ \A j \in identity' \ identity : j \notin old
           /\ \A q \in Procs : pc[q] # "idle" => old' = old
<1>0. Entering /\ Remembering /\ None \notin old
  BY BusinessDoes, JobsAssumption DEF IInv, TypeOK
<1>1. ASSUME NEW j \in outbox' \ outbox PROVE j \notin old /\ After[j] \notin old
  BY <1>0, <1>1 DEF Entering, Fresh, IInv, LuwKnown
<1>2. ASSUME NEW j \in identity' \ identity PROVE j \notin old
  BY <1>0, <1>2 DEF Entering, Fresh, IInv, Places, Scheduling
<1>3. ASSUME NEW q \in Procs, pc[q] # "idle" PROVE old' = old
  BY <1>0, <1>3 DEF Remembering
<1> QED
  BY <1>1, <1>2, <1>3

\* The drain before a reorganisation imports what is chained behind an old run.
LEMMA DrainedStep ==
    ASSUME IInv, [Next]_vars
    PROVE  DrainedFirst'
<1> DEFINE Drain(q) == pc[q] \in Draining => \A j \in outbox :
              j \in old \/ After[j] \in old => j \in rows[q] \/ (pc[q] # "draining" /\ j = job[q])
           Reorg(q) ==
              /\ pc[q] \in Reorganising =>
                    /\ rows[q] \subseteq old \ (Local \cup outbox)
                    /\ \A k \in outbox : After[k] \notin rows[q]
                    /\ \A k \in DOMAIN runs : After[k] \in rows[q] => runs[k].state \in Final
              /\ pc[q] = "removing" => rows[q] \cap identity = {}
<1>0. /\ TypeOK /\ \A q \in Procs : Drain(q) /\ Reorg(q)
      /\ pc \in [Procs -> {"idle", "draining", "claimed", "imported", "due", "decided", "reserving",
                         "reserved", "releasing", "executing", "recording", "reorganising", "removing"}]
      /\ job \in [Procs -> Jobs \cup {None}] /\ rows \in [Procs -> SUBSET Jobs]
  BY DEF IInv, DrainedFirst, TypeOK
<1> SUFFICES ASSUME NEW q \in Procs PROVE Drain(q)' /\ Reorg(q)'
  BY DEF DrainedFirst
<1>1. CASE Stays(q)
  <2>1. Drain(q)'
    <3>1. CASE pc[q] \in Draining
      <4>1. old' = old
        BY <3>1, NothingNewIsOld DEF Draining
      <4> QED
        BY <1>0, <1>1, <3>1, <4>1, NothingNewIsOld DEF Stays
    <3> QED
      BY <1>1, <3>1 DEF Stays
  <2>2. ASSUME pc[q] \in Reorganising
        PROVE  /\ rows[q] \subseteq old' \ (Local \cup outbox')
               /\ \A k \in outbox' : After[k] \notin rows[q]
               /\ \A k \in DOMAIN runs' : After[k] \in rows[q] => runs'[k].state \in Final
               /\ rows[q] \cap (identity' \ identity) = {}
    <3>1. /\ old' = old /\ rows[q] \subseteq old \ (Local \cup outbox)
          /\ \A k \in outbox : After[k] \notin rows[q]
          /\ \A k \in DOMAIN runs : After[k] \in rows[q] => runs[k].state \in Final
          /\ None \notin rows[q]
      BY <1>0, <2>2, NothingNewIsOld, JobsAssumption DEF Reorganising
    <3>2. /\ \A k \in outbox' : k \notin rows[q] /\ After[k] \notin rows[q]
          /\ rows[q] \cap (identity' \ identity) = {}
      BY <3>1, NothingNewIsOld
    <3>3. ASSUME NEW k \in DOMAIN runs', After[k] \in rows[q] PROVE runs'[k].state \in Final
      <4>1. CASE k \in DOMAIN runs
        BY <3>1, <3>3, <4>1, OverForGood
      <4>2. CASE k \notin DOMAIN runs
        <5>1. Arrives(k)
          BY <4>2, NeverBefore
        <5>2. k \in Local => After[k] = None
          BY OneCondition, JobsAssumption
        <5>3. \A p \in Procs : pc[p] = "claimed" => job[p] \in outbox
          BY DEF IInv, Places
        <5>4. \A p \in Procs : pc[p] = "reserved" => After[Succ[job[p]]] = None
          BY Unborn, OneCondition
        <5> QED
          BY <3>1, <3>3, <5>1, <5>2, <5>3, <5>4 DEF Arrives
      <4> QED
        BY <4>1, <4>2
    <3> QED
      BY <3>1, <3>2, <3>3
  <2>3. CASE pc[q] \in Reorganising
    BY <1>0, <1>1, <2>1, <2>2, <2>3 DEF Stays
  <2>4. CASE pc[q] \notin Reorganising
    BY <1>1, <2>1, <2>4 DEF Stays, Reorganising
  <2> QED
    BY <2>3, <2>4
<1>2. ASSUME pc'[q] \in {"idle", "due", "decided", "reserving", "reserved", "releasing", "executing", "recording"}
      PROVE  Drain(q)' /\ Reorg(q)'
  BY <1>2 DEF Draining, Reorganising
<1>3. ASSUME DrainRead(q) PROVE Drain(q)' /\ Reorg(q)'
  <2>1. pc'[q] = "draining" /\ rows'[q] = outbox /\ outbox' = outbox
    BY <1>0, <1>3 DEF DrainRead, Goes, business
  <2> QED
    BY <2>1 DEF Draining, Reorganising
<1>4. ASSUME NEW j \in Jobs, Claim(q, j) PROVE Drain(q)' /\ Reorg(q)'
  <2>1. pc[q] = "draining" /\ rows'[q] = rows[q] \ {j} /\ UNCHANGED <<outbox, old>>
    BY <1>0, <1>4 DEF Claim
  <2>2. CASE StillThere(j)
    <3>1. pc'[q] = "claimed" /\ job'[q] = j
      BY <1>0, <1>4, <2>2 DEF Claim, Goes
    <3> QED
      BY <1>0, <2>1, <3>1 DEF Draining, Reorganising
  <2>3. CASE ~StillThere(j)
    <3>1. pc'[q] = "draining" /\ j \notin outbox
      BY <1>4, <2>3 DEF Claim, StillThere
    <3> QED
      BY <1>0, <2>1, <3>1 DEF Draining, Reorganising
  <2> QED
    BY <2>2, <2>3
<1>5. ASSUME Import(q) PROVE Drain(q)' /\ Reorg(q)'
  <2>1. pc[q] = "claimed" /\ pc'[q] = "imported" /\ UNCHANGED <<job, rows, outbox, old>>
    BY <1>0, <1>5 DEF Import, Goes, business
  <2> QED
    BY <1>0, <2>1 DEF Draining, Reorganising
<1>6. ASSUME Acknowledge(q) PROVE Drain(q)' /\ Reorg(q)'
  <2>1. pc[q] = "imported" /\ pc'[q] = "draining" /\ UNCHANGED <<rows, old>> /\ outbox' = outbox \ {job[q]}
    BY <1>0, <1>6 DEF Acknowledge, Goes
  <2> QED
    BY <1>0, <2>1 DEF Draining, Reorganising
<1>7. ASSUME ReorgRead(q) PROVE Drain(q)' /\ Reorg(q)'
  <2>1. /\ pc[q] = "draining" /\ rows[q] = {} /\ pc'[q] = "reorganising" /\ rows'[q] = reorgCandidates(old)
        /\ UNCHANGED <<runs, outbox, old>>
    BY <1>0, <1>7 DEF ReorgRead, Goes, business, storeVars
  <2>2. \A j \in outbox : j \notin old /\ After[j] \notin old
    BY <1>0, <2>1 DEF Draining
  <2>3. /\ reorgCandidates(old) \subseteq old \ Local
        /\ \A k \in DOMAIN runs : After[k] \in reorgCandidates(old) => runs[k].state \in Final
    BY DEF reorgCandidates
  <2> QED
    BY <2>1, <2>2, <2>3 DEF Draining, Reorganising
<1>8. ASSUME ReorgBusiness(q) PROVE Drain(q)' /\ Reorg(q)'
  <2>1. /\ pc[q] = "reorganising" /\ pc'[q] = "removing" /\ UNCHANGED <<runs, rows, old>>
        /\ identity' = identity \ rows[q] /\ outbox' = outbox \ rows[q]
    BY <1>0, <1>8 DEF ReorgBusiness, Goes, storeVars
  <2> QED
    BY <1>0, <2>1 DEF Draining, Reorganising
<1>9. ASSUME NEW j \in Jobs, DueRead(q, j) \/ Work(q, j) PROVE pc'[q] \in {"due", "executing"}
  BY <1>0, <1>9 DEF DueRead, Work, Goes
<1>10. ASSUME BeginRelease(q) \/ FindSuccessor(q) \/ ReserveCount(q) \/ MakeSuccessor(q)
       PROVE  pc'[q] \in {"idle", "decided", "reserving", "reserved", "releasing"}
  BY <1>0, <1>10, RestsDoes DEF BeginRelease, FindSuccessor, ReserveCount, MakeSuccessor, Goes
<1>11. ASSUME NEW how, Executed(q, how) PROVE pc'[q] \in {"idle", "recording"}
  BY <1>0, <1>11, RestsDoes DEF Executed, Goes
<1> HIDE DEF Drain, Reorg
<1> QED
  BY <1>1, <1>2, <1>3, <1>4, <1>5, <1>6, <1>7, <1>8, <1>9, <1>10, <1>11, ProcessMoves

-----------------------------------------------------------------------------
(* The chain of periodic jobs *)

\* A job with a successor is not cancelled afterwards.
LEMMA NotCancelled ==
    ASSUME IInv, [Next]_vars, NEW k \in Timed, k \in DOMAIN runs \cup old, k \notin cancelled, ~IsIn(k, {"WAITING"})
    PROVE  k \notin cancelled'
<1>1. k \in identity => k \in ledger
  BY OneCondition, JobsAssumption DEF IInv, Elapsed, Origins
<1> QED
  BY <1>1, BusinessDoes DEF Remembering

\* What waits, or is being released, did not go back to it.
LEMMA NoWayBack ==
    ASSUME IInv, [Next]_vars, NEW k \in DOMAIN runs \cup old
    PROVE  /\ ~IsIn(k, {"WAITING"}) => ~IsIn(k, {"WAITING"})'
           /\ ~IsIn(k, {"WAITING", "RELEASING"}) => ~IsIn(k, {"WAITING", "RELEASING"})'
           /\ k \in DOMAIN runs' \cup old'
<1>1. old \subseteq old'
  BY BusinessDoes DEF Remembering
<1>2. CASE k \in DOMAIN runs /\ k \in DOMAIN runs'
  <2>1. Moves(k)
    BY <1>2, StoreSteps DEF StoreStep
  <2> QED
    BY <1>2, <2>1 DEF Moves, IsIn
<1>3. CASE k \notin DOMAIN runs'
  BY <1>1, <1>3, GoneForGood DEF IsIn
<1>4. CASE k \notin DOMAIN runs
  BY <1>1, <1>3, <1>4, NeverBefore DEF IsIn
<1> QED
  BY <1>2, <1>3, <1>4

\* The chain goes on.
LEMMA ChainedStep ==
    ASSUME IInv, [Next]_vars
    PROVE  Chained'
<1>0. Chained /\ Remembering /\ None \notin DOMAIN runs' \cup old' /\ StoreStep
  <2>1. TypeOK'
    BY TypeStep
  <2> QED
    BY <2>1, StoreSteps, BusinessDoes, JobsAssumption DEF IInv, TypeOK, StoreTypeOK
<1>1. ASSUME NEW k \in Jobs, Succ[k] \in DOMAIN runs' \cup old'
      PROVE  k \in DOMAIN runs' \cup old' /\ k \notin cancelled' /\ ~IsIn(k, {"WAITING"})'
  <2>1. Succ[k] # None /\ k \in Timed /\ Succ[k] \in Successors /\ Succ[k] \notin Local
    BY <1>0, <1>1, OneCondition, OnePredecessor
  <2>2. CASE Succ[k] \in DOMAIN runs \cup old
    <3>1. k \in DOMAIN runs \cup old /\ k \notin cancelled /\ ~IsIn(k, {"WAITING"})
      BY <1>0, <2>2 DEF Chained
    <3> QED
      BY <2>1, <3>1, NotCancelled, NoWayBack
  <2>3. CASE Succ[k] \notin DOMAIN runs \cup old
    <3>1. Arrives(Succ[k])
      BY <1>0, <1>1, <2>3 DEF Remembering, StoreStep
    <3>2. ASSUME NEW p \in Procs, pc[p] = "claimed" PROVE job[p] \notin Successors
      BY <3>2 DEF IInv, Places, Origins
    <3>3. PICK p \in Procs : pc[p] = "reserved" /\ Succ[job[p]] = Succ[k]
      BY <2>1, <3>1, <3>2 DEF Arrives
    <3>4. job[p] = k
      BY <2>1, <3>3, OnePredecessor, Unborn
    <3> QED
      BY <3>3, <3>4, ScheduledStays DEF Scheduling, Deciding, IsIn
  <2> QED
    BY <2>2, <2>3
<1>2. ASSUME NEW k \in Jobs, Succ[k] \in old' PROVE ~IsIn(k, {"WAITING", "RELEASING"})'
  <2>1. CASE Succ[k] \in old
    <3>1. k \in DOMAIN runs \cup old /\ ~IsIn(k, {"WAITING", "RELEASING"})
      BY <1>0, <2>1 DEF Chained
    <3> QED
      BY <3>1, NoWayBack
  <2>2. CASE Succ[k] \notin old
    <3>1. runs' = runs /\ ~IsIn(k, {"RELEASING"}) /\ Succ[k] \in DOMAIN runs
      BY <1>0, <1>2, <2>2 DEF Remembering, storeVars
    <3>2. ~IsIn(k, {"WAITING"})
      BY <1>0, <3>1 DEF Chained
    <3> QED
      BY <3>1, <3>2 DEF IsIn
  <2> QED
    BY <2>1, <2>2
<1>3. ASSUME NEW k \in DOMAIN runs', Succ[k] # None, runs'[k].state \notin {"WAITING", "RELEASING"}, k \notin cancelled'
      PROVE  Succ[k] \in DOMAIN runs' \cup old'
  <2>1. k \in Jobs /\ k \in Timed /\ k \notin cancelled
    BY <1>0, <1>3, OneCondition DEF StoreStep, StoreTypeOK, Remembering
  <2>2. k \in DOMAIN runs
    BY <1>0, <1>3, <2>1 DEF StoreStep, Arrives
  <2>3. CASE runs[k].state \notin {"WAITING", "RELEASING"}
    <3>1. Succ[k] \in DOMAIN runs \cup old
      BY <1>0, <1>3, <2>1, <2>2, <2>3 DEF Chained
    <3> QED
      BY <3>1, NoWayBack
  <2>4. CASE runs[k].state \in {"WAITING", "RELEASING"}
    <3>1. PICK p \in Procs : pc[p] = "releasing" /\ job[p] = k
      BY <1>0, <1>3, <2>1, <2>2, <2>4 DEF StoreStep, Moves
    <3>2. Succ[k] \in DOMAIN runs
      BY <1>3, <3>1 DEF IInv, Places
    <3> QED
      BY <3>1, <3>2, ScheduledStays DEF Scheduling
  <2> QED
    BY <2>3, <2>4
<1> QED
  BY <1>1, <1>2, <1>3 DEF Chained

-----------------------------------------------------------------------------
(* The workers *)

\* Only a worker starts a step.
LEMMA StartedBy ==
    ASSUME IInv, [Next]_vars
    PROVE  started' = started \/ \E p \in Procs, j \in Jobs : Work(p, j)
<1>1. CASE UNCHANGED vars
  BY <1>1 DEF vars, storeVars
<1>2. CASE Caller
  <2>1. ASSUME NEW j \in Jobs, JOB_CLOSE(j) \/ BP_JOB_DELETE(j) PROVE started' = started
    BY <2>1 DEF JOB_CLOSE, reserveSignalSeq, BP_JOB_DELETE, deleteJob, storeVars
  <2>2. ASSUME NEW j \in Jobs, Interrupt(j) \/ Enqueue(j) \/ Age(j) PROVE started' = started
    BY <2>2 DEF Interrupt, interruptQueued, Enqueue, enqueue, Age, storeVars
  <2>3. ASSUME NEW e, BP_EVENT_RAISE(e) PROVE started' = started
    BY <2>3 DEF BP_EVENT_RAISE, importNamedEvent
  <2>4. CASE CommitClose \/ RollbackClose \/ CommitDelete \/ AbandonDelete
    BY <2>4, OutsideRests DEF Outside, storeVars
  <2> QED
    BY <1>2, <2>1, <2>2, <2>3, <2>4 DEF Caller
<1>3. ASSUME NEW p \in Procs, Import(p) \/ BeginRelease(p) \/ MakeSuccessor(p) \/ Release(p) PROVE started' = started
  BY <1>3 DEF Import, importIntent, BeginRelease, beginRelease, MakeSuccessor, Release, releaseTimed, storeVars
<1>4. ASSUME NEW p \in Procs, Record(p) PROVE started' = started
  BY <1>4, RecordStep
<1>5. ASSUME NEW p \in Procs, ReorgStore(p) PROVE started' = started
  BY <1>5 DEF ReorgStore, removeRuns
<1>6. CASE Outside
  BY <1>6, OutsideRests DEF storeVars
<1> QED
  BY <1>1, <1>2, <1>3, <1>4, <1>5, <1>6 DEF Next, Drains, Schedules, Works, Reorganises, Outside

\* What is started stays started.
LEMMA StartedGrows ==
    ASSUME IInv, [Next]_vars, NEW j \in Jobs
    PROVE  /\ Len(started[j]) \in Nat /\ Len(started'[j]) \in Nat /\ Len(started[j]) <= Len(started'[j])
           /\ started'[j] = started[j] \/ IsIn(j, {"QUEUED"})
<1>0. started \in [Jobs -> Seq(Nat)] /\ Len(started[j]) \in Nat
  BY StartedNow
<1>1. CASE started' = started
  BY <1>0, <1>1
<1>2. ASSUME NEW p \in Procs, NEW k \in Jobs, Work(p, k)
      PROVE  /\ Len(started'[j]) \in Nat /\ Len(started[j]) <= Len(started'[j])
             /\ started'[j] = started[j] \/ IsIn(j, {"QUEUED"})
  <2>1. started' = [started EXCEPT ![k] = Append(@, Len(started[k]) + 1)] /\ k \in DOMAIN runs /\ runs[k].state = "QUEUED"
    BY <1>2, WorkStep
  <2>2. CASE k = j
    <3>1. started'[j] = Append(started[j], Len(started[j]) + 1) /\ started[j] \in Seq(Nat)
      BY <1>0, <2>1, <2>2
    <3> QED
      BY <1>0, <2>1, <2>2, <3>1 DEF IsIn
  <2>3. CASE k # j
    BY <1>0, <2>1, <2>3
  <2> QED
    BY <2>2, <2>3
<1> QED
  BY <1>0, <1>1, <1>2, StartedBy

\* A process that works began to, or has been at the same step.
LEMMA AtWork ==
    ASSUME IInv, [Next]_vars, NEW q \in Procs, pc'[q] \in Working
    PROVE  \/ pc[q] \in Working /\ job'[q] = job[q] /\ step'[q] = step[q]
           \/ \E j \in Jobs : Work(q, j) /\ job'[q] = j
<1>0. TypeOK /\ pc \in [Procs -> {"idle", "draining", "claimed", "imported", "due", "decided", "reserving",
                         "reserved", "releasing", "executing", "recording", "reorganising", "removing"}]
      /\ job \in [Procs -> Jobs \cup {None}]
  BY DEF IInv, TypeOK
<1>1. CASE Stays(q)
  BY <1>1 DEF Stays
<1>2. ASSUME DrainRead(q) \/ Import(q) \/ Acknowledge(q) \/ ReorgRead(q) \/ ReorgBusiness(q) PROVE FALSE
  BY <1>0, <1>2 DEF DrainRead, Import, Acknowledge, ReorgRead, ReorgBusiness, Goes, Working
<1>3. ASSUME NEW j \in Jobs, Claim(q, j) \/ DueRead(q, j) PROVE FALSE
  BY <1>0, <1>3 DEF Claim, DueRead, Goes, Working
<1>4. ASSUME BeginRelease(q) \/ FindSuccessor(q) \/ ReserveCount(q) \/ MakeSuccessor(q) PROVE FALSE
  BY <1>0, <1>4, RestsDoes DEF BeginRelease, FindSuccessor, ReserveCount, MakeSuccessor, Goes, Working
<1>5. ASSUME NEW j \in Jobs, Work(q, j) PROVE job'[q] = j
  BY <1>0, <1>5 DEF Work
<1>6. ASSUME NEW how, Executed(q, how) PROVE pc[q] \in Working /\ job'[q] = job[q] /\ step'[q] = step[q]
  <2>1. ~Rests(q)
    BY <1>0, RestsDoes DEF Working
  <2> QED
    BY <1>6, <2>1 DEF Executed, Working
<1>7. pc'[q] # "idle"
  BY DEF Working
<1> QED
  BY <1>1, <1>2, <1>3, <1>4, <1>5, <1>6, <1>7, ProcessMoves

\* No two processes work at one step, and one run runs at a time.
LEMMA WorkersStep ==
    ASSUME IInv, [Next]_vars
    PROVE  Workers'
<1>0. Workers /\ StoreStep
  BY StoreSteps DEF IInv
<1>1. ASSUME NEW q \in Procs, NEW j \in Jobs, Work(q, j)
      PROVE  /\ Len(started'[j]) = Len(started[j]) + 1 /\ Len(started[j]) \in Nat /\ Len(started[j]) < StepsOf(j)
             /\ step'[q] = IF Steps[j] = 0 THEN 0 ELSE Len(started[j]) + 1
  <2>1. started' = [started EXCEPT ![j] = Append(@, Len(started[j]) + 1)] /\ started \in [Jobs -> Seq(Nat)]
    BY <1>1, WorkStep, StartedNow
  <2>2. started'[j] = Append(started[j], Len(started[j]) + 1) /\ started[j] \in Seq(Nat)
    BY <2>1
  <2> QED
    BY <1>1, <2>2, WorkStep
<1>2. ASSUME NEW q \in Procs, pc'[q] \in Working
      PROVE  /\ job'[q] \in Jobs /\ step'[q] \in (IF Steps[job'[q]] = 0 THEN {0} ELSE 1 .. Steps[job'[q]])
             /\ 1 <= Len(started'[job'[q]]) /\ step'[q] <= Len(started'[job'[q]])
  <2>1. CASE pc[q] \in Working /\ job'[q] = job[q] /\ step'[q] = step[q]
    <3>1. /\ job[q] \in Jobs /\ step[q] \in (IF Steps[job[q]] = 0 THEN {0} ELSE 1 .. Steps[job[q]])
          /\ 1 <= Len(started[job[q]]) /\ step[q] <= Len(started[job[q]]) /\ step[q] \in Nat
      BY <1>0, <2>1 DEF Workers, IInv, TypeOK
    <3>2. Len(started[job[q]]) \in Nat /\ Len(started'[job[q]]) \in Nat /\ Len(started[job[q]]) <= Len(started'[job[q]])
      BY <3>1, StartedGrows
    <3> QED
      BY <2>1, <3>1, <3>2
  <2>2. ASSUME NEW j \in Jobs, Work(q, j), job'[q] = j
        PROVE  /\ job'[q] \in Jobs /\ step'[q] \in (IF Steps[job'[q]] = 0 THEN {0} ELSE 1 .. Steps[job'[q]])
               /\ 1 <= Len(started'[job'[q]]) /\ step'[q] <= Len(started'[job'[q]])
    <3>1. Steps[j] \in Nat
      BY OneCondition
    <3> QED
      BY <1>1, <2>2, <3>1 DEF StepsOf
  <2> QED
    BY <1>2, <2>1, <2>2, AtWork
<1>3. ASSUME NEW p \in Procs, NEW q \in Procs, NEW j \in Jobs, Work(p, j), job'[p] = j,
             pc[q] \in Working, job'[q] = job[q], step'[q] = step[q], job'[q] = j, step'[q] = step'[p]
      PROVE  FALSE
  <2>1. 1 <= Len(started[j]) /\ step[q] <= Len(started[j]) /\ step[q] \in Nat /\ Steps[j] \in Nat
    BY <1>0, <1>3, OneCondition DEF Workers, IInv, TypeOK
  <2> QED
    BY <1>1, <1>3, <2>1 DEF StepsOf
<1>4. ASSUME NEW p \in Procs, NEW q \in Procs, NEW j \in Jobs, NEW k \in Jobs, Work(p, j), Work(q, k), job'[p] = j, job'[q] = k
      PROVE  p = q
  <2>1. pc[p] = "idle" /\ pc[q] = "idle" /\ Goes(p, "executing") /\ Goes(q, "executing")
    BY <1>4 DEF Work
  <2> QED
    BY <2>1 DEF Goes, IInv, TypeOK
<1>5. ASSUME NEW p \in Procs, NEW q \in Procs, pc'[p] \in Working, pc'[q] \in Working, job'[p] = job'[q], step'[p] = step'[q]
      PROVE  p = q
  <2>1. CASE pc[p] \in Working /\ job'[p] = job[p] /\ step'[p] = step[p] /\ pc[q] \in Working /\ job'[q] = job[q] /\ step'[q] = step[q]
    BY <1>0, <1>5, <2>1 DEF Workers
  <2> QED
    BY <1>3, <1>4, <1>5, <2>1, AtWork
<1>6. ASSUME NEW j \in Jobs, NEW k \in Jobs, IsIn(j, {"RUNNING"})', IsIn(k, {"RUNNING"})' PROVE j = k
  <2>1. ASSUME NEW i \in Jobs, IsIn(i, {"RUNNING"})'
        PROVE  \/ IsIn(i, {"RUNNING"})
               \/ /\ ~Busy(i) /\ Len(started'[i]) = Len(started[i]) + 1 /\ Len(started[i]) \in Nat
                  /\ \A l \in Jobs \ {i} : started'[l] = started[l]
    <3>1. i \in DOMAIN runs /\ i \in DOMAIN runs'
      BY <1>0, <2>1 DEF StoreStep, Arrives, IsIn
    <3> QED
      BY <1>0, <2>1, <3>1, StartedGrows DEF StoreStep, Moves, IsIn
  <2>2. ~Busy(j) => ~IsIn(j, {"RUNNING"}) /\ ~IsIn(k, {"RUNNING"})
    BY DEF Busy
  <2>3. ~Busy(k) => ~IsIn(j, {"RUNNING"}) /\ ~IsIn(k, {"RUNNING"})
    BY DEF Busy
  <2>4. CASE IsIn(j, {"RUNNING"}) /\ IsIn(k, {"RUNNING"})
    BY <1>0, <2>4 DEF Workers
  <2>5. CASE ~IsIn(j, {"RUNNING"}) /\ ~IsIn(k, {"RUNNING"})
    BY <1>6, <2>1, <2>5
  <2> QED
    BY <1>6, <2>1, <2>2, <2>3, <2>4, <2>5
<1> QED
  BY <1>2, <1>5, <1>6 DEF Workers

-----------------------------------------------------------------------------
(* Deleted jobs and predecessors *)

\* A job that was deleted before it started never comes back.
LEMMA DeletedStep ==
    ASSUME IInv, [Next]_vars
    PROVE  Deleted'
<1>0. Deleted /\ StoreStep /\ Entering /\ Remembering
  BY StoreSteps, BusinessDoes DEF IInv
<1> SUFFICES ASSUME NEW j \in cancelled'
             PROVE  /\ started'[j] = <<>>
                    /\ j \in DOMAIN runs' => runs'[j].state = "DELETED"
                    /\ j \notin DOMAIN runs' => j \notin outbox' /\ j \in closed' \cup old'
  BY DEF Deleted
<1>1. CASE j \in cancelled
  <2>1. /\ started[j] = <<>> /\ j \in Jobs /\ j \in closed \cup Successors /\ j \notin Local
        /\ j \in DOMAIN runs => runs[j].state = "DELETED"
        /\ j \notin DOMAIN runs => j \notin outbox /\ j \in closed \cup old
    BY <1>0, <1>1, OnePredecessor DEF Deleted, IInv, TypeOK, Origins
  <2>2. started'[j] = <<>>
    BY <2>1, StartedGrows DEF IsIn
  <2>3. CASE j \in DOMAIN runs /\ j \in DOMAIN runs'
    BY <1>0, <2>1, <2>2, <2>3 DEF StoreStep, Moves
  <2>4. CASE j \in DOMAIN runs /\ j \notin DOMAIN runs'
    BY <1>0, <2>2, <2>4, GoneForGood DEF Remembering
  <2>5. CASE j \notin DOMAIN runs
    <3>1. j \notin outbox'
      BY <1>0, <1>1, <2>1, <2>5 DEF Entering, Fresh
    <3>2. j \notin DOMAIN runs'
      <4>1. \A p \in Procs : pc[p] = "claimed" => job[p] \in outbox
        BY DEF IInv, Places
      <4>2. ASSUME NEW p \in Procs, pc[p] = "reserved" PROVE Succ[job[p]] \notin closed \cup old
        BY <4>2, Unborn, OnePredecessor DEF IInv, Origins
      <4> QED
        BY <1>0, <2>1, <2>5, <4>1, <4>2 DEF StoreStep, Arrives
    <3> QED
      BY <1>0, <2>1, <2>2, <2>5, <3>1, <3>2 DEF Remembering
  <2> QED
    BY <2>3, <2>4, <2>5
<1>2. CASE j \notin cancelled
  <2>1. CASE IsIn(j, {"WAITING"}) /\ runs' = [runs EXCEPT ![j].state = "DELETED"] /\ UNCHANGED started
    <3>1. j \in DOMAIN runs /\ runs[j].state = "WAITING" /\ runs[j] \in Run
      BY <2>1 DEF IsIn, IInv, TypeOK, StoreTypeOK
    <3>2. started[j] = <<>>
      BY <3>1 DEF IInv, Progress
    <3>3. j \in DOMAIN runs' /\ runs'[j].state = "DELETED"
      BY <2>1, <3>1 DEF Run
    <3> QED
      BY <2>1, <3>2, <3>3
  <2>2. CASE j \in identity /\ j \notin ledger /\ j \in outbox \ outbox' /\ UNCHANGED storeVars
    <3>1. j \in closed /\ j \notin Local /\ j \in Jobs
      BY <2>2 DEF IInv, Origins, TypeOK
    <3>2. j \notin DOMAIN runs /\ j \notin old
      BY <2>2, <3>1 DEF IInv, Origins, Elapsed
    <3>3. started[j] = <<>>
      BY <3>1, <3>2 DEF IInv, Progress
    <3> QED
      BY <1>0, <2>2, <3>1, <3>2, <3>3 DEF storeVars, Remembering
  <2> QED
    BY <1>0, <1>2, <2>1, <2>2 DEF Remembering
<1> QED
  BY <1>1, <1>2

\* A job that is there stays, until the reorganisation takes it or it is deleted.
LEMMA ThereStays ==
    ASSUME IInv, [Next]_vars, NEW j \in Jobs, There(j)
    PROVE  There(j)' \/ j \in DOMAIN runs \ DOMAIN runs' \/ (j \in cancelled' /\ j \notin identity')
<1>0. StoreStep /\ Leaving
  BY StoreSteps, BusinessDoes
<1>1. CASE j \in DOMAIN runs
  BY <1>1 DEF There
<1>2. CASE j \in outbox /\ j \notin outbox' /\ j \notin DOMAIN runs
  <2>1. \A p \in Procs : pc[p] = "imported" => job[p] \in DOMAIN runs
    BY DEF IInv, Places
  <2>2. \A p \in Procs : pc[p] = "reorganising" => rows[p] \cap outbox = {}
    BY DEF IInv, DrainedFirst, Reorganising
  <2>3. j \notin ledger
    BY <1>2 DEF IInv, Origins
  <2> QED
    BY <1>0, <1>2, <2>1, <2>2, <2>3 DEF Leaving
<1>3. ASSUME NEW k \in Jobs, Succ[k] = j, IsIn(k, {"RELEASING"}) PROVE There(j)' \/ j \in DOMAIN runs
  <2>1. k \in DOMAIN runs /\ runs[k].state = "RELEASING" /\ k \notin old /\ j # None
    BY <1>3, JobsAssumption DEF IsIn, IInv, Elapsed, Final
  <2>2. k \in DOMAIN runs'
    BY <2>1, GoneForGood
  <2>3. CASE runs'[k].state = "RELEASING"
    BY <1>3, <2>2, <2>3 DEF There, IsIn
  <2>4. CASE runs'[k].state # "RELEASING"
    <3>1. PICK p \in Procs : pc[p] = "releasing" /\ job[p] = k
      BY <1>0, <2>1, <2>2, <2>4 DEF StoreStep, Moves
    <3> QED
      BY <1>3, <2>1, <3>1 DEF IInv, Places
  <2> QED
    BY <2>3, <2>4
<1>4. CASE j \in outbox'
  BY <1>4 DEF There
<1> QED
  BY <1>1, <1>2, <1>3, <1>4 DEF There

\* Identities resolve, and predecessors are there.
LEMMA ResolvedStep ==
    ASSUME IInv, [Next]_vars
    PROVE  Resolved'
<1>0. Resolved /\ StoreStep /\ Entering /\ Remembering /\ identity \subseteq Jobs
  BY StoreSteps, BusinessDoes DEF IInv, TypeOK
<1>1. ASSUME NEW j \in identity' PROVE There(j)'
  <2>1. CASE j \in identity
    BY <1>0, <1>1, <2>1, ThereStays, GoneForGood DEF Resolved
  <2>2. CASE j \in outbox'
    BY <2>2 DEF There
  <2>3. ASSUME NEW p \in Procs, pc[p] = "reserving", j = Succ[job[p]], UNCHANGED storeVars PROVE There(j)'
    <3>1. /\ job[p] \in DOMAIN runs /\ runs[job[p]].state # "WAITING" /\ job[p] \notin cancelled
          /\ Succ[job[p]] # None /\ Succ[job[p]] \notin old /\ job[p] \in Jobs
      BY <2>3, JobsAssumption DEF IInv, Places, Scheduling, Deciding
    <3>2. CASE runs[job[p]].state = "RELEASING"
      BY <2>3, <3>1, <3>2 DEF There, IsIn, storeVars
    <3>3. CASE runs[job[p]].state # "RELEASING"
      <4>1. Succ[job[p]] \in DOMAIN runs
        BY <3>1, <3>3 DEF IInv, Chained
      <4> QED
        BY <2>3, <4>1 DEF There, storeVars
    <3> QED
      BY <3>2, <3>3
  <2> QED
    BY <1>0, <1>1, <2>1, <2>2, <2>3 DEF Entering
<1>2. ASSUME NEW j \in Jobs, j \in outbox' \/ IsIn(j, {"WAITING"})', After[j] # None
      PROVE  There(After[j])' \/ After[j] \in cancelled'
  <2>0. After[j] \in Jobs /\ Accepts[j] = {} /\ j \notin Timed /\ j \notin Local
    BY <1>2, OneCondition
  <2>1. CASE j \in outbox \/ IsIn(j, {"WAITING"})
    <3>1. There(After[j]) \/ After[j] \in cancelled
      BY <1>0, <1>2, <2>1 DEF Resolved
    <3>2. After[j] \notin DOMAIN runs \ DOMAIN runs'
      BY <2>1, GoneForGood DEF IsIn, Final
    <3> QED
      BY <1>0, <2>0, <3>1, <3>2, ThereStays DEF Remembering
  <2>2. CASE j \notin outbox /\ j \in outbox'
    <3>1. After[j] \in luw.jobs \cup identity /\ luw.jobs \subseteq outbox'
      BY <1>0, <1>2, <2>2 DEF Entering, IInv, LuwKnown
    <3>2. CASE After[j] \in luw.jobs
      BY <3>1, <3>2 DEF There
    <3>3. CASE After[j] \in identity
      BY <1>0, <3>3, ThereStays, GoneForGood DEF Resolved
    <3> QED
      BY <3>1, <3>2, <3>3
  <2>3. CASE ~IsIn(j, {"WAITING"}) /\ IsIn(j, {"WAITING"})'
    <3>1. j \notin DOMAIN runs
      BY <2>3, NoWayBack
    <3>2. Arrives(j)
      BY <1>0, <2>3, <3>1 DEF StoreStep, IsIn
    <3>3. \A p \in Procs : pc[p] = "claimed" => job[p] \in outbox
      BY DEF IInv, Places
    <3> QED
      BY <2>0, <2>1, <3>2, <3>3, Unborn DEF Arrives
  <2> QED
    BY <1>2, <2>1, <2>2, <2>3
<1> QED
  BY <1>1, <1>2 DEF Resolved

-----------------------------------------------------------------------------
(* The theorems *)

\* Nothing is closed, imported or under way.
LEMMA InvInit ==
    Init => IInv
<1> SUFFICES ASSUME Init PROVE IInv
  OBVIOUS
<1>0. /\ runs = <<>> /\ DOMAIN runs = {} /\ started = [j \in Jobs |-> <<>>]
      /\ ledger = {} /\ completed = {} /\ named = [e \in Events |-> 0] /\ clock = 0
      /\ \A j \in Jobs : started[j] = <<>> /\ Len(started[j]) = 0 /\ DOMAIN started[j] = {}
  BY DEF Init, StoreInit
<1>1. /\ identity = {} /\ outbox = {} /\ luw = NoLuw /\ old = {} /\ closed = {} /\ cancelled = {} /\ crashes = 0
      /\ seqOf = [j \in Jobs |-> 0] /\ \A p \in Procs : pc[p] = "idle"
  BY DEF Init
<1>2. TypeOK
  <2>1. StoreTypeOK
    BY <1>0 DEF StoreTypeOK
  <2>2. luw \in [kind : {"none", "close", "delete", "drain"}, jobs : SUBSET Jobs, by : Procs \cup {None}]
    BY <1>1 DEF NoLuw
  <2>3. crashes \in 0 .. MaxCrashes
    BY <1>1, ProcsAssumption
  <2> QED
    BY <1>1, <2>1, <2>2, <2>3 DEF TypeOK, Init
<1>3. LuwKnown /\ Origins /\ Elapsed
  BY <1>0, <1>1 DEF LuwKnown, NoLuw, Origins, Elapsed
<1>4. Places /\ DrainedFirst
  BY <1>0, <1>1 DEF Places, DrainedFirst, Scheduling, Deciding, Draining, Reorganising
<1>5. Chained /\ Deleted /\ Resolved
  BY <1>0, <1>1 DEF Chained, Deleted, Resolved, IsIn
<1>6. StepsConsistent /\ Waits
  BY <1>0, <1>1 DEF StepsConsistent, Waits, NoLostWakeUp
<1>7. Progress
  BY <1>0, OneCondition DEF Progress, StepsOf
<1>8. Workers
  BY <1>0, <1>1 DEF Workers, Working, IsIn
<1> QED
  BY <1>2, <1>3, <1>4, <1>5, <1>6, <1>7, <1>8 DEF IInv

\* Whatever the callers, the processes and their deaths do, the two databases and the
\* processes stay in step: the inductive invariant holds in every state.
THEOREM JobsInvariant == Spec => []IInv
<1>1. IInv /\ [Next]_vars => IInv'
  <2> SUFFICES ASSUME IInv, [Next]_vars PROVE IInv'
    OBVIOUS
  <2>1. StepsConsistent' /\ Progress' /\ Waits'
    BY StoreSteps DEF StoreStep
  <2> QED
    BY <2>1, TypeStep, LuwStep, OriginsStep, ElapsedStep, PlacesStep, DrainedStep, ChainedStep, WorkersStep,
       DeletedStep, ResolvedStep DEF IInv
<1> QED
  BY InvInit, <1>1, PTL DEF Spec

\* The store's rows keep their types and the steps of a run tell where it is: the checks for
\* "inconsistent ordered steps" in osd-batch-runs.mjs cannot fail.
THEOREM StoreIsSound == Spec => []StoreSound
<1>1. IInv => StoreSound
  BY DEF IInv, StoreSound
<1> QED
  BY <1>1, JobsInvariant, PTL

\* No step of a job is started twice, and one process at most can record its result.
LEMMA OnceNow ==
    ASSUME IInv
    PROVE  RunsOnce
<1>1. StartedOnce
  BY DEF IInv, Progress, StartedOnce, StepsOf
<1>2. ASSUME NEW p \in Procs, pc[p] \in {"executing", "recording"}, StillRuns(job[p], step[p])
      PROVE  /\ job[p] \in Jobs /\ IsIn(job[p], {"RUNNING"})
             /\ step[p] = IF Steps[job[p]] = 0 THEN 0 ELSE Len(started[job[p]])
  <2>1. job[p] \in Jobs /\ step[p] \in IF Steps[job[p]] = 0 THEN {0} ELSE 1 .. Steps[job[p]]
    BY <1>2 DEF IInv, Workers, Working
  <2> QED
    BY <1>2, <2>1, StillRunsIs DEF IInv, IsIn
<1>3. ASSUME NEW p \in Procs, NEW q \in Procs,
             pc[p] \in {"executing", "recording"}, StillRuns(job[p], step[p]),
             pc[q] \in {"executing", "recording"}, StillRuns(job[q], step[q])
      PROVE  p = q
  <2>1. job[p] = job[q]
    BY <1>2, <1>3 DEF IInv, Workers
  <2>2. step[p] = step[q]
    BY <1>2, <1>3, <2>1
  <2> QED
    BY <1>3, <2>1, <2>2 DEF IInv, Workers, Working
<1>4. OneWorker
  BY <1>3 DEF OneWorker, IInv, Workers
<1> QED
  BY <1>1, <1>4 DEF RunsOnce

\* A report is run at most once, whatever the retries of imports, the number of workers, the
\* deaths and the reorganisation do.
THEOREM ReportsRunOnce == Spec => []RunsOnce
BY OnceNow, JobsInvariant, PTL

\* No wake-up is lost between the two databases.
THEOREM WakeUpsArrive == Spec => []NoLostWakeUp
<1>1. IInv => NoLostWakeUp
  BY DEF IInv, Waits
<1> QED
  BY <1>1, JobsInvariant, PTL

\* The reorganisation never takes a job that a waiting one is chained behind.
THEOREM PredecessorIsKept == Spec => []PredecessorKept
<1>1. ASSUME IInv PROVE PredecessorKept
  <2> SUFFICES ASSUME NEW j \in DOMAIN runs, runs[j].state = "WAITING", After[j] # None
               PROVE  \/ After[j] \in DOMAIN runs \cup outbox \cup cancelled
                      \/ \E k \in Jobs : Succ[k] = After[j] /\ IsIn(k, {"RELEASING"})
    BY DEF PredecessorKept
  <2>1. j \in Jobs /\ IsIn(j, {"WAITING"})
    BY <1>1 DEF IInv, TypeOK, StoreTypeOK, IsIn
  <2> QED
    BY <1>1, <2>1 DEF IInv, Resolved, There
<1> QED
  BY <1>1, JobsInvariant, PTL

\* Each instance of a periodic chain runs once and, once released, is followed by the next.
THEOREM ChainRuns == Spec => []ChainOfRuns
<1>1. ASSUME IInv PROVE ChainOfRuns
  <2>1. ASSUME NEW j \in DOMAIN runs, Succ[j] # None,
               runs[j].state \in {"QUEUED", "RUNNING", "COMPLETED", "FAILED", "INTERRUPTED"}
        PROVE  Succ[j] \in DOMAIN runs \cup old
    <3>1. j \notin cancelled
      BY <1>1, <2>1 DEF IInv, Deleted
    <3> QED
      BY <1>1, <2>1, <3>1 DEF IInv, Chained
  <2> QED
    BY <1>1, <2>1, OnceNow DEF ChainOfRuns, ChainGoesOn
<1> QED
  BY <1>1, JobsInvariant, PTL

\* A job deleted before it started never starts and has no successor.
THEOREM DeletedStaysDeleted == Spec => []DeletedForGood
<1>1. ASSUME IInv PROVE DeletedForGood
  <2>1. cancelled \subseteq Jobs
    BY <1>1 DEF IInv, TypeOK
  <2> QED
    BY <1>1, <2>1 DEF IInv, Deleted, Chained, DeletedForGood
<1> QED
  BY <1>1, JobsInvariant, PTL

\* No identity in the business database points at nothing.
THEOREM IdentitiesResolve == Spec => []IdentityResolves
<1>1. ASSUME IInv PROVE IdentityResolves
  BY <1>1 DEF IInv, Resolved, There, IdentityResolves
<1> QED
  BY <1>1, JobsInvariant, PTL
==============================================================================
