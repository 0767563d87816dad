----------------------------- MODULE DialogStep ------------------------------
(***************************************************************************)
(* The one work process and the dialog steps that share it                 *)
(* (tools/osd-dialog-step.mjs; the delivery of messages to a waiting       *)
(* session is drainAmcSession of tools/osd-amc.mjs).                       *)
(*                                                                         *)
(* All steps share one database connection, hence one LUW, and the ICF     *)
(* shim's one static server with its request and response. A step runs     *)
(* only while it holds the work process; WAIT commits, notes the shim's    *)
(* state on the step (roll-out), gives the work process up, and takes both *)
(* back when the time is over. A token stands for one client: when its     *)
(* step is over it may come with the next one.                             *)
(*                                                                         *)
(* Time is abstracted: a sleep may end at any moment.                      *)
(***************************************************************************)
EXTENDS Integers, Sequences, FiniteSets

CONSTANTS Sessions,      \* steps that answer a request: dialogStep
          Readers,       \* reads of the shared connection: exclusive
          Receivers,     \* deliveries of a message to a session in a WAIT: dialogStep
          InjectedClock, \* WAIT sleeps on a clock somebody else moves (setWaitClock)
          NoToken,       \* undefined, where a token would stand
          NoState,       \* no state of the shim
          MaxLuw,        \* bound: the LUWs of one step
          MaxRows        \* bound: the rows one LUW writes

ASSUME ClientsDisjoint ==
    /\ Sessions \cap Readers = {} /\ Sessions \cap Receivers = {} /\ Readers \cap Receivers = {}
ASSUME StepBounds == MaxLuw \in Nat \ {0} /\ MaxRows \in Nat /\ InjectedClock \in BOOLEAN

Tokens  == Sessions \cup Readers \cup Receivers
Dialog  == Sessions \cup Receivers
IcfState == [of : Sessions, rev : {0, 1}]

ASSUME NothingAssumption == NoToken \notin Tokens /\ NoState \notin IcfState

VARIABLES
    holder,   \* the token that has the work process
    waiting,  \* the tokens that wait for it, in arrival order
    pc,       \* where each token's step is
    serves,   \* the session a receiver delivers to
    conn,     \* the rows written on the connection and not committed
    db,       \* the rows committed
    icf,      \* the shim's server: the session it belongs to and its state
    saved,    \* token.rolledOut: the shim's state a rolled-out step comes back to
    found,    \* inSession's found: the shim's state a receiver puts back
    sy,       \* sy-subrc, one for the process
    luwEnd,   \* token.luwEnd: the LUWs whose end a host service waits for
    luw,      \* history: the number of the step's current LUW
    wrote,    \* history: the rows the step wrote
    fate,     \* history: what the step was told of each of its LUWs
    own,      \* history: the shim's state as the session and its receivers left it
    expect    \* history: sy-subrc as the step's last statement set it

shim    == <<icf, saved, found, own>>
data    == <<conn, db, luwEnd, luw, wrote, fate>>
vars    == <<holder, waiting, pc, serves, conn, db, icf, saved, found, sy,
             luwEnd, luw, wrote, fate, own, expect>>

Luws == 1 .. MaxLuw
Fates == {"open", "committed", "rolled back"}

Row(t, n) == <<t, luw[t], n>>

-----------------------------------------------------------------------------
(* The work process *)

\* Mutant of acquire: who comes last is served first.
AcquireFirst(t) ==
    IF holder = NoToken
    THEN holder' = t /\ UNCHANGED waiting
    ELSE waiting' = <<t>> \o waiting /\ UNCHANGED holder

\* The continuation of an acquire that is granted runs later (Start, RollIn).
acquire(t) ==
    IF holder = NoToken
    THEN holder' = t /\ UNCHANGED waiting
    ELSE waiting' = Append(waiting, t) /\ UNCHANGED holder

\* Mutant of release: the work process is dropped, whoever waits.
Drop == holder' = NoToken /\ UNCHANGED waiting

\* Handed on, not dropped.
release ==
    IF waiting = <<>>
    THEN holder' = NoToken /\ UNCHANGED waiting
    ELSE holder' = Head(waiting) /\ waiting' = Tail(waiting)

Runs(t) == holder = t /\ pc[t] = "running"

\* The session whose shim state a step runs in.
SessionOf(t) == IF t \in Receivers THEN serves[t] ELSE t

-----------------------------------------------------------------------------
(* The LUW *)

\* endLuw: the services that wait for the end of this step's LUW are told.
EndLuw(t, how) ==
    /\ luwEnd' = [luwEnd EXCEPT ![t] = {}]
    /\ fate' = [fate EXCEPT ![t][luw[t]] = how]

Commit(t)   == db' = db \cup conn /\ conn' = {} /\ EndLuw(t, "committed")

\* Mutant of Rollback: nobody is told.
RollbackUntold(t) ==
    /\ db' = db /\ conn' = {}
    /\ fate' = [fate EXCEPT ![t][luw[t]] = "rolled back"]
    /\ UNCHANGED luwEnd

Rollback(t) == db' = db /\ conn' = {} /\ EndLuw(t, "rolled back")

\* The step goes on in a new LUW.
NextLuw(t) == luw[t] < MaxLuw /\ luw' = [luw EXCEPT ![t] = @ + 1]

-----------------------------------------------------------------------------
(* A step *)

Init ==
    /\ holder = NoToken /\ waiting = <<>>
    /\ pc = [t \in Tokens |-> "idle"]
    /\ serves = [r \in Receivers |-> NoToken]
    /\ conn = {} /\ db = {}
    /\ icf = NoState
    /\ saved = [t \in Dialog |-> NoState]
    /\ found = [r \in Receivers |-> NoState]
    /\ sy = 0
    /\ luwEnd = [t \in Dialog |-> {}]
    /\ luw = [t \in Dialog |-> 1]
    /\ wrote = [t \in Dialog |-> {}]
    /\ fate = [t \in Dialog |-> [k \in Luws |-> "open"]]
    /\ own = [t \in Sessions |-> NoState]
    /\ expect = [t \in Dialog |-> 0]

\* exclusive and dialogStep up to `await acquire(token)`.
Arrive(t) ==
    /\ t \in Sessions \cup Readers
    /\ pc[t] = "idle"
    /\ acquire(t)
    /\ pc' = [pc EXCEPT ![t] = "queued"]
    /\ UNCHANGED <<serves, data, shim, sy, expect>>

\* The step has the work process and begins. A request hangs its own entities on
\* the shim's server; a receiver runs in the state of the session it delivers to.
Start(t) ==
    /\ holder = t /\ pc[t] = "queued"
    /\ pc' = [pc EXCEPT ![t] = "running"]
    /\ IF t \in Sessions
       THEN /\ icf' = [of |-> t, rev |-> 0]
            /\ own' = [own EXCEPT ![t] = icf']
            /\ UNCHANGED <<saved, found>>
       ELSE IF t \in Receivers
       THEN /\ found' = [found EXCEPT ![t] = icf]
            /\ icf' = saved[serves[t]]
            /\ UNCHANGED <<saved, own>>
       ELSE UNCHANGED shim
    /\ expect' = IF t \in Dialog THEN [expect EXCEPT ![t] = sy] ELSE expect
    /\ UNCHANGED <<holder, waiting, serves, data, sy>>

\* A statement of the ABAP: it may write a row, and sets sy-subrc.
Write(t) ==
    /\ t \in Dialog /\ Runs(t)
    /\ \E n \in 1 .. MaxRows :
          /\ Row(t, n) \notin wrote[t]
          /\ conn' = conn \cup {Row(t, n)}
          /\ wrote' = [wrote EXCEPT ![t] = @ \cup {Row(t, n)}]
    /\ sy' = 0 /\ expect' = [expect EXCEPT ![t] = 0]
    /\ UNCHANGED <<holder, waiting, pc, serves, db, luwEnd, luw, fate, shim>>

ReadNothing(t) ==
    /\ t \in Dialog /\ Runs(t)
    /\ sy' = 4 /\ expect' = [expect EXCEPT ![t] = 4]
    /\ UNCHANGED <<holder, waiting, pc, serves, data, shim>>

\* The handler, or a receiver on its behalf, changes the response.
Respond(t) ==
    /\ t \in Dialog /\ Runs(t) /\ icf # NoState
    /\ icf' = [icf EXCEPT !.rev = 1]
    /\ own' = [own EXCEPT ![SessionOf(t)].rev = 1]
    /\ UNCHANGED <<holder, waiting, pc, serves, data, saved, found, sy, expect>>

\* A host service keeps something until the end of this LUW.
onStepLuwEnd(t) ==
    /\ t \in Dialog /\ Runs(t)
    /\ luwEnd' = [luwEnd EXCEPT ![t] = @ \cup {luw[t]}]
    /\ UNCHANGED <<holder, waiting, pc, serves, conn, db, luw, wrote, fate, shim, sy, expect>>

\* COMMIT WORK and ROLLBACK WORK of the ABAP itself (installLuwEndHooks).
CommitWork(t) ==
    /\ t \in Dialog /\ Runs(t)
    /\ Commit(t) /\ NextLuw(t)
    /\ UNCHANGED <<holder, waiting, pc, serves, wrote, shim, sy, expect>>

RollbackWork(t) ==
    /\ t \in Dialog /\ Runs(t)
    /\ Rollback(t) /\ NextLuw(t)
    /\ UNCHANGED <<holder, waiting, pc, serves, wrote, shim, sy, expect>>

\* What inSession does after a receiver, whether it ended well or not.
LeaveSession(t) ==
    IF t \in Receivers
    THEN /\ saved' = [saved EXCEPT ![serves[t]] = icf]
         /\ icf' = found[t]
         /\ found' = [found EXCEPT ![t] = NoState]
         /\ UNCHANGED own
    ELSE UNCHANGED shim

\* The work is done: the database commit, then the work process goes on.
EndOk(t) ==
    /\ Runs(t)
    /\ IF t \in Dialog THEN Commit(t) ELSE UNCHANGED <<conn, db, luwEnd, fate>>
    /\ LeaveSession(t)
    /\ release
    /\ pc' = [pc EXCEPT ![t] = IF t \in Dialog THEN "after" ELSE "idle"]
    /\ UNCHANGED <<serves, luw, wrote, sy, expect>>

\* An exception nobody caught, a failed commit included: the rollback.
Dump(t) ==
    /\ t \in Dialog /\ holder = t /\ pc[t] \in {"running", "polling", "failing"}
    /\ Rollback(t)
    /\ LeaveSession(t)
    /\ release
    /\ pc' = [pc EXCEPT ![t] = "after dump"]
    /\ UNCHANGED <<serves, luw, wrote, sy, expect>>

-----------------------------------------------------------------------------
(* After the step *)

\* After-step work may take the work process itself, for a publication; the step
\* it follows is over and holds nothing.
Publish(t) ==
    /\ pc[t] = "after"
    /\ acquire(t)
    /\ pc' = [pc EXCEPT ![t] = "to publish"]
    /\ UNCHANGED <<serves, data, shim, sy, expect>>

Published(t) ==
    /\ holder = t /\ pc[t] = "to publish"
    /\ release
    /\ pc' = [pc EXCEPT ![t] = "published"]
    /\ UNCHANGED <<serves, data, shim, sy, expect>>

Over == {"after", "after dump", "published"}

\* The client's next step is another one: its history starts anew.
Forget(t) ==
    /\ db' = {row \in db : row[1] # t}
    /\ wrote' = [wrote EXCEPT ![t] = {}]
    /\ luw' = [luw EXCEPT ![t] = 1]
    /\ fate' = [fate EXCEPT ![t] = [k \in Luws |-> "open"]]
    /\ expect' = [expect EXCEPT ![t] = 0]
    /\ UNCHANGED <<conn, luwEnd>>

\* The after-step work is done and dialogStep returns to its caller.
Return(t) ==
    /\ t \in Sessions /\ pc[t] \in Over
    /\ pc' = [pc EXCEPT ![t] = "idle"]
    /\ own' = [own EXCEPT ![t] = NoState]
    /\ Forget(t)
    /\ UNCHANGED <<holder, waiting, serves, icf, saved, found, sy>>

-----------------------------------------------------------------------------
(* WAIT *)

\* Mutant of Wait: the work process is given up in the middle of the LUW.
WaitUncommitted(t) ==
    /\ t \in Dialog /\ holder = t /\ pc[t] \in {"running", "polling"}
    /\ saved' = [saved EXCEPT ![t] = icf]
    /\ release
    /\ pc' = [pc EXCEPT ![t] = "asleep"]
    /\ UNCHANGED <<serves, data, icf, found, own, sy, expect>>

\* WAIT UP TO, and WAIT UNTIL whose condition is (still) false: commitAll, rollOut,
\* release. (A commit that fails ends the step: Dump.)
Wait(t) ==
    /\ t \in Dialog /\ holder = t /\ pc[t] \in {"running", "polling"}
    /\ Commit(t) /\ NextLuw(t)
    /\ saved' = [saved EXCEPT ![t] = icf]
    /\ release
    /\ pc' = [pc EXCEPT ![t] = "asleep"]
    /\ UNCHANGED <<serves, wrote, icf, found, own, sy, expect>>

\* waitPump: a message for the sleeping session is delivered by a step of its own,
\* and the WAIT waits for that step.
Deliver(s, r) ==
    /\ s \in Sessions /\ r \in Receivers
    /\ pc[s] = "asleep" /\ pc[r] = "idle"
    /\ acquire(r)
    /\ serves' = [serves EXCEPT ![r] = s]
    /\ pc' = [pc EXCEPT ![r] = "queued", ![s] = "pumping"]
    /\ UNCHANGED <<data, shim, sy, expect>>

\* The delivery returned: the session sleeps on ...
Delivered(r) ==
    /\ r \in Receivers /\ pc[r] \in Over \ {"after dump"}
    /\ serves' = [serves EXCEPT ![r] = NoToken]
    /\ pc' = [pc EXCEPT ![r] = "idle", ![serves[r]] = "asleep"]
    /\ Forget(r)
    /\ UNCHANGED <<holder, waiting, shim, sy>>

\* ... or, after a dump of the receiver or of its after-step work, ends the WAIT
\* with the exception, once it has the work process back.
DeliveryFailed(r) ==
    /\ r \in Receivers /\ pc[r] \in Over
    /\ serves' = [serves EXCEPT ![r] = NoToken]
    /\ acquire(serves[r])
    /\ pc' = [pc EXCEPT ![r] = "idle", ![serves[r]] = "waking failed"]
    /\ Forget(r)
    /\ UNCHANGED <<shim, sy>>

\* Mutant of Wake: sy-subrc is set before the work process is taken back.
WakeThenAcquire(t) ==
    /\ t \in Dialog /\ pc[t] = "asleep"
    /\ sy' = 0 /\ expect' = [expect EXCEPT ![t] = 0]
    /\ acquire(t)
    /\ pc' = [pc EXCEPT ![t] = "waking late"]
    /\ UNCHANGED <<serves, data, shim>>

\* The time is over.
Wake(t) ==
    /\ t \in Dialog /\ pc[t] = "asleep"
    /\ acquire(t)
    /\ pc' = [pc EXCEPT ![t] = "waking"]
    /\ UNCHANGED <<serves, data, shim, sy, expect>>

\* WAIT UNTIL on a clock nobody moved: `subrc(8)`, and only then the work process.
WakeAtCeiling(t) ==
    /\ InjectedClock
    /\ t \in Dialog /\ pc[t] = "asleep"
    /\ sy' = 8 /\ expect' = [expect EXCEPT ![t] = 8]
    /\ acquire(t)
    /\ pc' = [pc EXCEPT ![t] = "waking late"]
    /\ UNCHANGED <<serves, data, shim>>

Waking == {"waking", "waking late", "waking failed"}

\* Where a step that took the work process back goes on, and the sy-subrc it sets
\* there: the condition came true or the time ran out, the condition is still
\* false, the ceiling was reached, the delivery failed.
WaitEnd(t) ==
    CASE pc[t] = "waking"        -> {<<"running", 0>>, <<"running", 8>>, <<"polling", sy>>}
      [] pc[t] = "waking late"   -> {<<"running", sy>>}
      [] pc[t] = "waking failed" -> {<<"failing", sy>>}

\* The step has the work process back, and with it the shim's state it left.
RollIn(t) ==
    /\ holder = t /\ pc[t] \in Waking
    /\ icf' = saved[t]
    /\ saved' = [saved EXCEPT ![t] = NoState]
    /\ \E on \in WaitEnd(t) :
          /\ pc' = [pc EXCEPT ![t] = on[1]]
          /\ sy' = on[2]
          /\ expect' = IF pc[t] = "waking" THEN [expect EXCEPT ![t] = on[2]] ELSE expect
    /\ UNCHANGED <<holder, waiting, serves, data, found, own>>

-----------------------------------------------------------------------------
Step(t) ==
    \/ Arrive(t) \/ Start(t)
    \/ Write(t) \/ ReadNothing(t) \/ Respond(t)
    \/ onStepLuwEnd(t) \/ CommitWork(t) \/ RollbackWork(t)
    \/ EndOk(t) \/ Dump(t)
    \/ Publish(t) \/ Published(t) \/ Return(t)
    \/ Wait(t) \/ Wake(t) \/ WakeAtCeiling(t) \/ RollIn(t)
    \/ Delivered(t) \/ DeliveryFailed(t)

Next ==
    \/ \E t \in Tokens : Step(t)
    \/ \E s \in Sessions, r \in Receivers : Deliver(s, r)

Spec == Init /\ [][Next]_vars

\* A granted continuation runs (the event loop), a step that has the work process
\* does not compute for ever, and after-step work returns. Nothing says that a
\* client comes, or that a sleep ends.
Fairness ==
    \A t \in Tokens :
        /\ WF_vars(Start(t)) /\ WF_vars(RollIn(t)) /\ WF_vars(Published(t))
        /\ WF_vars(EndOk(t) \/ Dump(t))

FairSpec == Spec /\ Fairness

-----------------------------------------------------------------------------
(* Properties *)

TypeOK ==
    /\ holder \in Tokens \cup {NoToken}
    /\ waiting \in Seq(Tokens)
    /\ pc \in [Tokens -> {"idle", "queued", "running", "polling", "failing", "asleep", "pumping",
                           "to publish"} \cup Waking \cup Over]
    /\ serves \in [Receivers -> Sessions \cup {NoToken}]
    /\ conn \subseteq Dialog \X Luws \X (1 .. MaxRows)
    /\ db \subseteq Dialog \X Luws \X (1 .. MaxRows)
    /\ icf \in IcfState \cup {NoState}
    /\ saved \in [Dialog -> IcfState \cup {NoState}]
    /\ found \in [Receivers -> IcfState \cup {NoState}]
    /\ sy \in {0, 4, 8}
    /\ luwEnd \in [Dialog -> SUBSET Luws]
    /\ luw \in [Dialog -> Luws]
    /\ wrote \in [Dialog -> SUBSET (Dialog \X Luws \X (1 .. MaxRows))]
    /\ fate \in [Dialog -> [Luws -> Fates]]
    /\ own \in [Sessions -> IcfState \cup {NoState}]
    /\ expect \in [Dialog -> {0, 4, 8}]

\* A LUW is whole: of the rows a step wrote in one LUW all are in the database
\* once the step was told it is committed, and none before that or after a
\* rollback - whatever the other steps committed or rolled back on the same
\* connection, and wherever the step slept ("a partial write reported as a whole
\* one" is what exclusive was introduced against).
LuwAtomic ==
    \A t \in Dialog, k \in Luws :
        LET rows == {row \in wrote[t] : row[2] = k} IN
        IF fate[t][k] = "committed" THEN rows \subseteq db ELSE rows \cap db = {}

\* A running step finds the shim's server as it, or a receiver that delivered to
\* it while it slept, left it: never another request's entities (rollOut, rollIn,
\* inSession).
IcfIsOwn ==
    \A t \in Dialog : Runs(t) => icf = own[SessionOf(t)]

\* sy-subrc is the running step's own: what its last statement, a WAIT included,
\* set. The runtime has one sy structure for all steps.
SyIsOwn ==
    \A t \in Dialog : Runs(t) => sy = expect[t]

\* The step that runs finds the one ICF server and the one sy structure as if nobody had
\* used them while it slept or waited for the work process.
OwnContext == IcfIsOwn /\ SyIsOwn

\* What a host service keeps for a LUW (the pending definitions of the job port)
\* is gone when the LUW is: endLuw reaches the step's own callbacks, at each end.
LuwEndTold ==
    \A t \in Dialog : luwEnd[t] # {} =>
        luwEnd[t] = {luw[t]} /\ fate[t][luw[t]] = "open" /\ pc[t] = "running"

\* The work process is never dropped while somebody waits, and every step that
\* waits is in the queue exactly once: no wake-up is lost, none is double.
NeedsWorkProcess == {"queued", "to publish"} \cup Waking
HandedOn ==
    /\ waiting # <<>> => holder # NoToken
    /\ \A t \in Tokens :
          LET places == {i \in DOMAIN waiting : waiting[i] = t} IN
          IF pc[t] \in NeedsWorkProcess
          THEN Cardinality(places) = (IF holder = t THEN 0 ELSE 1)
          ELSE places = {} /\ (holder = t => pc[t] \in {"running", "polling", "failing"})

\* The work process has one holder and one queue, in every state of every step.
QueueSound == TypeOK /\ HandedOn

\* Whoever waits for the work process gets it, in whatever order the others come,
\* sleep and come back (first in, first out).
Served ==
    \A t \in Tokens : (pc[t] \in NeedsWorkProcess) ~> (holder = t)
=============================================================================
