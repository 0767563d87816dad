------------------------------- MODULE Daemon --------------------------------
(***************************************************************************)
(* The daemon host (tools/osd-daemon-host.mjs): an instance has one queue  *)
(* of callbacks, each of which is a dialog step of its own; a stop is an   *)
(* entry of the queue that goes to its end until nothing else is in it;    *)
(* a callback that dumps ends the object, and a new one is told on_error.  *)
(*                                                                         *)
(* One callback runs at a time, whichever daemon's it is (the work         *)
(* process, module DialogStep). A call of the manager or of a handle comes *)
(* from another step, or from the callback that runs, hence at any time;   *)
(* so does the expiry of a timer.                                          *)
(***************************************************************************)
EXTENDS Integers, Sequences, FiniteSets

CONSTANTS Daemons,   \* instance ids
          Handlers,  \* timer handlers a daemon may arm
          None,      \* no callback
          MaxSends,  \* bound: the messages sent
          MaxArms,   \* bound: the timers armed
          MaxDumps   \* bound: the callbacks that dump

ASSUME DaemonBounds == MaxSends \in Nat /\ MaxArms \in Nat /\ MaxDumps \in Nat

VARIABLES
    life,      \* whether the instance is in instances
    stopping,  \* row.stopping
    queue,     \* row.queue: the callbacks to come
    pending,   \* row.pending
    timers,    \* row.timers: the handlers armed
    step,      \* the callback that runs
    catching,  \* the callback that dumped, until the new object is there
    object,    \* how many objects the instance has had before
    sent,      \* history: how many messages were sent
    arms,      \* history: how many timers were armed
    got,       \* history: the last message each daemon got
    told,      \* history: the objects that were told on_error, or need not be
    stopFailed \* history: the daemons whose on_stop dumped

vars == <<life, stopping, queue, pending, timers, step, catching, object, sent, arms, got, told,
          stopFailed>>
histories == <<sent, arms, got, told, stopFailed>>

Entry(cb, of) == [cb |-> cb, of |-> of]
Callbacks == {"on_start", "on_message", "on_stop", "on_error", "on_timeout"}
Running == [of : Daemons, cb : Callbacks, arg : (0 .. MaxSends) \cup Handlers]

ASSUME NoCallback == None \notin Callbacks /\ None \notin Running

\* What the count of pending callbacks leaves out.
Uncounted == {"on_stop", "on_timeout"}

Init ==
    /\ life = [d \in Daemons |-> "none"]
    /\ stopping = [d \in Daemons |-> FALSE]
    /\ queue = [d \in Daemons |-> <<>>]
    /\ pending = [d \in Daemons |-> 0]
    /\ timers = [d \in Daemons |-> {}]
    /\ step = None
    /\ catching = [d \in Daemons |-> None]
    /\ object = [d \in Daemons |-> 0]
    /\ sent = 0 /\ arms = 0 /\ got = [d \in Daemons |-> 0]
    /\ told = {} /\ stopFailed = {}

\* Mutant of Enqueue: a stop counts as pending itself.
EnqueueAll(d, entry) ==
    /\ queue' = [queue EXCEPT ![d] = Append(@, entry)]
    /\ pending' = [pending EXCEPT ![d] = @ + 1]

\* enqueue
Enqueue(d, entry) ==
    /\ queue' = [queue EXCEPT ![d] = Append(@, entry)]
    /\ pending' = IF entry.cb \in Uncounted THEN pending ELSE [pending EXCEPT ![d] = @ + 1]

-----------------------------------------------------------------------------
(* The manager and the handles *)

\* Manager.start, of a daemon whose on_accept accepts.
Start(d) ==
    /\ life[d] = "none"
    /\ life' = [life EXCEPT ![d] = "listed"]
    /\ Enqueue(d, Entry("on_start", 0))
    /\ UNCHANGED <<stopping, timers, step, catching, object, histories>>

\* send of an attached handle
Send(d) ==
    /\ life[d] = "listed" /\ sent < MaxSends
    /\ sent' = sent + 1
    /\ Enqueue(d, Entry("on_message", sent + 1))
    /\ UNCHANGED <<life, stopping, timers, step, catching, object, arms, got, told, stopFailed>>

\* Manager.stop, stop of the context, close of the host
Stop(d) ==
    /\ life[d] = "listed" /\ ~stopping[d]
    /\ stopping' = [stopping EXCEPT ![d] = TRUE]
    /\ Enqueue(d, Entry("on_stop", 0))
    /\ UNCHANGED <<life, timers, step, catching, object, histories>>

-----------------------------------------------------------------------------
(* The callbacks *)

Takes(d) == step = None /\ catching[d] = None /\ queue[d] # <<>>
Rest(d) == queue' = [queue EXCEPT ![d] = Tail(@)]

\* A callback of an instance that is gone is left out; a timer's is not.
Skip(d) ==
    /\ Takes(d) /\ Head(queue[d]).cb # "on_timeout" /\ life[d] # "listed"
    /\ Rest(d)
    /\ UNCHANGED <<life, stopping, pending, timers, step, catching, object, histories>>

\* on_stop goes behind what is still pending.
Postpone(d) ==
    /\ Takes(d) /\ Head(queue[d]).cb = "on_stop" /\ life[d] = "listed" /\ pending[d] > 0
    /\ queue' = [queue EXCEPT ![d] = Append(Tail(@), Head(@))]
    /\ UNCHANGED <<life, stopping, pending, timers, step, catching, object, histories>>

\* Mutant of Begin: on_stop does not wait for what is pending.
BeginStop(d) ==
    LET entry == Head(queue[d]) IN
    /\ Takes(d)
    /\ entry.cb # "on_timeout" => life[d] = "listed"
    /\ step' = [of |-> d, cb |-> entry.cb, arg |-> entry.of]
    /\ Rest(d)
    /\ pending' = IF entry.cb \in Uncounted THEN pending ELSE [pending EXCEPT ![d] = @ - 1]
    /\ got' = IF entry.cb = "on_message" THEN [got EXCEPT ![d] = entry.of] ELSE got
    /\ told' = IF entry.cb = "on_error" THEN told \cup {<<d, object[d]>>} ELSE told
    /\ UNCHANGED <<life, stopping, timers, catching, object, sent, arms, stopFailed>>

Begin(d) ==
    LET entry == Head(queue[d]) IN
    /\ Takes(d)
    /\ entry.cb # "on_timeout" => life[d] = "listed"
    /\ entry.cb = "on_stop" => pending[d] = 0
    /\ step' = [of |-> d, cb |-> entry.cb, arg |-> entry.of]
    /\ Rest(d)
    /\ pending' = IF entry.cb \in Uncounted THEN pending ELSE [pending EXCEPT ![d] = @ - 1]
    /\ got' = IF entry.cb = "on_message" THEN [got EXCEPT ![d] = entry.of] ELSE got
    /\ told' = IF entry.cb = "on_error" THEN told \cup {<<d, object[d]>>} ELSE told
    /\ UNCHANGED <<life, stopping, timers, catching, object, sent, arms, stopFailed>>

\* The callback returns, its step commits. After on_stop the instance is gone.
Return ==
    /\ step # None
    /\ step' = None
    /\ IF step.cb = "on_stop"
       THEN /\ timers' = [timers EXCEPT ![step.of] = {}]
            /\ life' = [life EXCEPT ![step.of] = "gone"]
       ELSE UNCHANGED <<timers, life>>
    /\ UNCHANGED <<stopping, queue, pending, catching, object, histories>>

\* The callback dumps: its step is rolled back, the daemon's timers are cleared.
Dump ==
    /\ step # None /\ object[step.of] < MaxDumps
    /\ step' = None
    /\ catching' = [catching EXCEPT ![step.of] = step.cb]
    /\ timers' = [timers EXCEPT ![step.of] = {}]
    /\ stopFailed' = IF step.cb = "on_stop" THEN stopFailed \cup {step.of} ELSE stopFailed
    /\ UNCHANGED <<life, stopping, queue, pending, object, sent, arms, got, told>>

\* Mutant of Renew: the new object is told nothing.
RenewUntold(d) ==
    /\ catching[d] # None
    /\ catching' = [catching EXCEPT ![d] = None]
    /\ object' = [object EXCEPT ![d] = @ + 1]
    /\ UNCHANGED <<life, stopping, queue, pending, timers, step, histories>>

\* The new object is there; on_error joins the queue, unless on_error itself dumped.
Renew(d) ==
    /\ catching[d] # None
    /\ catching' = [catching EXCEPT ![d] = None]
    /\ object' = [object EXCEPT ![d] = @ + 1]
    /\ IF catching[d] = "on_error"
       THEN UNCHANGED <<queue, pending>> /\ told' = told \cup {<<d, object'[d]>>}
       ELSE Enqueue(d, Entry("on_error", 0)) /\ UNCHANGED told
    /\ UNCHANGED <<life, stopping, timers, step, sent, arms, got, stopFailed>>

-----------------------------------------------------------------------------
(* The timer manager *)

\* start_timer in a callback: refused for a handler that is armed.
StartTimer(h) ==
    /\ step # None /\ h \notin timers[step.of] /\ arms < MaxArms
    /\ arms' = arms + 1
    /\ timers' = [timers EXCEPT ![step.of] = @ \cup {h}]
    /\ UNCHANGED <<life, stopping, queue, pending, step, catching, object, sent, got, told, stopFailed>>

StopTimer(h) ==
    /\ step # None /\ h \in timers[step.of]
    /\ timers' = [timers EXCEPT ![step.of] = @ \ {h}]
    /\ UNCHANGED <<life, stopping, queue, pending, step, catching, object, histories>>

\* A timer expires: on_timeout joins the queue.
Expire(d, h) ==
    /\ h \in timers[d]
    /\ timers' = [timers EXCEPT ![d] = @ \ {h}]
    /\ queue' = [queue EXCEPT ![d] = Append(@, Entry("on_timeout", h))]
    /\ UNCHANGED <<life, stopping, pending, step, catching, object, histories>>

-----------------------------------------------------------------------------

Next ==
    \/ \E d \in Daemons : Start(d) \/ Send(d) \/ Stop(d)
    \/ \E d \in Daemons : Skip(d) \/ Postpone(d) \/ Begin(d) \/ Renew(d)
    \/ Return \/ Dump
    \/ \E h \in Handlers : StartTimer(h) \/ StopTimer(h)
    \/ \E d \in Daemons, h \in Handlers : Expire(d, h)

Spec == Init /\ [][Next]_vars

\* Queued steps get the work process, a callback ends (one way or the other), and a
\* constructor returns. Nobody need send or stop, no timer need expire.
Fairness ==
    /\ WF_vars(Return \/ Dump)
    /\ \A d \in Daemons : SF_vars(Skip(d) \/ Postpone(d) \/ Begin(d)) /\ WF_vars(Renew(d))

FairSpec == Spec /\ Fairness

-----------------------------------------------------------------------------
(* Properties *)

Entries == [cb : Callbacks, of : (0 .. MaxSends) \cup Handlers]

TypeOK ==
    /\ life \in [Daemons -> {"none", "listed", "gone"}]
    /\ stopping \in [Daemons -> BOOLEAN]
    /\ queue \in [Daemons -> Seq(Entries)]
    /\ pending \in [Daemons -> Nat]
    /\ timers \in [Daemons -> SUBSET Handlers]
    /\ step = None \/ step \in Running
    /\ catching \in [Daemons -> Callbacks \cup {None}]
    /\ object \in [Daemons -> 0 .. MaxDumps]
    /\ sent \in 0 .. MaxSends /\ arms \in 0 .. MaxArms
    /\ got \in [Daemons -> 0 .. MaxSends]
    /\ told \subseteq Daemons \X (0 .. MaxDumps) /\ stopFailed \subseteq Daemons

\* The places of a queue where one of these callbacks stands.
Places(s, cbs) == {i \in DOMAIN s : s[i].cb \in cbs}
Counted(s) == Places(s, Callbacks \ Uncounted)

\* row.pending is what is in the queue before on_stop may run: the count and the queue
\* agree through sends, dumps, restarts and postponed stops. A count too high would
\* postpone the stop for ever, one too low would let it overtake a message.
PendingIsQueued == \A d \in Daemons : life[d] = "listed" => pending[d] = Cardinality(Counted(queue[d]))

\* A stop was asked for that has not begun.
StopDue(d) ==
    /\ stopping[d] /\ life[d] = "listed" /\ d \notin stopFailed
    /\ ~(step # None /\ step.of = d /\ step.cb = "on_stop")

\* Exactly one stop of a daemon that is being stopped is on its way, wherever it was
\* postponed to: none is lost, none runs on_stop a second time.
OneStop ==
    \A d \in Daemons :
        Cardinality(Places(queue[d], {"on_stop"})) = IF StopDue(d) THEN 1 ELSE 0

\* The bookkeeping of the queue is exact: what it counts and the one stop it has.
QueueExact == TypeOK /\ PendingIsQueued /\ OneStop

\* A stop is the last entry of the mailbox, not a cut: when on_stop begins, every
\* message sent before it, also after the stop was asked for, has been delivered.
StopIsLast ==
    [][\A d \in Daemons :
         (step' # None /\ step' # step /\ step'.of = d /\ step'.cb = "on_stop") =>
             Counted(queue'[d]) = {}]_vars

\* Messages come in the order they were sent, each at most once: the one that dumped is
\* not delivered again to the new object, those behind it are.
InOrder ==
    [][(step' # None /\ step' # step /\ step'.cb = "on_message") => step'.arg > got[step'.of]]_vars

\* The mailbox keeps its order, the stop included.
MailboxOrder == InOrder /\ StopIsLast

\* A daemon that is asked to stop is gone some time, unless its on_stop dumps.
StopEnds == \A d \in Daemons : stopping[d] ~> (life[d] = "gone" \/ d \in stopFailed)

\* After a dump the new object hears of it, unless the daemon ends before.
DumpIsTold ==
    \A d \in Daemons : \A n \in 1 .. MaxDumps :
        (object[d] = n) ~> (<<d, n>> \in told \/ object[d] > n \/ life[d] = "gone")

\* What a daemon owes its owner and itself happens: the stop, and the report of a dump.
OwedHappens == StopEnds /\ DumpIsTold
=============================================================================
