---------------------------- MODULE DaemonProofs -----------------------------
(***************************************************************************)
(* The daemon host keeps its books and its order, for any daemons, timer   *)
(* handlers and bounds.                                                    *)
(***************************************************************************)
EXTENDS Daemon, FiniteSetTheorems, TLAPS

-----------------------------------------------------------------------------
(* Counting the callbacks of a queue *)

\* The callbacks of one kind in a queue can be counted.
LEMMA PlacesFinite ==
    ASSUME NEW q \in Seq(Entries), NEW cbs
    PROVE  /\ IsFiniteSet(Places(q, cbs))
           /\ Cardinality(Places(q, cbs)) \in Nat
  <1>1. Places(q, cbs) \in SUBSET (1 .. Len(q))
    BY DEF Places
  <1>2. IsFiniteSet(1 .. Len(q))
    BY FS_Interval
  <1>3. QED
    BY <1>1, <1>2, FS_Subset, FS_CardinalityType

\* enqueue adds what it appends.
LEMMA PlacesAppend ==
    ASSUME NEW q \in Seq(Entries), NEW e \in Entries, NEW cbs
    PROVE  Cardinality(Places(Append(q, e), cbs)) =
               Cardinality(Places(q, cbs)) + (IF e.cb \in cbs THEN 1 ELSE 0)
  <1>1. Places(Append(q, e), cbs) =
            IF e.cb \in cbs THEN Places(q, cbs) \cup {Len(q) + 1} ELSE Places(q, cbs)
    BY DEF Places
  <1>2. Len(q) + 1 \notin Places(q, cbs)
    BY DEF Places
  <1>3. CASE e.cb \in cbs
    BY <1>1, <1>2, <1>3, PlacesFinite, FS_AddElement
  <1>4. CASE e.cb \notin cbs
    BY <1>1, <1>4, PlacesFinite
  <1>5. QED
    BY <1>3, <1>4

\* Taking the first callback takes one of its kind.
LEMMA PlacesTail ==
    ASSUME NEW q \in Seq(Entries), q # <<>>, NEW cbs
    PROVE  Cardinality(Places(Tail(q), cbs)) =
               Cardinality(Places(q, cbs)) - (IF Head(q).cb \in cbs THEN 1 ELSE 0)
  <1> DEFINE Rear == Places(q, cbs) \ {1}
             shift == [i \in Rear |-> i - 1]
  <1>1. 1 \in Places(q, cbs) <=> Head(q).cb \in cbs
    BY DEF Places
  <1>2. /\ IsFiniteSet(Rear)
        /\ Cardinality(Rear) = Cardinality(Places(q, cbs)) - (IF Head(q).cb \in cbs THEN 1 ELSE 0)
    BY <1>1, PlacesFinite, FS_RemoveElement
  <1>3. shift \in Bijection(Rear, Places(Tail(q), cbs))
    <2>1. \A i \in Rear : i - 1 \in Places(Tail(q), cbs)
      BY DEF Places
    <2>2. \A j \in Places(Tail(q), cbs) : j + 1 \in Rear /\ (j + 1) - 1 = j
      BY DEF Places
    <2>3. \A i, j \in Rear : i - 1 = j - 1 => i = j
      BY DEF Places
    <2>4. QED
      BY <2>1, <2>2, <2>3 DEF Bijection, Injection, Surjection, IsInjective
  <1>4. ExistsBijection(Rear, Places(Tail(q), cbs))
    BY <1>3 DEF ExistsBijection
  <1>5. QED
    BY <1>2, <1>4, FS_Bijection

-----------------------------------------------------------------------------
(* The inductive invariant *)

\* An instance that was not started yet has nothing that could start it.
Untouched ==
    \A d \in Daemons : life[d] = "none" =>
        queue[d] = <<>> /\ pending[d] = 0 /\ timers[d] = {} /\ ~stopping[d] /\ catching[d] = None

\* The callback that runs belongs to an instance whose queue it holds up; only a timer's
\* may be that of an instance that is gone.
StepLives ==
    step # None =>
        /\ life[step.of] # "none" /\ catching[step.of] = None
        /\ step.cb # "on_timeout" => life[step.of] = "listed"
        /\ step.cb = "on_stop" => stopping[step.of]

\* A stop that failed was asked for, and a dump that is being caught is within the bound.
Caught ==
    /\ \A d \in stopFailed : stopping[d]
    /\ \A d \in Daemons : catching[d] # None => object[d] < MaxDumps

\* The messages in a queue are later than the last one delivered, and ascend.
Ascends(q, last, latest) ==
    /\ last <= latest
    /\ \A i \in DOMAIN q : q[i].cb = "on_message" =>
          /\ q[i].of \in Nat /\ last < q[i].of /\ q[i].of <= latest
          /\ \A j \in DOMAIN q : i < j /\ q[j].cb = "on_message" => q[i].of < q[j].of
Ascending == \A d \in Daemons : Ascends(queue[d], got[d], sent)

IInv == QueueExact /\ Untouched /\ StepLives /\ Caught /\ Ascending

-----------------------------------------------------------------------------
(* What the changes of a queue keep *)

\* A callback that is enqueued is counted as its kind asks for.
LEMMA EnqueueCounts ==
    ASSUME TypeOK, NEW d \in Daemons, NEW e \in Entries, Enqueue(d, e)
    PROVE  /\ queue' \in [Daemons -> Seq(Entries)] /\ pending' \in [Daemons -> Nat]
           /\ \A x \in Daemons \ {d} : queue'[x] = queue[x] /\ pending'[x] = pending[x]
           /\ queue'[d] = Append(queue[d], e)
           /\ pending[d] = Cardinality(Counted(queue[d]))
                 => pending'[d] = Cardinality(Counted(queue'[d]))
           /\ Cardinality(Places(queue'[d], {"on_stop"})) =
                 Cardinality(Places(queue[d], {"on_stop"})) + (IF e.cb = "on_stop" THEN 1 ELSE 0)
           /\ e.cb # "on_stop" => \A x \in Daemons :
                 Cardinality(Places(queue'[x], {"on_stop"})) = Cardinality(Places(queue[x], {"on_stop"}))
  <1>1. queue[d] \in Seq(Entries) /\ pending[d] \in Nat
    BY DEF TypeOK
  <1>2. /\ queue' = [queue EXCEPT ![d] = Append(@, e)]
        /\ pending' = IF e.cb \in Uncounted THEN pending ELSE [pending EXCEPT ![d] = @ + 1]
    BY DEF Enqueue
  <1>3. /\ queue' \in [Daemons -> Seq(Entries)] /\ pending' \in [Daemons -> Nat]
        /\ \A x \in Daemons \ {d} : queue'[x] = queue[x] /\ pending'[x] = pending[x]
        /\ queue'[d] = Append(queue[d], e)
    BY <1>1, <1>2 DEF TypeOK
  <1>4. e.cb \in Callbacks
    BY DEF Entries
  <1>5. Cardinality(Counted(queue'[d])) =
            Cardinality(Counted(queue[d])) + (IF e.cb \in Uncounted THEN 0 ELSE 1)
    BY <1>1, <1>3, <1>4, PlacesAppend DEF Counted
  <1>6. pending'[d] = pending[d] + (IF e.cb \in Uncounted THEN 0 ELSE 1)
    BY <1>1, <1>2 DEF TypeOK
  <1>7. pending[d] = Cardinality(Counted(queue[d]))
            => pending'[d] = Cardinality(Counted(queue'[d]))
    BY <1>5, <1>6
  <1>8. Cardinality(Places(queue'[d], {"on_stop"})) =
            Cardinality(Places(queue[d], {"on_stop"})) + (IF e.cb = "on_stop" THEN 1 ELSE 0)
    BY <1>1, <1>3, PlacesAppend
  <1>9. Cardinality(Places(queue[d], {"on_stop"})) \in Nat
    BY <1>1, PlacesFinite
  <1>10. ASSUME e.cb # "on_stop", NEW x \in Daemons
         PROVE  Cardinality(Places(queue'[x], {"on_stop"})) = Cardinality(Places(queue[x], {"on_stop"}))
    <2>1. CASE x = d
      BY <1>8, <1>9, <1>10, <2>1
    <2>2. CASE x # d
      BY <1>3, <2>2
    <2>3. QED
      BY <2>1, <2>2
  <1>11. QED
    BY <1>3, <1>7, <1>8, <1>10

\* A callback behind the queue leaves the order of the messages as it is, also if it is
\* the message that is sent now.
LEMMA AppendAscends ==
    ASSUME NEW q \in Seq(Entries), NEW last \in Nat, NEW latest \in Nat, NEW e \in Entries,
           Ascends(q, last, latest)
    PROVE  /\ e.cb # "on_message" => Ascends(Append(q, e), last, latest)
           /\ e.of = latest + 1 => Ascends(Append(q, e), last, latest + 1)
           /\ Ascends(q, last, latest + 1)
  <1>1. /\ DOMAIN Append(q, e) = 1 .. Len(q) + 1 /\ DOMAIN q = 1 .. Len(q) /\ Len(q) \in Nat
        /\ \A i \in DOMAIN q : Append(q, e)[i] = q[i]
        /\ Append(q, e)[Len(q) + 1] = e
    OBVIOUS
  <1>2. Ascends(q, last, latest + 1)
    BY DEF Ascends
  <1>3. e.cb # "on_message" => Ascends(Append(q, e), last, latest)
    BY <1>1 DEF Ascends
  <1>4. ASSUME e.of = latest + 1  PROVE Ascends(Append(q, e), last, latest + 1)
    BY <1>1, <1>4 DEF Ascends
  <1>5. QED
    BY <1>2, <1>3, <1>4

\* enqueue keeps the messages of every daemon in order.
LEMMA EnqueueAscends ==
    ASSUME TypeOK, Ascending, NEW d \in Daemons, NEW e \in Entries,
           queue' = [queue EXCEPT ![d] = Append(@, e)], got' = got,
           \/ e.cb # "on_message" /\ sent' = sent
           \/ e.of = sent + 1 /\ sent' = sent + 1
    PROVE  Ascending'
  <1>1. sent \in Nat /\ \A x \in Daemons : got[x] \in Nat /\ queue[x] \in Seq(Entries)
    BY DaemonBounds DEF TypeOK
  <1>2. SUFFICES ASSUME NEW x \in Daemons  PROVE Ascends(queue'[x], got[x], sent')
    BY DEF Ascending
  <1>3. Ascends(queue[x], got[x], sent)
    BY DEF Ascending
  <1>4. queue'[x] = IF x = d THEN Append(queue[x], e) ELSE queue[x]
    BY DEF TypeOK
  <1>5. QED
    BY <1>1, <1>3, <1>4, AppendAscends

\* Taking the first callback leaves the rest in order; so does moving a stop to the end.
LEMMA TailAscends ==
    ASSUME NEW q \in Seq(Entries), q # <<>>, NEW last \in Nat, NEW latest \in Nat,
           Ascends(q, last, latest)
    PROVE  /\ Ascends(Tail(q), last, latest)
           /\ Head(q).cb = "on_message" =>
                /\ last < Head(q).of /\ Head(q).of \in Nat
                /\ Ascends(Tail(q), Head(q).of, latest)
  <1>1. /\ DOMAIN Tail(q) = 1 .. Len(q) - 1 /\ DOMAIN q = 1 .. Len(q) /\ Len(q) \in Nat \ {0}
        /\ \A i \in DOMAIN Tail(q) : i \in Int /\ i + 1 \in DOMAIN q /\ Tail(q)[i] = q[i + 1]
        /\ Head(q) = q[1] /\ 1 \in DOMAIN q
    OBVIOUS
  <1>2. Ascends(Tail(q), last, latest)
    BY <1>1 DEF Ascends
  <1>3. ASSUME Head(q).cb = "on_message"
        PROVE  /\ last < Head(q).of /\ Head(q).of \in Nat
               /\ Ascends(Tail(q), Head(q).of, latest)
    BY <1>1, <1>3 DEF Ascends
  <1>4. QED
    BY <1>2, <1>3

\* Taking the first callback of a queue takes it out of the counts.
LEMMA TailCounts ==
    ASSUME TypeOK, NEW d \in Daemons, queue[d] # <<>>,
           queue' = [queue EXCEPT ![d] = Tail(@)]
    PROVE  /\ queue' \in [Daemons -> Seq(Entries)]
           /\ Head(queue[d]) \in Entries
           /\ \A x \in Daemons \ {d} : queue'[x] = queue[x]
           /\ queue'[d] = Tail(queue[d])
           /\ Cardinality(Counted(queue[d])) \in Nat
           /\ Cardinality(Counted(queue'[d])) \in Nat
           /\ Cardinality(Counted(queue'[d])) =
                 Cardinality(Counted(queue[d])) - (IF Head(queue[d]).cb \in Uncounted THEN 0 ELSE 1)
           /\ Cardinality(Places(queue'[d], {"on_stop"})) =
                 Cardinality(Places(queue[d], {"on_stop"}))
                    - (IF Head(queue[d]).cb = "on_stop" THEN 1 ELSE 0)
  <1>1. queue[d] \in Seq(Entries)
    BY DEF TypeOK
  <1>2. /\ queue' \in [Daemons -> Seq(Entries)]
        /\ Head(queue[d]) \in Entries
        /\ \A x \in Daemons \ {d} : queue'[x] = queue[x]
        /\ queue'[d] = Tail(queue[d]) /\ Tail(queue[d]) \in Seq(Entries)
    BY <1>1 DEF TypeOK
  <1>3. Head(queue[d]).cb \in Callbacks
    BY <1>2 DEF Entries
  <1>4. Cardinality(Counted(queue[d])) \in Nat /\ Cardinality(Counted(queue'[d])) \in Nat
    BY <1>1, <1>2, PlacesFinite DEF Counted
  <1>5. Cardinality(Counted(queue'[d])) =
            Cardinality(Counted(queue[d])) - (IF Head(queue[d]).cb \in Uncounted THEN 0 ELSE 1)
    BY <1>1, <1>2, <1>3, PlacesTail DEF Counted
  <1>6. Cardinality(Places(queue'[d], {"on_stop"})) =
            Cardinality(Places(queue[d], {"on_stop"}))
               - (IF Head(queue[d]).cb = "on_stop" THEN 1 ELSE 0)
    BY <1>1, <1>2, PlacesTail
  <1>7. QED
    BY <1>2, <1>4, <1>5, <1>6

-----------------------------------------------------------------------------
(* The steps *)

\* The messages, the starts and the stops of the manager and the handles.
LEMMA CallsKeepIInv ==
    ASSUME IInv, NEW d \in Daemons, Start(d) \/ Send(d) \/ Stop(d)
    PROVE  IInv'
  <1> USE DaemonBounds, NoCallback
  <1>0. TypeOK /\ PendingIsQueued /\ OneStop
    BY DEF IInv, QueueExact
  <1>1. CASE Start(d)
    <2> DEFINE e == Entry("on_start", 0)
    <2>1. e \in Entries /\ e.cb = "on_start"
      BY DEF Entry, Entries, Callbacks
    <2>2. Enqueue(d, e)
      BY <1>1 DEF Start
    <2>3. TypeOK'
      BY <1>0, <1>1, <2>1, <2>2, EnqueueCounts DEF Start, histories, TypeOK
    <2>4. pending[d] = Cardinality(Counted(queue[d]))
      <3>1. queue[d] = <<>> /\ pending[d] = 0
        BY <1>1 DEF Start, IInv, Untouched
      <3>2. Counted(queue[d]) = {}
        BY <3>1 DEF Counted, Places
      <3>3. QED
        BY <3>1, <3>2, FS_EmptySet
    <2>5. PendingIsQueued'
      BY <1>0, <1>1, <2>1, <2>2, <2>4, EnqueueCounts DEF Start, PendingIsQueued, TypeOK
    <2>6. OneStop'
      <3>1. ~stopping[d] /\ life[d] # "listed"
        BY <1>1 DEF IInv, Untouched, Start
      <3>2. e.cb # "on_stop"
        BY <2>1
      <3>3. \A x \in Daemons :
                Cardinality(Places(queue'[x], {"on_stop"})) = Cardinality(Places(queue[x], {"on_stop"}))
        BY <1>0, <2>1, <2>2, <3>2, EnqueueCounts
      <3>4. \A x \in Daemons \ {d} : life'[x] = life[x]
        BY <1>0, <1>1 DEF Start, TypeOK
      <3>5. \A x \in Daemons : StopDue(x)' <=> StopDue(x)
        BY <1>0, <1>1, <3>1, <3>4 DEF Start, histories, StopDue, TypeOK
      <3>6. QED
        BY <1>0, <3>3, <3>5 DEF OneStop
    <2>7. Untouched' /\ StepLives' /\ Caught'
      <3>1. \A x \in Daemons \ {d} : queue'[x] = queue[x] /\ pending'[x] = pending[x]
        BY <1>0, <2>1, <2>2, EnqueueCounts
      <3>2. /\ life'[d] = "listed" /\ \A x \in Daemons \ {d} : life'[x] = life[x]
            /\ UNCHANGED <<stopping, timers, step, catching, object, stopFailed>>
        BY <1>0, <1>1 DEF Start, histories, TypeOK
      <3>3. Untouched'
        BY <3>1, <3>2 DEF IInv, Untouched
      <3>4. StepLives'
        <4>1. step # None => step.of \in Daemons
          BY <1>0 DEF TypeOK, Running
        <4>2. QED
          BY <3>2, <4>1 DEF IInv, StepLives
      <3>5. Caught'
        BY <3>2 DEF IInv, Caught
      <3>6. QED
        BY <3>3, <3>4, <3>5
    <2>8. Ascending'
      BY <1>0, <1>1, <2>1, EnqueueAscends DEF Start, histories, Enqueue, IInv
    <2>9. QED
      BY <2>3, <2>5, <2>6, <2>7, <2>8 DEF IInv, QueueExact
  <1>2. CASE Send(d)
    <2> DEFINE e == Entry("on_message", sent + 1)
    <2>1. e \in Entries /\ e.cb = "on_message" /\ e.of = sent + 1 /\ sent + 1 \in 0 .. MaxSends
      BY <1>0, <1>2 DEF Send, Entry, Entries, Callbacks, TypeOK
    <2>2. Enqueue(d, e)
      BY <1>2 DEF Send
    <2>3. TypeOK'
      BY <1>0, <1>2, <2>1, <2>2, EnqueueCounts DEF Send, TypeOK
    <2>4. PendingIsQueued'
      BY <1>0, <1>2, <2>1, <2>2, EnqueueCounts DEF Send, PendingIsQueued, TypeOK
    <2>5. OneStop'
      <3>1. e.cb # "on_stop"
        BY <2>1
      <3>2. \A x \in Daemons :
                Cardinality(Places(queue'[x], {"on_stop"})) = Cardinality(Places(queue[x], {"on_stop"}))
        BY <1>0, <2>1, <2>2, <3>1, EnqueueCounts
      <3>3. \A x \in Daemons : StopDue(x)' <=> StopDue(x)
        BY <1>2 DEF Send, StopDue
      <3>4. QED
        BY <1>0, <3>2, <3>3 DEF OneStop
    <2>6. Untouched' /\ StepLives' /\ Caught'
      <3>1. \A x \in Daemons \ {d} : queue'[x] = queue[x] /\ pending'[x] = pending[x]
        BY <1>0, <2>1, <2>2, EnqueueCounts
      <3>2. /\ life'[d] = "listed" /\ \A x \in Daemons \ {d} : life'[x] = life[x]
            /\ UNCHANGED <<stopping, timers, step, catching, object, stopFailed>>
        BY <1>0, <1>2 DEF Send, TypeOK
      <3>3. Untouched'
        BY <3>1, <3>2 DEF IInv, Untouched
      <3>4. StepLives'
        <4>1. step # None => step.of \in Daemons
          BY <1>0 DEF TypeOK, Running
        <4>2. QED
          BY <3>2, <4>1 DEF IInv, StepLives
      <3>5. Caught'
        BY <3>2 DEF IInv, Caught
      <3>6. QED
        BY <3>3, <3>4, <3>5
    <2>7. Ascending'
      BY <1>0, <1>2, <2>1, EnqueueAscends DEF Send, Enqueue, IInv
    <2>8. QED
      BY <2>3, <2>4, <2>5, <2>6, <2>7 DEF IInv, QueueExact
  <1>3. CASE Stop(d)
    <2> DEFINE e == Entry("on_stop", 0)
    <2>1. e \in Entries /\ e.cb = "on_stop"
      BY DEF Entry, Entries, Callbacks
    <2>2. Enqueue(d, e)
      BY <1>3 DEF Stop
    <2>3. TypeOK'
      BY <1>0, <1>3, <2>1, <2>2, EnqueueCounts DEF Stop, histories, TypeOK
    <2>4. PendingIsQueued'
      BY <1>0, <1>3, <2>1, <2>2, EnqueueCounts DEF Stop, PendingIsQueued, TypeOK
    <2>5. OneStop'
      <3>1. d \notin stopFailed /\ ~(step # None /\ step.of = d /\ step.cb = "on_stop")
        BY <1>0, <1>3 DEF IInv, Caught, StepLives, Stop, TypeOK, Running
      <3>2. stopping'[d] /\ \A x \in Daemons \ {d} : stopping'[x] = stopping[x]
        BY <1>0, <1>3 DEF Stop, TypeOK
      <3>3. Cardinality(Places(queue[d], {"on_stop"})) = 0
        BY <1>0, <1>3 DEF OneStop, StopDue, Stop
      <3>4. /\ Cardinality(Places(queue'[d], {"on_stop"})) = 1
            /\ \A x \in Daemons \ {d} : queue'[x] = queue[x]
        BY <1>0, <2>1, <2>2, <3>3, EnqueueCounts
      <3>5. StopDue(d)' /\ \A x \in Daemons \ {d} : StopDue(x)' <=> StopDue(x)
        BY <1>3, <3>1, <3>2 DEF Stop, histories, StopDue
      <3>6. QED
        BY <1>0, <3>4, <3>5 DEF OneStop
    <2>6. Untouched' /\ StepLives' /\ Caught'
      <3>1. /\ life[d] = "listed" /\ UNCHANGED <<life, timers, step, catching, object, histories>>
            /\ stopping'[d] /\ \A x \in Daemons \ {d} : stopping'[x] = stopping[x]
        BY <1>0, <1>3 DEF Stop, TypeOK
      <3>2. \A x \in Daemons \ {d} : queue'[x] = queue[x] /\ pending'[x] = pending[x]
        BY <1>0, <2>1, <2>2, EnqueueCounts
      <3>3. Untouched'
        BY <3>1, <3>2 DEF IInv, Untouched
      <3>4. StepLives'
        BY <1>0, <3>1 DEF IInv, StepLives, TypeOK, Running
      <3>5. Caught'
        BY <1>0, <3>1 DEF IInv, Caught, TypeOK, histories
      <3>6. QED
        BY <3>3, <3>4, <3>5
    <2>7. Ascending'
      BY <1>0, <1>3, <2>1, EnqueueAscends DEF Stop, histories, Enqueue, IInv
    <2>8. QED
      BY <2>3, <2>4, <2>5, <2>6, <2>7 DEF IInv, QueueExact
  <1>4. QED
    BY <1>1, <1>2, <1>3

\* A stop or a callback of an instance that is gone, moved or left out.
LEMMA PassingKeepsIInv ==
    ASSUME IInv, NEW d \in Daemons, Skip(d) \/ Postpone(d)
    PROVE  IInv'
  <1> USE DaemonBounds, NoCallback
  <1>0. TypeOK /\ PendingIsQueued /\ OneStop
    BY DEF IInv, QueueExact
  <1> DEFINE e == Head(queue[d])
  <1>1. queue[d] \in Seq(Entries) /\ queue[d] # <<>> /\ e \in Entries /\ Tail(queue[d]) \in Seq(Entries)
    BY <1>0 DEF Skip, Postpone, Takes, TypeOK
  <1>2. UNCHANGED <<life, stopping, pending, timers, step, catching, object, histories>>
    BY DEF Skip, Postpone
  <1>3. life[d] # "none"
    BY <1>1 DEF IInv, Untouched
  <1>4. /\ queue' \in [Daemons -> Seq(Entries)]
        /\ \A x \in Daemons \ {d} : queue'[x] = queue[x]
        /\ Cardinality(Places(queue'[d], {"on_stop"})) = Cardinality(Places(queue[d], {"on_stop"}))
        /\ life[d] = "listed" => Cardinality(Counted(queue'[d])) = Cardinality(Counted(queue[d]))
        /\ Ascends(queue'[d], got[d], sent)
    <2>1. /\ Ascends(queue[d], got[d], sent) /\ got[d] \in Nat /\ sent \in Nat
          /\ Ascends(Tail(queue[d]), got[d], sent)
      BY <1>0, <1>1, TailAscends DEF IInv, Ascending, TypeOK
    <2>2. CASE Skip(d)
      <3>1. queue' = [queue EXCEPT ![d] = Tail(@)] /\ life[d] # "listed"
        BY <2>2 DEF Skip, Rest
      <3>2. Cardinality(Places(queue[d], {"on_stop"})) = 0
        BY <1>0, <3>1 DEF OneStop, StopDue
      <3>3. e.cb # "on_stop"
        <4>1. Places(queue[d], {"on_stop"}) = {}
          BY <1>1, <3>2, PlacesFinite, FS_EmptySet
        <4>2. 1 \in DOMAIN queue[d] /\ e = queue[d][1]
          BY <1>1
        <4>3. QED
          BY <4>1, <4>2 DEF Places
      <3>4. /\ queue' \in [Daemons -> Seq(Entries)]
            /\ \A x \in Daemons \ {d} : queue'[x] = queue[x]
            /\ queue'[d] = Tail(queue[d])
        BY <1>0, <1>1, <3>1, TailCounts
      <3>5. Cardinality(Places(queue'[d], {"on_stop"})) = 0
        <4>1. Cardinality(Places(queue'[d], {"on_stop"})) =
                  Cardinality(Places(queue[d], {"on_stop"}))
                     - (IF Head(queue[d]).cb = "on_stop" THEN 1 ELSE 0)
          BY <1>0, <1>1, <3>1, TailCounts
        <4>2. QED
          BY <3>2, <3>3, <4>1
      <3>6. QED
        BY <2>1, <3>1, <3>2, <3>4, <3>5
    <2>3. CASE Postpone(d)
      <3>1. queue' = [queue EXCEPT ![d] = Append(Tail(@), Head(@))] /\ e.cb = "on_stop"
        BY <2>3 DEF Postpone
      <3>2. /\ queue' \in [Daemons -> Seq(Entries)]
            /\ \A x \in Daemons \ {d} : queue'[x] = queue[x]
            /\ queue'[d] = Append(Tail(queue[d]), e)
        BY <1>0, <1>1, <3>1 DEF TypeOK
      <3>3. /\ Cardinality(Places(queue[d], {"on_stop"})) \in Nat
            /\ Cardinality(Counted(queue[d])) \in Nat
        BY <1>1, PlacesFinite DEF Counted
      <3>4. Cardinality(Places(queue'[d], {"on_stop"})) = Cardinality(Places(queue[d], {"on_stop"}))
        <4>1. Cardinality(Places(Tail(queue[d]), {"on_stop"})) =
                  Cardinality(Places(queue[d], {"on_stop"})) - 1
          BY <1>1, <3>1, PlacesTail
        <4>2. Cardinality(Places(queue'[d], {"on_stop"})) =
                  Cardinality(Places(Tail(queue[d]), {"on_stop"})) + 1
          <5>1. Cardinality(Places(Append(Tail(queue[d]), e), {"on_stop"})) =
                    Cardinality(Places(Tail(queue[d]), {"on_stop"}))
                       + (IF e.cb \in {"on_stop"} THEN 1 ELSE 0)
            <6>1. PICK q \in Seq(Entries) : q = Tail(queue[d])
              BY <1>1
            <6>2. PICK x \in Entries : x = e
              BY <1>1
            <6>3. Cardinality(Places(Append(q, x), {"on_stop"})) =
                      Cardinality(Places(q, {"on_stop"})) + (IF x.cb \in {"on_stop"} THEN 1 ELSE 0)
              BY PlacesAppend, Zenon
            <6>4. QED
              BY <6>1, <6>2, <6>3, Zenon
          <5>2. (IF e.cb \in {"on_stop"} THEN 1 ELSE 0) = 1
            BY <3>1
          <5>3. Cardinality(Places(Append(Tail(queue[d]), e), {"on_stop"})) =
                    Cardinality(Places(Tail(queue[d]), {"on_stop"})) + 1
            BY <5>1, <5>2
          <5>4. QED
            BY <3>2, <5>3
        <4>3. QED
          BY <3>3, <4>1, <4>2
      <3>5. Cardinality(Counted(queue'[d])) = Cardinality(Counted(queue[d]))
        <4>1. e.cb \notin Callbacks \ Uncounted
          BY <3>1 DEF Uncounted
        <4>2. Cardinality(Counted(Tail(queue[d]))) = Cardinality(Counted(queue[d]))
          BY <1>1, <3>3, <4>1, PlacesTail DEF Counted
        <4>3. Cardinality(Counted(queue'[d])) = Cardinality(Counted(Tail(queue[d])))
          <5>1. Cardinality(Places(Append(Tail(queue[d]), e), Callbacks \ Uncounted)) =
                    Cardinality(Places(Tail(queue[d]), Callbacks \ Uncounted))
                       + (IF e.cb \in Callbacks \ Uncounted THEN 1 ELSE 0)
            BY <1>1, PlacesAppend
          <5>2. Cardinality(Places(Tail(queue[d]), Callbacks \ Uncounted)) \in Nat
            BY <1>1, PlacesFinite
          <5>3. QED
            BY <3>2, <4>1, <5>1, <5>2 DEF Counted
        <4>4. QED
          BY <4>2, <4>3
      <3>6. Ascends(queue'[d], got[d], sent)
        BY <1>1, <2>1, <3>1, <3>2, AppendAscends
      <3>7. QED
        BY <3>2, <3>4, <3>5, <3>6
    <2>4. QED
      BY <2>2, <2>3
  <1>5. TypeOK'
    BY <1>0, <1>2, <1>4 DEF TypeOK, histories
  <1>6. PendingIsQueued'
    BY <1>0, <1>2, <1>4 DEF PendingIsQueued
  <1>7. OneStop'
    <2>1. \A x \in Daemons : StopDue(x)' <=> StopDue(x)
      BY <1>2 DEF StopDue, histories
    <2>2. QED
      BY <1>0, <1>4, <2>1 DEF OneStop
  <1>8. Untouched' /\ StepLives' /\ Caught'
    BY <1>0, <1>2, <1>3, <1>4 DEF IInv, Untouched, StepLives, Caught, histories
  <1>9. Ascending'
    BY <1>2, <1>4 DEF IInv, Ascending, histories
  <1>10. QED
    BY <1>5, <1>6, <1>7, <1>8, <1>9 DEF IInv, QueueExact

\* A callback begins.
LEMMA BeginKeepsIInv ==
    ASSUME IInv, NEW d \in Daemons, Begin(d)
    PROVE  IInv'
  <1> USE DaemonBounds, NoCallback
  <1>0. TypeOK /\ PendingIsQueued /\ OneStop
    BY DEF IInv, QueueExact
  <1> DEFINE e == Head(queue[d])
  <1>1. /\ queue[d] \in Seq(Entries) /\ queue[d] # <<>> /\ e \in Entries
        /\ step = None /\ catching[d] = None
        /\ queue' = [queue EXCEPT ![d] = Tail(@)]
    BY <1>0 DEF Begin, Takes, Rest, TypeOK
  <1>2. /\ e.cb \in Callbacks /\ e.of \in (0 .. MaxSends) \cup Handlers
        /\ step' = [of |-> d, cb |-> e.cb, arg |-> e.of]
        /\ step' \in Running /\ step' # None /\ step'.of = d /\ step'.cb = e.cb /\ step'.arg = e.of
    BY <1>1 DEF Begin, Entries, Running
  <1>3. /\ queue' \in [Daemons -> Seq(Entries)]
        /\ \A x \in Daemons \ {d} : queue'[x] = queue[x]
        /\ Cardinality(Counted(queue[d])) \in Nat /\ Cardinality(Counted(queue'[d])) \in Nat
        /\ Cardinality(Counted(queue'[d])) =
              Cardinality(Counted(queue[d])) - (IF e.cb \in Uncounted THEN 0 ELSE 1)
        /\ Cardinality(Places(queue'[d], {"on_stop"})) =
              Cardinality(Places(queue[d], {"on_stop"})) - (IF e.cb = "on_stop" THEN 1 ELSE 0)
    BY <1>0, <1>1, TailCounts
  <1>4. /\ e.cb # "on_timeout" => life[d] = "listed"
        /\ pending' = IF e.cb \in Uncounted THEN pending ELSE [pending EXCEPT ![d] = @ - 1]
        /\ UNCHANGED <<life, stopping, timers, catching, object, sent, arms, stopFailed>>
        /\ got' = IF e.cb = "on_message" THEN [got EXCEPT ![d] = e.of] ELSE got
        /\ told' = IF e.cb = "on_error" THEN told \cup {<<d, object[d]>>} ELSE told
    BY DEF Begin
  <1>5. e.cb \notin Uncounted => life[d] = "listed" /\ pending[d] = Cardinality(Counted(queue[d]))
    BY <1>0, <1>4 DEF Uncounted, PendingIsQueued
  <1>6. pending' \in [Daemons -> Nat] /\ \A x \in Daemons \ {d} : pending'[x] = pending[x]
    BY <1>0, <1>3, <1>4, <1>5 DEF TypeOK
  <1>7. life[d] = "listed" => pending'[d] = Cardinality(Counted(queue'[d]))
    <2>1. pending \in [Daemons -> Nat] /\ (life[d] = "listed" => pending[d] = Cardinality(Counted(queue[d])))
      BY <1>0 DEF TypeOK, PendingIsQueued
    <2>2. CASE e.cb \in Uncounted
      <3>1. pending' = pending /\ Cardinality(Counted(queue'[d])) = Cardinality(Counted(queue[d]))
        BY <1>3, <1>4, <2>2
      <3>2. QED
        BY <2>1, <3>1
    <2>3. CASE e.cb \notin Uncounted
      <3>1. pending'[d] = pending[d] - 1 /\ Cardinality(Counted(queue'[d])) = Cardinality(Counted(queue[d])) - 1
        BY <1>3, <1>4, <2>1, <2>3
      <3>2. QED
        BY <2>1, <3>1
    <2>4. QED
      BY <2>2, <2>3
  <1>8. e.cb = "on_message" => e.of \in 0 .. MaxSends
    BY <1>0, <1>1, TailAscends DEF IInv, Ascending, Ascends, TypeOK
  <1>9. TypeOK'
    <2>1. got' \in [Daemons -> 0 .. MaxSends]
      <3>1. got \in [Daemons -> 0 .. MaxSends]
        BY <1>0 DEF TypeOK
      <3>2. CASE e.cb = "on_message"
        BY <1>4, <1>8, <3>1, <3>2
      <3>3. CASE e.cb # "on_message"
        BY <1>4, <3>1, <3>3
      <3>4. QED
        BY <3>2, <3>3
    <2>2. told' \subseteq Daemons \X (0 .. MaxDumps)
      <3>1. told \subseteq Daemons \X (0 .. MaxDumps) /\ <<d, object[d]>> \in Daemons \X (0 .. MaxDumps)
        BY <1>0 DEF TypeOK
      <3>2. QED
        BY <1>4, <3>1
    <2>3. step' = None \/ step' \in Running
      BY <1>2
    <2>4. QED
      BY <1>0, <1>3, <1>4, <1>6, <2>1, <2>2, <2>3 DEF TypeOK
  <1>10. PendingIsQueued'
    BY <1>0, <1>3, <1>4, <1>6, <1>7 DEF PendingIsQueued
  <1>11. OneStop'
    <2>1. \A x \in Daemons \ {d} : StopDue(x)' <=> StopDue(x)
      BY <1>1, <1>2, <1>4 DEF StopDue
    <2>2. CASE e.cb = "on_stop"
      <3>1. Cardinality(Places(queue[d], {"on_stop"})) # 0
        <4>1. 1 \in Places(queue[d], {"on_stop"})
          BY <1>1, <2>2 DEF Places
        <4>2. QED
          BY <1>1, <4>1, PlacesFinite, FS_EmptySet
      <3>2. Cardinality(Places(queue'[d], {"on_stop"})) = 0
        BY <1>0, <1>3, <2>2, <3>1 DEF OneStop
      <3>3. ~StopDue(d)'
        BY <1>2, <2>2 DEF StopDue
      <3>4. QED
        BY <1>0, <1>3, <2>1, <3>2, <3>3 DEF OneStop
    <2>3. CASE e.cb # "on_stop"
      <3>1. StopDue(d)' <=> StopDue(d)
        BY <1>1, <1>2, <1>4, <2>3 DEF StopDue
      <3>2. Cardinality(Places(queue[d], {"on_stop"})) \in Nat
        BY <1>1, PlacesFinite
      <3>3. QED
        BY <1>0, <1>3, <2>1, <2>3, <3>1, <3>2 DEF OneStop
    <2>4. QED
      BY <2>2, <2>3
  <1>12. life[d] # "none"
    BY <1>1 DEF IInv, Untouched
  <1>13. e.cb = "on_stop" => stopping[d]
    <2>1. SUFFICES ASSUME e.cb = "on_stop"  PROVE StopDue(d)
      BY DEF StopDue
    <2>2. 1 \in Places(queue[d], {"on_stop"})
      BY <1>1, <2>1 DEF Places
    <2>3. Cardinality(Places(queue[d], {"on_stop"})) # 0
      BY <1>1, <2>2, PlacesFinite, FS_EmptySet
    <2>4. QED
      BY <1>0, <2>3 DEF OneStop
  <1>14. Untouched' /\ StepLives' /\ Caught'
    BY <1>0, <1>1, <1>2, <1>3, <1>4, <1>6, <1>12, <1>13 DEF IInv, Untouched, StepLives, Caught
  <1>15. Ascending'
    <2>1. /\ Ascends(queue[d], got[d], sent) /\ got[d] \in Nat /\ sent \in Nat
          /\ queue'[d] = Tail(queue[d])
      BY <1>0, <1>1 DEF IInv, Ascending, TypeOK
    <2>2. Ascends(queue'[d], got'[d], sent)
      BY <1>0, <1>1, <1>4, <2>1, TailAscends DEF TypeOK
    <2>3. \A x \in Daemons \ {d} : got'[x] = got[x]
      BY <1>0, <1>4 DEF TypeOK
    <2>4. QED
      BY <1>3, <1>4, <2>2, <2>3 DEF IInv, Ascending
  <1>16. QED
    BY <1>9, <1>10, <1>11, <1>14, <1>15 DEF IInv, QueueExact

\* The callback ends, by its return or by a dump.
LEMMA EndKeepsIInv ==
    ASSUME IInv, Return \/ Dump
    PROVE  IInv'
  <1> USE DaemonBounds, NoCallback
  <1>0. TypeOK /\ PendingIsQueued /\ OneStop
    BY DEF IInv, QueueExact
  <1>1. PICK d \in Daemons :
        /\ step # None /\ step \in Running /\ d = step.of /\ step.cb \in Callbacks
        /\ step' = None /\ UNCHANGED <<queue, pending, stopping, object, sent, arms, got, told>>
    BY <1>0 DEF Return, Dump, histories, TypeOK, Running
  <1>2. /\ life[d] # "none" /\ catching[d] = None
        /\ step.cb # "on_timeout" => life[d] = "listed"
        /\ step.cb = "on_stop" => stopping[d]
    BY <1>1 DEF IInv, StepLives
  <1>3. /\ timers' \in [Daemons -> SUBSET Handlers]
        /\ \A x \in Daemons : timers[x] = {} => timers'[x] = {}
    BY <1>0, <1>1 DEF Return, Dump, TypeOK
  <1>4. /\ life' \in [Daemons -> {"none", "listed", "gone"}]
        /\ \A x \in Daemons : life'[x] = life[x] \/ (life'[x] = "gone" /\ x = d)
        /\ \A x \in Daemons \ {d} : life'[x] = life[x]
    <2>1. life' = life \/ life' = [life EXCEPT ![d] = "gone"]
      BY <1>1 DEF Return, Dump
    <2>2. life \in [Daemons -> {"none", "listed", "gone"}]
      BY <1>0 DEF TypeOK
    <2>3. CASE life' = life
      BY <2>2, <2>3
    <2>4. CASE life' = [life EXCEPT ![d] = "gone"]
      BY <1>1, <2>2, <2>4
    <2>5. QED
      BY <2>1, <2>3, <2>4
  <1>5. /\ catching' \in [Daemons -> Callbacks \cup {None}]
        /\ \A x \in Daemons \ {d} : catching'[x] = catching[x]
        /\ catching'[d] # None => object[d] < MaxDumps
    BY <1>0, <1>1, <1>2 DEF Return, Dump, TypeOK
  <1>6. /\ stopFailed' \subseteq Daemons
        /\ \A x \in Daemons \ {d} : x \in stopFailed' <=> x \in stopFailed
        /\ d \in stopFailed' => d \in stopFailed \/ step.cb = "on_stop"
        /\ step.cb # "on_stop" => stopFailed' = stopFailed
    BY <1>0, <1>1 DEF Return, Dump, histories, TypeOK
  <1>7. TypeOK'
    BY <1>0, <1>1, <1>3, <1>4, <1>5, <1>6 DEF TypeOK
  <1>8. PendingIsQueued'
    BY <1>0, <1>1, <1>4 DEF PendingIsQueued
  <1>9. OneStop'
    <2>1. \A x \in Daemons \ {d} : StopDue(x)' <=> StopDue(x)
      BY <1>1, <1>4, <1>6 DEF StopDue
    <2>2. StopDue(d)' <=> StopDue(d)
      <3>1. CASE step.cb = "on_stop"
        <4>1. ~StopDue(d)
          BY <1>1, <3>1 DEF StopDue
        <4>2. life'[d] = "gone" \/ d \in stopFailed'
          BY <1>0, <1>1, <3>1 DEF Return, Dump, TypeOK
        <4>3. ~StopDue(d)'
          BY <4>2 DEF StopDue
        <4>4. QED
          BY <4>1, <4>3
      <3>2. CASE step.cb # "on_stop"
        <4>1. life'[d] = life[d]
          BY <3>2 DEF Return, Dump
        <4>2. QED
          BY <1>1, <1>6, <3>2, <4>1 DEF StopDue
      <3>3. QED
        BY <3>1, <3>2
    <2>3. QED
      BY <1>0, <1>1, <2>1, <2>2 DEF OneStop
  <1>10. Untouched'
    <2>1. SUFFICES ASSUME NEW x \in Daemons, life'[x] = "none"
                   PROVE  /\ queue'[x] = <<>> /\ pending'[x] = 0 /\ timers'[x] = {}
                          /\ ~stopping'[x] /\ catching'[x] = None
      BY DEF Untouched
    <2>2. x # d /\ life[x] = "none"
      BY <1>2, <1>4, <2>1
    <2>3. QED
      BY <1>1, <1>3, <1>5, <2>2 DEF IInv, Untouched
  <1>11. StepLives'
    BY <1>1 DEF StepLives
  <1>12. Caught'
    <2>1. \A x \in stopFailed' : stopping'[x]
      BY <1>1, <1>2, <1>6 DEF IInv, Caught
    <2>2. \A x \in Daemons : catching'[x] # None => object'[x] < MaxDumps
      BY <1>1, <1>5 DEF IInv, Caught
    <2>3. QED
      BY <2>1, <2>2 DEF Caught
  <1>13. Ascending'
    BY <1>1 DEF IInv, Ascending
  <1>14. QED
    BY <1>7, <1>8, <1>9, <1>10, <1>11, <1>12, <1>13 DEF IInv, QueueExact

\* The new object after a dump.
LEMMA RenewKeepsIInv ==
    ASSUME IInv, NEW d \in Daemons, Renew(d)
    PROVE  IInv'
  <1> USE DaemonBounds, NoCallback
  <1>0. TypeOK /\ PendingIsQueued /\ OneStop
    BY DEF IInv, QueueExact
  <1> DEFINE e == Entry("on_error", 0)
  <1>1. e \in Entries /\ e.cb = "on_error" /\ e.cb # "on_stop" /\ e.cb # "on_message"
    BY DEF Entry, Entries, Callbacks
  <1>2. /\ catching[d] # None /\ catching' = [catching EXCEPT ![d] = None]
        /\ object' = [object EXCEPT ![d] = @ + 1]
        /\ UNCHANGED <<life, stopping, timers, step, sent, arms, got, stopFailed>>
    BY DEF Renew
  <1>3. object[d] < MaxDumps /\ object[d] \in Nat /\ life[d] # "none"
    BY <1>0, <1>2 DEF IInv, Caught, Untouched, TypeOK
  <1>4. /\ object' \in [Daemons -> 0 .. MaxDumps] /\ object'[d] \in 0 .. MaxDumps
        /\ \A x \in Daemons \ {d} : object'[x] = object[x]
        /\ catching' \in [Daemons -> Callbacks \cup {None}]
        /\ catching'[d] = None /\ \A x \in Daemons \ {d} : catching'[x] = catching[x]
    BY <1>0, <1>2, <1>3 DEF TypeOK
  <1>5. told' \subseteq Daemons \X (0 .. MaxDumps)
    BY <1>0, <1>4 DEF Renew, TypeOK
  <1>6. /\ queue' \in [Daemons -> Seq(Entries)] /\ pending' \in [Daemons -> Nat]
        /\ \A x \in Daemons \ {d} : queue'[x] = queue[x] /\ pending'[x] = pending[x]
        /\ \A x \in Daemons :
              Cardinality(Places(queue'[x], {"on_stop"})) = Cardinality(Places(queue[x], {"on_stop"}))
        /\ pending[d] = Cardinality(Counted(queue[d]))
              => pending'[d] = Cardinality(Counted(queue'[d]))
        /\ Ascending'
    <2>1. CASE catching[d] = "on_error"
      BY <1>0, <1>2, <2>1 DEF Renew, TypeOK, IInv, Ascending
    <2>2. CASE catching[d] # "on_error"
      <3>1. Enqueue(d, e)
        BY <2>2 DEF Renew
      <3>2. Ascending'
        BY <1>0, <1>1, <1>2, <3>1, EnqueueAscends DEF IInv, Enqueue
      <3>3. QED
        BY <1>0, <1>1, <3>1, <3>2, EnqueueCounts
    <2>3. QED
      BY <2>1, <2>2
  <1>7. TypeOK'
    BY <1>0, <1>2, <1>4, <1>5, <1>6 DEF TypeOK
  <1>8. PendingIsQueued'
    BY <1>0, <1>2, <1>6 DEF PendingIsQueued
  <1>9. OneStop'
    <2>1. \A x \in Daemons : StopDue(x)' <=> StopDue(x)
      BY <1>2 DEF StopDue
    <2>2. QED
      BY <1>0, <1>6, <2>1 DEF OneStop
  <1>10. Untouched' /\ StepLives' /\ Caught'
    <2>1. Untouched'
      BY <1>2, <1>3, <1>4, <1>6 DEF IInv, Untouched
    <2>2. StepLives'
      BY <1>0, <1>2, <1>4 DEF IInv, StepLives, TypeOK, Running
    <2>3. Caught'
      BY <1>2, <1>4 DEF IInv, Caught
    <2>4. QED
      BY <2>1, <2>2, <2>3
  <1>11. QED
    BY <1>6, <1>7, <1>8, <1>9, <1>10 DEF IInv, QueueExact

\* The timers: armed, disarmed, expired.
LEMMA TimersKeepIInv ==
    ASSUME IInv,
           \/ \E h \in Handlers : StartTimer(h) \/ StopTimer(h)
           \/ \E d \in Daemons, h \in Handlers : Expire(d, h)
    PROVE  IInv'
  <1> USE DaemonBounds, NoCallback
  <1>0. TypeOK /\ PendingIsQueued /\ OneStop
    BY DEF IInv, QueueExact
  <1>1. ASSUME NEW h \in Handlers, StartTimer(h) \/ StopTimer(h)
        PROVE  IInv'
    <2>1. /\ step # None /\ step.of \in Daemons /\ life[step.of] # "none"
          /\ UNCHANGED <<life, stopping, queue, pending, step, catching, object, sent, got, told,
                         stopFailed>>
      BY <1>0, <1>1 DEF StartTimer, StopTimer, histories, TypeOK, Running, IInv, StepLives
    <2>2. /\ timers' \in [Daemons -> SUBSET Handlers] /\ arms' \in 0 .. MaxArms
          /\ \A x \in Daemons \ {step.of} : timers'[x] = timers[x]
      <3>1. PICK t \in SUBSET Handlers : timers' = [timers EXCEPT ![step.of] = t]
        <4>1. timers[step.of] \cup {h} \in SUBSET Handlers /\ timers[step.of] \ {h} \in SUBSET Handlers
          BY <1>0, <2>1 DEF TypeOK
        <4>2. \/ timers' = [timers EXCEPT ![step.of] = timers[step.of] \cup {h}]
              \/ timers' = [timers EXCEPT ![step.of] = timers[step.of] \ {h}]
          BY <1>1 DEF StartTimer, StopTimer
        <4>3. QED
          BY <4>1, <4>2, Zenon
      <3>2. arms' \in 0 .. MaxArms
        BY <1>0, <1>1 DEF StartTimer, StopTimer, histories, TypeOK
      <3>3. QED
        BY <1>0, <2>1, <3>1, <3>2 DEF TypeOK
    <2>3. TypeOK'
      BY <1>0, <2>1, <2>2 DEF TypeOK
    <2>4. PendingIsQueued' /\ Ascending' /\ StepLives' /\ Caught'
      BY <1>0, <2>1 DEF PendingIsQueued, IInv, Ascending, StepLives, Caught
    <2>5. \A x \in Daemons : StopDue(x)' <=> StopDue(x)
      BY <2>1 DEF StopDue
    <2>6. OneStop'
      BY <1>0, <2>1, <2>5 DEF OneStop
    <2>7. Untouched'
      BY <2>1, <2>2 DEF IInv, Untouched
    <2>8. QED
      BY <2>3, <2>4, <2>6, <2>7 DEF IInv, QueueExact
  <1>2. ASSUME NEW d \in Daemons, NEW h \in Handlers, Expire(d, h)
        PROVE  IInv'
    <2> DEFINE e == Entry("on_timeout", h)
    <2>1. /\ e \in Entries /\ e.cb = "on_timeout" /\ e.cb # "on_stop" /\ e.cb # "on_message"
          /\ e.cb \in Uncounted
      BY DEF Entry, Entries, Callbacks, Uncounted
    <2>2. /\ Enqueue(d, e) /\ queue' = [queue EXCEPT ![d] = Append(@, e)]
          /\ UNCHANGED <<life, stopping, pending, step, catching, object, sent, arms, got, told,
                         stopFailed>>
      BY <1>2, <2>1 DEF Expire, Enqueue, histories
    <2>3. life[d] # "none"
      BY <1>2 DEF Expire, IInv, Untouched
    <2>4. /\ timers' \in [Daemons -> SUBSET Handlers]
          /\ \A x \in Daemons \ {d} : timers'[x] = timers[x]
      BY <1>0, <1>2 DEF Expire, TypeOK
    <2>5. TypeOK'
      BY <1>0, <2>1, <2>2, <2>4, EnqueueCounts DEF TypeOK
    <2>6. PendingIsQueued'
      BY <1>0, <2>1, <2>2, EnqueueCounts DEF PendingIsQueued
    <2>7. OneStop'
      <3>1. \A x \in Daemons : StopDue(x)' <=> StopDue(x)
        BY <2>2 DEF StopDue
      <3>2. \A x \in Daemons :
                Cardinality(Places(queue'[x], {"on_stop"})) = Cardinality(Places(queue[x], {"on_stop"}))
        BY <1>0, <2>1, <2>2, EnqueueCounts
      <3>3. QED
        BY <1>0, <3>1, <3>2 DEF OneStop
    <2>8. Untouched'
      <3>1. \A x \in Daemons \ {d} : queue'[x] = queue[x]
        BY <1>0, <2>1, <2>2, EnqueueCounts
      <3>2. QED
        BY <2>2, <2>3, <2>4, <3>1 DEF IInv, Untouched
    <2>9. StepLives' /\ Caught'
      BY <2>2 DEF IInv, StepLives, Caught
    <2>10. Ascending'
      BY <1>0, <2>1, <2>2, EnqueueAscends DEF IInv
    <2>11. QED
      BY <2>5, <2>6, <2>7, <2>8, <2>9, <2>10 DEF IInv, QueueExact
  <1>3. QED
    BY <1>1, <1>2

\* A host that has just started satisfies the invariant.
LEMMA InitIInv == Init => IInv
  <1> SUFFICES ASSUME Init  PROVE IInv
    OBVIOUS
  <1> USE DaemonBounds, NoCallback
  <1>1. TypeOK
    BY DEF Init, TypeOK
  <1>2. \A d \in Daemons : queue[d] = <<>> /\ Counted(queue[d]) = {} /\ Places(queue[d], {"on_stop"}) = {}
    BY DEF Init, Counted, Places
  <1>3. PendingIsQueued /\ OneStop
    BY <1>2, FS_EmptySet DEF Init, PendingIsQueued, OneStop, StopDue
  <1>4. Untouched /\ StepLives /\ Caught
    BY DEF Init, Untouched, StepLives, Caught
  <1>5. Ascending
    BY <1>2 DEF Init, Ascending, Ascends
  <1>6. QED
    BY <1>1, <1>3, <1>4, <1>5 DEF IInv, QueueExact

\* Every step keeps it.
LEMMA NextKeepsIInv == IInv /\ [Next]_vars => IInv'
  <1> SUFFICES ASSUME IInv, [Next]_vars  PROVE IInv'
    OBVIOUS
  <1>1. CASE \E d \in Daemons : Start(d) \/ Send(d) \/ Stop(d)
    BY <1>1, CallsKeepIInv
  <1>2. CASE \E d \in Daemons : Skip(d) \/ Postpone(d) \/ Begin(d) \/ Renew(d)
    BY <1>2, PassingKeepsIInv, BeginKeepsIInv, RenewKeepsIInv
  <1>3. CASE Return \/ Dump
    BY <1>3, EndKeepsIInv
  <1>4. CASE \/ \E h \in Handlers : StartTimer(h) \/ StopTimer(h)
             \/ \E d \in Daemons, h \in Handlers : Expire(d, h)
    BY <1>4, TimersKeepIInv
  <1>5. CASE UNCHANGED vars
    <2>1. \A x \in Daemons : StopDue(x)' <=> StopDue(x)
      BY <1>5 DEF vars, StopDue
    <2>2. OneStop'
      BY <1>5, <2>1 DEF vars, IInv, QueueExact, OneStop
    <2>3. QED
      BY <1>5, <2>2 DEF vars, IInv, QueueExact, TypeOK, PendingIsQueued, Untouched, StepLives, Caught,
                        Ascending
  <1>6. QED
    BY <1>1, <1>2, <1>3, <1>4, <1>5 DEF Next

-----------------------------------------------------------------------------
(* What holds of the host *)

\* The inductive invariant holds in every state.
THEOREM DaemonInvariant == Spec => []IInv
  BY InitIInv, NextKeepsIInv, PTL DEF Spec

\* row.pending is the number of callbacks that on_stop has to wait for, and a daemon that
\* is being stopped has one stop in its queue, for any number of daemons, messages, dumps
\* and timers (enqueue, pump and stop of tools/osd-daemon-host.mjs).
THEOREM QueueIsExact == Spec => []QueueExact
  <1>1. IInv => QueueExact
    BY DEF IInv
  <1>2. QED
    BY <1>1, DaemonInvariant, PTL

\* A step that begins a callback is a Begin.
LEMMA OnlyBeginBegins ==
    ASSUME IInv, [Next]_vars, step' # None, step' # step
    PROVE  \E d \in Daemons : Begin(d)
  BY DEF Next, vars, Start, Send, Stop, Skip, Postpone, Renew, Return, Dump, StartTimer, StopTimer,
         Expire

\* Messages are delivered in the order in which they were sent, none twice, and on_stop
\* begins when nothing else that counts is in the queue, whatever was sent after the stop
\* was asked for.
THEOREM MailboxIsOrdered == Spec => MailboxOrder
  <1>1. ASSUME IInv, [Next]_vars
        PROVE  /\ (step' # None /\ step' # step /\ step'.cb = "on_message") =>
                      step'.arg > got[step'.of]
               /\ \A d \in Daemons :
                     (step' # None /\ step' # step /\ step'.of = d /\ step'.cb = "on_stop") =>
                         Counted(queue'[d]) = {}
    <2>1. SUFFICES ASSUME step' # None, step' # step
                   PROVE  /\ step'.cb = "on_message" => step'.arg > got[step'.of]
                          /\ step'.cb = "on_stop" => Counted(queue'[step'.of]) = {}
      OBVIOUS
    <2>2. PICK d \in Daemons : Begin(d)
      BY <1>1, <2>1, OnlyBeginBegins
    <2>3. /\ TypeOK /\ PendingIsQueued
          /\ queue[d] \in Seq(Entries) /\ queue[d] # <<>> /\ queue' = [queue EXCEPT ![d] = Tail(@)]
          /\ step' = [of |-> d, cb |-> Head(queue[d]).cb, arg |-> Head(queue[d]).of]
      BY <1>1, <2>2 DEF Begin, Takes, Rest, IInv, QueueExact, TypeOK
    <2>4. ASSUME step'.cb = "on_message"  PROVE step'.arg > got[step'.of]
      <3>1. Ascends(queue[d], got[d], sent) /\ got[d] \in Nat /\ sent \in Nat
        BY <1>1, <2>3, DaemonBounds DEF IInv, Ascending, TypeOK
      <3>2. got[d] < Head(queue[d]).of /\ Head(queue[d]).of \in Nat
        BY <2>3, <2>4, <3>1, TailAscends
      <3>3. QED
        BY <2>3, <3>1, <3>2
    <2>5. ASSUME step'.cb = "on_stop"  PROVE Counted(queue'[step'.of]) = {}
      <3>1. Head(queue[d]).cb = "on_stop" /\ life[d] = "listed" /\ pending[d] = 0
        BY <2>2, <2>3, <2>5 DEF Begin
      <3>2. Cardinality(Counted(queue[d])) = 0 /\ Head(queue[d]).cb \in Uncounted
        BY <2>3, <3>1 DEF PendingIsQueued, Uncounted
      <3>3. Cardinality(Counted(queue'[d])) = 0 /\ queue'[d] \in Seq(Entries)
        <4>1. /\ queue'[d] \in Seq(Entries)
              /\ Cardinality(Counted(queue'[d])) =
                    Cardinality(Counted(queue[d]))
                       - (IF Head(queue[d]).cb \in Uncounted THEN 0 ELSE 1)
              /\ Cardinality(Counted(queue'[d])) \in Nat
          BY <2>3, TailCounts
        <4>2. (IF Head(queue[d]).cb \in Uncounted THEN 0 ELSE 1) = 0
          BY <3>2
        <4>3. Cardinality(Counted(queue'[d])) = 0 - 0
          BY <3>2, <4>1, <4>2, Zenon
        <4>4. QED
          BY <4>1, <4>3
      <3>4. QED
        BY <2>3, <3>3, PlacesFinite, FS_EmptySet DEF Counted
    <2>6. QED
      BY <2>4, <2>5
  <1>2. QED
    BY <1>1, DaemonInvariant, PTL DEF Spec, MailboxOrder, InOrder, StopIsLast
=============================================================================
