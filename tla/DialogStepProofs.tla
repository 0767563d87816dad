--------------------------- MODULE DialogStepProofs --------------------------
(***************************************************************************)
(* The work process keeps its queue, its LUWs and the context of a step,   *)
(* for any clients, receivers and bounds.                                  *)
(***************************************************************************)
EXTENDS DialogStep, FiniteSetTheorems, TLAPS

-----------------------------------------------------------------------------
(* The inductive invariants, one for each thing the steps share *)

Active == {"running", "polling", "failing"}
Pcs == {"idle", "queued", "running", "polling", "failing", "asleep", "pumping", "to publish"}
           \cup Waking \cup Over
Rows == Dialog \X Luws \X (1 .. MaxRows)
Shims == IcfState \cup {NoState}

\* The types of the work process, of the data and of the shared context.
QueueTypes ==
    /\ holder \in Tokens \cup {NoToken} /\ waiting \in Seq(Tokens)
    /\ pc \in [Tokens -> Pcs] /\ serves \in [Receivers -> Sessions \cup {NoToken}]
DataTypes ==
    /\ conn \subseteq Rows /\ db \subseteq Rows
    /\ luwEnd \in [Dialog -> SUBSET Luws] /\ luw \in [Dialog -> Luws]
    /\ wrote \in [Dialog -> SUBSET Rows] /\ fate \in [Dialog -> [Luws -> Fates]]
ShimTypes ==
    /\ icf \in Shims /\ saved \in [Dialog -> Shims] /\ found \in [Receivers -> Shims]
    /\ own \in [Sessions -> Shims] /\ sy \in {0, 4, 8} /\ expect \in [Dialog -> {0, 4, 8}]

In(q, t) == \E i \in DOMAIN q : q[i] = t
Distinct(q) == \A i, j \in DOMAIN q : q[i] = q[j] => i = j

\* Who needs the work process and has it not is in line, once, and nobody else is; who is in
\* the middle of its ABAP has it.
InLine ==
    /\ Distinct(waiting) /\ (waiting # <<>> => holder # NoToken)
    /\ \A t \in Tokens : In(waiting, t) <=> pc[t] \in NeedsWorkProcess /\ holder # t
    /\ \A t \in Tokens : holder = t => pc[t] \in NeedsWorkProcess \cup Active
    /\ \A t \in Tokens : pc[t] \in Active => holder = t

\* A reader never sleeps, and a receiver that has work delivers to a session of its own,
\* which waits for it.
Roles ==
    /\ \A q \in Readers : pc[q] \in {"idle", "queued", "running"}
    /\ \A r \in Receivers :
          IF pc[r] = "idle" THEN serves[r] = NoToken
                            ELSE serves[r] \in Sessions /\ pc[serves[r]] = "pumping"
    /\ \A r, q \in Receivers : serves[r] = serves[q] /\ serves[r] # NoToken => r = q

QInv == QueueTypes /\ InLine /\ Roles

\* What is written and not committed belongs to the LUW of the step that runs; what is
\* committed was written by a step that is remembered.
RowsKnown ==
    /\ \A row \in conn : Runs(row[1]) /\ row[2] = luw[row[1]] /\ row \in wrote[row[1]]
    /\ \A row \in db : row \in wrote[row[1]]
    /\ \A t \in Dialog : \A row \in wrote[t] :
          row[1] = t /\ (fate[t][row[2]] = "open" => row \in conn)

\* The LUW of a step that is not over is open, and so are those to come.
Later(k, n) == k > n
LuwOpen ==
    \A t \in Dialog : \A k \in Luws :
        (Later(k, luw[t]) \/ (k = luw[t] /\ pc[t] \notin Over \cup {"to publish"})) => fate[t][k] = "open"

\* LuwAtomic, row by row.
RowFates == \A t \in Dialog : \A row \in wrote[t] : row \in db <=> fate[t][row[2]] = "committed"

DInv == DataTypes /\ RowsKnown /\ LuwOpen /\ RowFates /\ LuwEndTold

\* Where the shim's state of a session is, as the session and its receivers left it: on the
\* server while one of them runs, on the token of the one that sleeps, and on the session's
\* before and after a delivery.
Kept(t) ==
    /\ pc[t] \in Active => icf = own[SessionOf(t)]
    /\ pc[t] \in {"asleep"} \cup Waking => saved[t] = own[SessionOf(t)]
    /\ t \in Receivers /\ pc[t] \in {"queued", "to publish"} \cup Over =>
          saved[serves[t]] = own[serves[t]]
ShimKept == \A t \in Dialog : Kept(t)

\* The one sy-subrc is that of the step that runs, unless a clock is moved from outside.
SyKept ==
    \/ InjectedClock
    \/ /\ \A t \in Tokens : pc[t] # "waking late"
       /\ \A t \in Dialog : pc[t] = "running" => sy = expect[t]

CInv == ShimTypes /\ ShimKept /\ SyKept
IInv == QInv /\ DInv /\ CInv

-----------------------------------------------------------------------------
(* The line for the work process *)

\* Who is put at the end of the line stands there once.
LEMMA AppendLine ==
    ASSUME NEW q \in Seq(Tokens), NEW t \in Tokens, Distinct(q), ~In(q, t)
    PROVE  /\ Append(q, t) \in Seq(Tokens) /\ Append(q, t) # <<>>
           /\ Distinct(Append(q, t))
           /\ \A u : In(Append(q, t), u) <=> In(q, u) \/ u = t
  <1>1. /\ DOMAIN Append(q, t) = 1 .. Len(q) + 1 /\ DOMAIN q = 1 .. Len(q) /\ Len(q) \in Nat
        /\ \A i \in DOMAIN q : Append(q, t)[i] = q[i]
        /\ Append(q, t)[Len(q) + 1] = t
        /\ Append(q, t) \in Seq(Tokens)
    OBVIOUS
  <1>2. Append(q, t) # <<>>
    <2>1. Len(Append(q, t)) = Len(q) + 1 /\ Len(<<>>) = 0
      OBVIOUS
    <2>2. QED
      BY <1>1, <2>1
  <1>3. Distinct(Append(q, t))
    BY <1>1 DEF Distinct, In
  <1>4. ASSUME NEW u  PROVE In(Append(q, t), u) <=> In(q, u) \/ u = t
    BY <1>1 DEF In
  <1>5. QED
    BY <1>1, <1>2, <1>3, <1>4

\* Who leads the line and leaves it is not in it any more; the others are.
LEMMA TailLine ==
    ASSUME NEW q \in Seq(Tokens), q # <<>>, Distinct(q)
    PROVE  /\ Head(q) \in Tokens /\ Tail(q) \in Seq(Tokens) /\ In(q, Head(q))
           /\ Distinct(Tail(q))
           /\ \A u : In(Tail(q), u) <=> In(q, u) /\ u # Head(q)
  <1>1. /\ DOMAIN Tail(q) = 1 .. Len(q) - 1 /\ DOMAIN q = 1 .. Len(q) /\ Len(q) \in Nat \ {0}
        /\ \A i \in DOMAIN Tail(q) : i \in Nat /\ i + 1 \in DOMAIN q /\ Tail(q)[i] = q[i + 1]
        /\ Head(q) = q[1] /\ 1 \in DOMAIN q
        /\ Head(q) \in Tokens /\ Tail(q) \in Seq(Tokens)
    OBVIOUS
  <1>2. In(q, Head(q))
    BY <1>1 DEF In
  <1>3. Distinct(Tail(q))
    BY <1>1 DEF Distinct
  <1>4. ASSUME NEW u  PROVE In(Tail(q), u) <=> In(q, u) /\ u # Head(q)
    <2>1. ASSUME In(Tail(q), u)  PROVE In(q, u) /\ u # Head(q)
      <3>1. PICK i \in DOMAIN Tail(q) : Tail(q)[i] = u
        BY <2>1 DEF In
      <3>2. i + 1 \in DOMAIN q /\ q[i + 1] = u /\ i + 1 # 1
        BY <1>1, <3>1
      <3>3. QED
        BY <1>1, <3>2 DEF In, Distinct
    <2>2. ASSUME In(q, u), u # Head(q)  PROVE In(Tail(q), u)
      <3>1. PICK i \in DOMAIN q : q[i] = u
        BY <2>2 DEF In
      <3>2. i - 1 \in DOMAIN Tail(q) /\ (i - 1) + 1 = i
        BY <1>1, <2>2, <3>1
      <3>3. Tail(q)[i - 1] = u
        BY <1>1, <3>1, <3>2
      <3>4. QED
        BY <3>2, <3>3 DEF In
    <2>3. QED
      BY <2>1, <2>2
  <1>5. QED
    BY <1>1, <1>2, <1>3, <1>4

\* Neither at work nor in need of the work process, before and after.
Aside(u) == pc[u] \notin NeedsWorkProcess \cup Active

\* acquire puts a step into the line, or gives it the work process.
LEMMA AcquireInLine ==
    ASSUME QueueTypes, InLine, NEW t \in Tokens, acquire(t), Aside(t), pc'[t] \in NeedsWorkProcess,
           \A u \in Tokens \ {t} : pc'[u] = pc[u] \/ (Aside(u) /\ Aside(u)')
    PROVE  InLine' /\ holder' \in Tokens \cup {NoToken} /\ waiting' \in Seq(Tokens)
  <1> USE NothingAssumption
  <1>1. holder # t /\ ~In(waiting, t) /\ waiting \in Seq(Tokens) /\ Distinct(waiting)
    BY DEF InLine, Aside, QueueTypes
  <1>2. pc'[t] \notin Active
    BY DEF NeedsWorkProcess, Active, Waking
  <1>3. CASE holder = NoToken
    <2>1. holder' = t /\ waiting' = waiting /\ waiting = <<>>
      BY <1>3 DEF acquire, InLine
    <2>2. \A u \in Tokens : ~In(waiting, u)
      BY <2>1 DEF In
    <2>3. \A u \in Tokens : pc[u] \notin NeedsWorkProcess /\ pc[u] \notin Active
      BY <1>3, <2>2 DEF InLine
    <2>4. QED
      BY <1>1, <1>2, <2>1, <2>2, <2>3 DEF InLine, Aside
  <1>4. CASE holder # NoToken
    <2>1. holder' = holder /\ waiting' = Append(waiting, t) /\ holder \in Tokens
      BY <1>4 DEF acquire, QueueTypes
    <2>2. /\ waiting' \in Seq(Tokens) /\ waiting' # <<>> /\ Distinct(waiting')
          /\ \A u : In(waiting', u) <=> In(waiting, u) \/ u = t
      BY <1>1, <2>1, AppendLine
    <2>3. \A u \in Tokens : In(waiting', u) <=> pc'[u] \in NeedsWorkProcess /\ holder' # u
      BY <1>1, <2>1, <2>2 DEF InLine, Aside
    <2>4. \A u \in Tokens : holder' = u => pc'[u] \in NeedsWorkProcess \cup Active
      BY <1>1, <2>1 DEF InLine, Aside
    <2>5. \A u \in Tokens : pc'[u] \in Active => holder' = u
      BY <1>2, <2>1 DEF InLine, Aside
    <2>6. QED
      BY <1>4, <2>1, <2>2, <2>3, <2>4, <2>5 DEF InLine
  <1>5. QED
    BY <1>3, <1>4

\* release hands the work process to whoever leads the line.
LEMMA ReleaseInLine ==
    ASSUME QueueTypes, InLine, NEW t \in Tokens, holder = t, release, Aside(t)',
           \A u \in Tokens \ {t} : pc'[u] = pc[u]
    PROVE  InLine' /\ holder' \in Tokens \cup {NoToken} /\ waiting' \in Seq(Tokens)
  <1> USE NothingAssumption
  <1>1. /\ holder # NoToken /\ ~In(waiting, t) /\ waiting \in Seq(Tokens) /\ Distinct(waiting)
        /\ \A u \in Tokens \ {t} : pc[u] \notin Active
    BY DEF InLine, QueueTypes
  <1>2. CASE waiting = <<>>
    <2>1. holder' = NoToken /\ waiting' = waiting
      BY <1>2 DEF release
    <2>2. \A u \in Tokens : ~In(waiting, u)
      BY <1>2 DEF In
    <2>3. \A u \in Tokens : pc'[u] \notin NeedsWorkProcess /\ pc'[u] \notin Active
      BY <1>1, <2>2 DEF InLine, Aside
    <2>4. QED
      BY <1>1, <1>2, <2>1, <2>2, <2>3 DEF InLine
  <1>3. CASE waiting # <<>>
    <2>1. holder' = Head(waiting) /\ waiting' = Tail(waiting)
      BY <1>3 DEF release
    <2>2. /\ holder' \in Tokens /\ waiting' \in Seq(Tokens) /\ In(waiting, holder')
          /\ Distinct(waiting') /\ \A u : In(waiting', u) <=> In(waiting, u) /\ u # holder'
      BY <1>1, <1>3, <2>1, TailLine
    <2>3. holder' # t /\ pc'[holder'] \in NeedsWorkProcess
      BY <1>1, <2>2 DEF InLine
    <2>4. \A u \in Tokens : In(waiting', u) <=> pc'[u] \in NeedsWorkProcess /\ holder' # u
      BY <1>1, <2>2 DEF InLine, Aside
    <2>5. \A u \in Tokens : pc'[u] \in Active => holder' = u
      BY <1>1 DEF Aside
    <2>6. QED
      BY <2>2, <2>3, <2>4, <2>5 DEF InLine
  <1>4. QED
    BY <1>2, <1>3

\* Who has the work process may go to work, and who needs it not may go where it likes.
LEMMA HoldInLine ==
    ASSUME QueueTypes, InLine, UNCHANGED <<holder, waiting>>,
           \A u \in Tokens : \/ pc'[u] = pc[u]
                             \/ Aside(u) /\ Aside(u)'
                             \/ holder = u /\ pc'[u] \in Active
    PROVE  InLine'
  <1>1. \A u \in Tokens : pc'[u] \in Active => pc'[u] \notin NeedsWorkProcess
    BY DEF NeedsWorkProcess, Active, Waking
  <1>2. \A u \in Tokens : In(waiting, u) <=> pc'[u] \in NeedsWorkProcess /\ holder # u
    BY <1>1 DEF InLine, Aside
  <1>3. \A u \in Tokens : holder = u => pc'[u] \in NeedsWorkProcess \cup Active
    BY DEF InLine, Aside
  <1>4. \A u \in Tokens : pc'[u] \in Active => holder = u
    BY DEF InLine, Aside
  <1>5. QED
    BY <1>2, <1>3, <1>4 DEF InLine

\* A step that moves on leaves the deliveries as they are.
LEMMA MoveRoles ==
    ASSUME QueueTypes, Roles, NEW t \in Tokens, NEW p \in Pcs, serves' = serves,
           pc' = [pc EXCEPT ![t] = p], pc[t] # "pumping",
           t \in Readers => p \in {"idle", "queued", "running"},
           t \in Receivers => pc[t] # "idle" /\ p # "idle"
    PROVE  Roles' /\ pc' \in [Tokens -> Pcs] /\ pc'[t] = p /\ \A u \in Tokens \ {t} : pc'[u] = pc[u]
  <1>1. pc' \in [Tokens -> Pcs] /\ pc'[t] = p /\ \A u \in Tokens \ {t} : pc'[u] = pc[u]
    BY DEF QueueTypes
  <1>2. \A q \in Readers : pc'[q] \in {"idle", "queued", "running"}
    BY <1>1 DEF Roles, Tokens
  <1>3. ASSUME NEW r \in Receivers
        PROVE  IF pc'[r] = "idle" THEN serves[r] = NoToken
                                  ELSE serves[r] \in Sessions /\ pc'[serves[r]] = "pumping"
    BY <1>1 DEF Roles, Tokens
  <1>4. QED
    BY <1>1, <1>2, <1>3 DEF Roles

-----------------------------------------------------------------------------
(* The work process, step by step *)

\* How a step of one token changes the work process.
Moves(t, p) == pc' = [pc EXCEPT ![t] = p] /\ serves' = serves /\ pc[t] # "pumping"

\* A step that stays where it is.
StaysAtWork(t) ==
    Write(t) \/ ReadNothing(t) \/ Respond(t) \/ onStepLuwEnd(t) \/ CommitWork(t) \/ RollbackWork(t)

\* A step that comes, comes back or publishes acquires the work process.
LEMMA AcquireKeepsQInv ==
    ASSUME QInv, NEW t \in Tokens, Arrive(t) \/ Publish(t) \/ Wake(t) \/ WakeAtCeiling(t)
    PROVE  QInv'
  <1> USE ClientsDisjoint
  <1>1. PICK p \in {"queued", "to publish", "waking", "waking late"} :
            /\ acquire(t) /\ Moves(t, p) /\ pc[t] \in {"idle", "after", "asleep"}
            /\ t \in Readers => p = "queued"
            /\ t \in Receivers => pc[t] # "idle"
    BY DEF Arrive, Publish, Wake, WakeAtCeiling, Moves, Dialog, QInv, Roles, Tokens
  <1>2. /\ p \in Pcs /\ p \in NeedsWorkProcess /\ p # "idle" /\ Aside(t)
    BY <1>1 DEF Pcs, NeedsWorkProcess, Waking, Aside, Active
  <1>3. Roles' /\ pc' \in [Tokens -> Pcs] /\ pc'[t] = p /\ \A u \in Tokens \ {t} : pc'[u] = pc[u]
    BY <1>1, <1>2, MoveRoles DEF Moves, QInv
  <1>4. InLine' /\ holder' \in Tokens \cup {NoToken} /\ waiting' \in Seq(Tokens)
    BY <1>1, <1>2, <1>3, AcquireInLine DEF QInv
  <1>5. QED
    BY <1>1, <1>3, <1>4 DEF QInv, QueueTypes, Moves

\* A step that ends, sleeps or has published releases it.
LEMMA ReleaseKeepsQInv ==
    ASSUME QInv, NEW t \in Tokens, EndOk(t) \/ Dump(t) \/ Published(t) \/ Wait(t)
    PROVE  QInv'
  <1> USE ClientsDisjoint
  <1>1. PICK p \in {"after", "after dump", "published", "asleep", "idle"} :
            /\ holder = t /\ release /\ Moves(t, p) /\ pc[t] \in {"running", "polling", "failing", "to publish"}
            /\ t \in Readers => p = "idle"
            /\ t \in Receivers => p # "idle"
    BY DEF EndOk, Dump, Published, Wait, Runs, Moves, Dialog, QInv, Roles
  <1>2. p \in Pcs /\ p \notin NeedsWorkProcess \cup Active
    BY <1>1 DEF Pcs, NeedsWorkProcess, Waking, Active, Over
  <1>3. Roles' /\ pc' \in [Tokens -> Pcs] /\ pc'[t] = p /\ \A u \in Tokens \ {t} : pc'[u] = pc[u]
    BY <1>1, <1>2, MoveRoles DEF Moves, QInv
  <1>4. InLine' /\ holder' \in Tokens \cup {NoToken} /\ waiting' \in Seq(Tokens)
    BY <1>1, <1>2, <1>3, ReleaseInLine DEF QInv, Aside
  <1>5. QED
    BY <1>1, <1>3, <1>4 DEF QInv, QueueTypes, Moves

\* A WAIT that is over goes on at work, and sets sy-subrc only if its time was over.
LEMMA WaitEnds ==
    ASSUME NEW t, pc[t] \in Waking
    PROVE  /\ WaitEnd(t) \subseteq Active \X {0, 8, sy}
           /\ pc[t] = "waking failed" => WaitEnd(t) = {<<"failing", sy>>}
  <1>1. CASE pc[t] = "waking"
    <2>1. WaitEnd(t) = {<<"running", 0>>, <<"running", 8>>, <<"polling", sy>>}
      BY <1>1 DEF WaitEnd
    <2>2. /\ <<"running", 0>> \in Active \X {0, 8, sy} /\ <<"running", 8>> \in Active \X {0, 8, sy}
          /\ <<"polling", sy>> \in Active \X {0, 8, sy}
      BY DEF Active
    <2>3. WaitEnd(t) \subseteq Active \X {0, 8, sy}
      BY <2>1, <2>2, Zenon
    <2>4. QED
      BY <1>1, <2>3
  <1>2. CASE pc[t] = "waking late"
    <2>1. WaitEnd(t) = {<<"running", sy>>}
      BY <1>2 DEF WaitEnd
    <2>2. <<"running", sy>> \in Active \X {0, 8, sy}
      BY DEF Active
    <2>3. WaitEnd(t) \subseteq Active \X {0, 8, sy}
      BY <2>1, <2>2, Zenon
    <2>4. QED
      BY <1>2, <2>3
  <1>3. CASE pc[t] = "waking failed"
    <2>1. WaitEnd(t) = {<<"failing", sy>>}
      BY <1>3 DEF WaitEnd
    <2>2. QED
      BY <2>1 DEF Active
  <1>4. QED
    BY <1>1, <1>2, <1>3 DEF Waking

\* A step that begins or goes on has the work process, and one that is over needs it not.
LEMMA HoldKeepsQInv ==
    ASSUME QInv, NEW t \in Tokens, Start(t) \/ RollIn(t) \/ Return(t)
    PROVE  QInv'
  <1> USE ClientsDisjoint
  <1>1. PICK p \in Active \cup {"idle"} :
            /\ UNCHANGED <<holder, waiting>> /\ Moves(t, p)
            /\ t \in Readers => p \in {"idle", "running"}
            /\ t \in Receivers => p # "idle" /\ pc[t] # "idle"
            /\ \/ holder = t /\ p \in Active
               \/ pc[t] \in Over /\ p = "idle"
    <2>1. CASE Start(t)
      BY <2>1 DEF Start, Moves, Active
    <2>2. CASE RollIn(t)
      <3>1. t \notin Readers /\ pc[t] \notin {"pumping", "idle"}
        BY <2>2 DEF RollIn, QInv, Roles, Waking
      <3>2. WaitEnd(t) \subseteq Active \X {0, 8, sy}
        BY <2>2, WaitEnds DEF RollIn
      <3>3. PICK p \in Active : pc' = [pc EXCEPT ![t] = p]
        BY <2>2, <3>2 DEF RollIn
      <3>4. holder = t /\ UNCHANGED <<holder, waiting, serves>>
        BY <2>2 DEF RollIn
      <3>5. p # "idle"
        BY DEF Active
      <3>6. QED
        BY <3>1, <3>3, <3>4, <3>5 DEF Moves
    <2>3. CASE Return(t)
      BY <2>3 DEF Return, Moves, Over
    <2>4. QED
      BY <2>1, <2>2, <2>3
  <1>2. p \in Pcs /\ Aside(t) = (pc[t] \notin NeedsWorkProcess \cup Active)
    BY <1>1 DEF Pcs, Active, Aside
  <1>3. Roles' /\ pc' \in [Tokens -> Pcs] /\ pc'[t] = p /\ \A u \in Tokens \ {t} : pc'[u] = pc[u]
    BY <1>1, <1>2, MoveRoles DEF Moves, QInv
  <1>4. \/ holder = t /\ pc'[t] \in Active
        \/ Aside(t) /\ Aside(t)'
    BY <1>1, <1>3 DEF Aside, Over, NeedsWorkProcess, Waking, Active
  <1>5. InLine'
    BY <1>1, <1>3, <1>4, HoldInLine DEF QInv
  <1>6. QED
    BY <1>1, <1>3, <1>5 DEF QInv, QueueTypes, Moves

\* A message for a session that sleeps, and the end of its delivery.
LEMMA DeliveryKeepsQInv ==
    ASSUME QInv, NEW r \in Receivers,
           (\E s \in Sessions : Deliver(s, r)) \/ Delivered(r) \/ DeliveryFailed(r)
    PROVE  QInv'
  <1> USE ClientsDisjoint, NothingAssumption
  <1>0. r \in Tokens
    BY DEF Tokens
  <1>1. ASSUME NEW s \in Sessions, Deliver(s, r)  PROVE QInv'
    <2>1. /\ s \in Tokens /\ s # r /\ pc[s] = "asleep" /\ pc[r] = "idle" /\ acquire(r)
          /\ serves' = [serves EXCEPT ![r] = s]
          /\ pc' = [pc EXCEPT ![r] = "queued", ![s] = "pumping"]
      BY <1>1 DEF Deliver, Tokens
    <2>2. /\ pc' \in [Tokens -> Pcs] /\ pc'[r] = "queued" /\ pc'[s] = "pumping"
          /\ \A u \in Tokens \ {r, s} : pc'[u] = pc[u]
      BY <1>0, <2>1 DEF QInv, QueueTypes, Pcs
    <2>3. /\ serves' \in [Receivers -> Sessions \cup {NoToken}] /\ serves'[r] = s
          /\ \A q \in Receivers \ {r} : serves'[q] = serves[q]
      BY <2>1 DEF QInv, QueueTypes
    <2>4. /\ Aside(r) /\ Aside(s) /\ Aside(s)' /\ pc'[r] \in NeedsWorkProcess
      BY <2>1, <2>2 DEF Aside, NeedsWorkProcess, Waking, Active
    <2>5. InLine' /\ holder' \in Tokens \cup {NoToken} /\ waiting' \in Seq(Tokens)
      BY <1>0, <2>1, <2>2, <2>4, AcquireInLine DEF QInv
    <2>6. Roles'
      <3>1. \A q \in Readers : pc'[q] \in {"idle", "queued", "running"}
        BY <2>2 DEF QInv, Roles, Tokens
      <3>2. \A q \in Receivers \ {r} : pc'[q] = pc[q] /\ serves[q] # s
        BY <2>1, <2>2 DEF QInv, Roles, Tokens
      <3>3. ASSUME NEW q \in Receivers
            PROVE  IF pc'[q] = "idle" THEN serves'[q] = NoToken
                                      ELSE serves'[q] \in Sessions /\ pc'[serves'[q]] = "pumping"
        <4>1. CASE q = r
          BY <2>2, <2>3, <4>1
        <4>2. CASE q # r
          BY <2>1, <2>2, <2>3, <3>2, <4>2 DEF QInv, Roles, Tokens
        <4>3. QED
          BY <4>1, <4>2
      <3>4. \A x, q \in Receivers : serves'[x] = serves'[q] /\ serves'[x] # NoToken => x = q
        BY <2>3, <3>2 DEF QInv, Roles
      <3>5. QED
        BY <3>1, <3>3, <3>4 DEF Roles
    <2>7. QED
      BY <2>2, <2>3, <2>5, <2>6 DEF QInv, QueueTypes
  <1>2. ASSUME Delivered(r) \/ DeliveryFailed(r)  PROVE QInv'
    <2>1. /\ pc[r] \in Over /\ pc[r] # "idle" /\ Aside(r)
      BY <1>2 DEF Delivered, DeliveryFailed, Over, Aside, NeedsWorkProcess, Waking, Active
    <2>2. PICK s \in Sessions : s = serves[r] /\ pc[s] = "pumping" /\ s # r /\ s \in Tokens
      BY <2>1 DEF QInv, Roles, Tokens
    <2>3. PICK p \in {"asleep", "waking failed"} :
              /\ pc' = [pc EXCEPT ![r] = "idle", ![s] = p]
              /\ IF p = "asleep" THEN UNCHANGED <<holder, waiting>> ELSE acquire(s)
              /\ serves' = [serves EXCEPT ![r] = NoToken]
      BY <1>2, <2>2 DEF Delivered, DeliveryFailed
    <2>4. /\ pc' \in [Tokens -> Pcs] /\ pc'[r] = "idle" /\ pc'[s] = p
          /\ \A u \in Tokens \ {r, s} : pc'[u] = pc[u]
      BY <1>0, <2>2, <2>3 DEF QInv, QueueTypes, Pcs, Waking
    <2>5. /\ serves' \in [Receivers -> Sessions \cup {NoToken}] /\ serves'[r] = NoToken
          /\ \A q \in Receivers \ {r} : serves'[q] = serves[q] /\ serves[q] # s
      BY <2>2, <2>3 DEF QInv, QueueTypes, Roles
    <2>6. Aside(s) /\ Aside(r)'
      BY <2>2, <2>4 DEF Aside, NeedsWorkProcess, Waking, Active
    <2>7. InLine' /\ holder' \in Tokens \cup {NoToken} /\ waiting' \in Seq(Tokens)
      <3>1. CASE p = "asleep"
        <4>1. Aside(s)'
          BY <2>4, <3>1 DEF Aside, NeedsWorkProcess, Waking, Active
        <4>2. InLine'
          BY <2>1, <2>3, <2>4, <2>6, <3>1, <4>1, HoldInLine DEF QInv
        <4>3. QED
          BY <2>3, <3>1, <4>2 DEF QInv, QueueTypes
      <3>2. CASE p = "waking failed"
        <4>1. pc'[s] \in NeedsWorkProcess
          BY <2>4, <3>2 DEF NeedsWorkProcess, Waking
        <4>2. QED
          BY <2>1, <2>2, <2>3, <2>4, <2>6, <3>2, <4>1, AcquireInLine DEF QInv
      <3>3. QED
        BY <3>1, <3>2
    <2>8. Roles'
      <3>1. \A q \in Readers : pc'[q] \in {"idle", "queued", "running"}
        BY <2>4 DEF QInv, Roles, Tokens
      <3>2. ASSUME NEW q \in Receivers
            PROVE  IF pc'[q] = "idle" THEN serves'[q] = NoToken
                                      ELSE serves'[q] \in Sessions /\ pc'[serves'[q]] = "pumping"
        <4>1. CASE q = r
          BY <2>4, <2>5, <4>1
        <4>2. CASE q # r
          <5>1. serves'[q] = serves[q] /\ serves[q] # s /\ q # s /\ q \in Tokens
            BY <2>5, <4>2, ClientsDisjoint DEF Tokens
          <5>2. pc'[q] = pc[q]
            BY <2>4, <4>2, <5>1
          <5>3. IF pc[q] = "idle" THEN serves[q] = NoToken
                                  ELSE serves[q] \in Sessions /\ pc[serves[q]] = "pumping"
            BY DEF QInv, Roles
          <5>4. serves[q] \in Sessions /\ pc[serves[q]] = "pumping" => pc'[serves[q]] = "pumping"
            <6>1. ASSUME serves[q] \in Sessions  PROVE serves[q] \in Tokens \ {r, s}
              BY <5>1, <6>1, ClientsDisjoint DEF Tokens
            <6>2. QED
              BY <2>4, <6>1
          <5>5. QED
            BY <5>1, <5>2, <5>3, <5>4
        <4>3. QED
          BY <4>1, <4>2
      <3>3. \A x, q \in Receivers : serves'[x] = serves'[q] /\ serves'[x] # NoToken => x = q
        <4>1. SUFFICES ASSUME NEW x \in Receivers, NEW q \in Receivers,
                              serves'[x] = serves'[q], serves'[x] # NoToken
                       PROVE  x = q
          OBVIOUS
        <4>2. x # r /\ q # r
          BY <2>5, <4>1
        <4>3. serves[x] = serves'[x] /\ serves[q] = serves'[q]
          BY <2>5, <4>2
        <4>4. \A a, b \in Receivers : serves[a] = serves[b] /\ serves[a] # NoToken => a = b
          BY DEF QInv, Roles
        <4>5. QED
          BY <4>1, <4>3, <4>4
      <3>4. QED
        BY <3>1, <3>2, <3>3 DEF Roles
    <2>9. QED
      BY <2>4, <2>5, <2>7, <2>8 DEF QInv, QueueTypes
  <1>3. QED
    BY <1>1, <1>2

\* Nobody waits before anybody came.
LEMMA InitQInv == Init => QInv
  <1> SUFFICES ASSUME Init  PROVE QInv
    OBVIOUS
  <1> USE NothingAssumption
  <1>1. QueueTypes
    BY DEF Init, QueueTypes, Pcs
  <1>2. Distinct(waiting) /\ \A t \in Tokens : ~In(waiting, t)
    BY DEF Init, Distinct, In
  <1>3. InLine
    BY <1>2 DEF Init, InLine, NeedsWorkProcess, Waking, Active
  <1>4. Roles
    BY DEF Init, Roles, Tokens
  <1>5. QED
    BY <1>1, <1>3, <1>4 DEF QInv

\* Every step keeps the line and the roles.
LEMMA NextKeepsQInv == QInv /\ [Next]_vars => QInv'
  <1> SUFFICES ASSUME QInv, [Next]_vars  PROVE QInv'
    OBVIOUS
  <1>1. ASSUME UNCHANGED <<holder, waiting, pc, serves>>  PROVE QInv'
    BY <1>1 DEF QInv, QueueTypes, InLine, Roles
  <1>2. ASSUME NEW t \in Tokens, Step(t)  PROVE QInv'
    <2>1. CASE StaysAtWork(t)
      BY <1>1, <2>1 DEF StaysAtWork, Write, ReadNothing, Respond, onStepLuwEnd, CommitWork, RollbackWork
    <2>2. CASE Arrive(t) \/ Publish(t) \/ Wake(t) \/ WakeAtCeiling(t)
      BY <2>2, AcquireKeepsQInv
    <2>3. CASE EndOk(t) \/ Dump(t) \/ Published(t) \/ Wait(t)
      BY <2>3, ReleaseKeepsQInv
    <2>4. CASE Start(t) \/ RollIn(t) \/ Return(t)
      BY <2>4, HoldKeepsQInv
    <2>5. CASE Delivered(t) \/ DeliveryFailed(t)
      BY <2>5, DeliveryKeepsQInv DEF Delivered, DeliveryFailed
    <2>6. QED
      BY <1>2, <2>1, <2>2, <2>3, <2>4, <2>5 DEF Step, StaysAtWork
  <1>3. ASSUME NEW s \in Sessions, NEW r \in Receivers, Deliver(s, r)  PROVE QInv'
    BY <1>3, DeliveryKeepsQInv
  <1>4. CASE UNCHANGED vars
    BY <1>1, <1>4 DEF vars
  <1>5. QED
    BY <1>2, <1>3, <1>4 DEF Next

-----------------------------------------------------------------------------
(* The LUWs, step by step *)

\* The step at work is not disturbed, and none comes back to a LUW that ended.
Undisturbed ==
    \A t \in Dialog :
        /\ Runs(t) => Runs(t)'
        /\ pc[t] \in Over \cup {"to publish"} => pc'[t] \in Over \cup {"to publish"}

\* Only the one that has the work process runs, and it can be told from the others.
LEMMA OneRuns ==
    ASSUME QInv, DInv
    PROVE  /\ \A t \in Tokens : pc[t] = "running" => Runs(t)
           /\ \A row \in conn : row \in Rows /\ row[1] \in Dialog /\ row[2] \in Luws
           /\ \A t \in Dialog : \A row \in wrote[t] : row \in Rows /\ row[1] = t /\ row[2] \in Luws
           /\ \A row \in db : row \in Rows /\ row[1] \in Dialog /\ row[2] \in Luws
           /\ \A t \in Dialog : Runs(t) => fate[t][luw[t]] = "open"
           /\ Dialog \subseteq Tokens
  <1>1. \A t \in Tokens : pc[t] = "running" => Runs(t)
    BY DEF QInv, InLine, Active, Runs
  <1>2. \A row \in conn : row \in Rows /\ row[1] \in Dialog /\ row[2] \in Luws
    BY DEF DInv, DataTypes, Rows
  <1>3. \A t \in Dialog : \A row \in wrote[t] : row \in Rows /\ row[1] = t /\ row[2] \in Luws
    BY DEF DInv, DataTypes, RowsKnown, Rows
  <1>4. \A row \in db : row \in Rows /\ row[1] \in Dialog /\ row[2] \in Luws
    BY DEF DInv, DataTypes, Rows
  <1>5. \A t \in Dialog : Runs(t) => fate[t][luw[t]] = "open"
    BY DEF DInv, DataTypes, LuwOpen, Runs, Over
  <1>6. QED
    BY <1>1, <1>2, <1>3, <1>4, <1>5 DEF Dialog, Tokens

\* The LUWs of a step are numbered from one.
LEMMA LuwNumbers ==
    /\ 1 \in Luws
    /\ \A k \in Luws : k \in Nat /\ k + 1 # k /\ (k < MaxLuw => k + 1 \in Luws)
    /\ \A k, n \in Luws : Later(k, n) => k # n
    /\ \A k, n \in Luws : Later(k, n + 1) \/ k = n + 1 => Later(k, n)
  <1>1. MaxLuw \in Nat \ {0}
    BY StepBounds, Zenon
  <1>2. QED
    BY <1>1 DEF Luws, Later

\* A step that leaves the data alone.
LEMMA CalmKeepsDInv ==
    ASSUME QInv, DInv, UNCHANGED data, Undisturbed
    PROVE  DInv'
  <1> USE OneRuns
  <1>1. DataTypes' /\ RowFates'
    BY DEF DInv, data, DataTypes, RowFates
  <1>2. RowsKnown'
    BY DEF DInv, data, RowsKnown, Undisturbed
  <1>3. LuwOpen'
    BY DEF DInv, data, LuwOpen, Undisturbed
  <1>4. LuwEndTold'
    BY DEF DInv, data, LuwEndTold, Undisturbed, Runs
  <1>5. QED
    BY <1>1, <1>2, <1>3, <1>4 DEF DInv

\* A row joins the LUW of the step that writes it.
LEMMA WriteKeepsDInv ==
    ASSUME QInv, DInv, NEW t \in Tokens, Write(t)
    PROVE  DInv'
  <1>1. PICK n \in 1 .. MaxRows :
            /\ Row(t, n) \notin wrote[t] /\ conn' = conn \cup {Row(t, n)}
            /\ wrote' = [wrote EXCEPT ![t] = @ \cup {Row(t, n)}]
    BY DEF Write
  <1>2. t \in Dialog /\ Runs(t) /\ UNCHANGED <<holder, pc, db, luwEnd, luw, fate>>
    BY DEF Write
  <1> DEFINE w == Row(t, n)
  <1>3. w \in Rows /\ w[1] = t /\ w[2] = luw[t] /\ luw[t] \in Luws
    BY <1>2 DEF DInv, DataTypes, Row, Rows
  <1>4. wrote'[t] = wrote[t] \cup {w} /\ \A u \in Dialog \ {t} : wrote'[u] = wrote[u]
    BY <1>1, <1>2 DEF DInv, DataTypes
  <1>5. fate[t][luw[t]] = "open" /\ w \notin db
    BY <1>1, <1>2, <1>3, OneRuns DEF DInv, RowsKnown
  <1> HIDE DEF w
  <1>6. DataTypes'
    BY <1>1, <1>2, <1>3, <1>4 DEF DInv, DataTypes, w
  <1>7. RowsKnown'
    <2>1. conn' = conn \cup {w}
      BY <1>1 DEF w
    <2>2. \A row \in conn' : Runs(row[1])' /\ row[2] = luw'[row[1]] /\ row \in wrote'[row[1]]
      <3>1. SUFFICES ASSUME NEW row \in conn'
                     PROVE  Runs(row[1]) /\ row[2] = luw[row[1]] /\ row \in wrote'[row[1]]
        BY <1>2 DEF Runs
      <3>2. CASE row = w
        BY <1>2, <1>3, <1>4, <3>2
      <3>3. CASE row # w
        <4>1. row \in conn /\ row[1] \in Dialog
          BY <2>1, <3>1, <3>3, OneRuns
        <4>2. QED
          BY <1>4, <4>1 DEF DInv, RowsKnown
      <3>4. QED
        BY <3>2, <3>3
    <2>3. \A row \in db' : row \in wrote'[row[1]]
      BY <1>2, <1>4, OneRuns DEF DInv, RowsKnown
    <2>4. ASSUME NEW u \in Dialog, NEW row \in wrote'[u]
          PROVE  row[1] = u /\ (fate'[u][row[2]] = "open" => row \in conn')
      BY <1>2, <1>3, <1>4, <2>1, <2>4 DEF DInv, RowsKnown
    <2>5. QED
      BY <2>2, <2>3, <2>4 DEF RowsKnown
  <1>8. RowFates'
    BY <1>2, <1>3, <1>4, <1>5 DEF DInv, RowFates
  <1>9. LuwOpen'
    BY <1>2 DEF DInv, LuwOpen
  <1>10. LuwEndTold'
    BY <1>2 DEF DInv, LuwEndTold
  <1>11. QED
    BY <1>6, <1>7, <1>8, <1>9, <1>10 DEF DInv

\* A host service joins the LUW of the step that runs.
LEMMA onStepLuwEndKeepsDInv ==
    ASSUME QInv, DInv, NEW t \in Tokens, onStepLuwEnd(t)
    PROVE  DInv'
  <1>1. /\ t \in Dialog /\ Runs(t) /\ luwEnd' = [luwEnd EXCEPT ![t] = @ \cup {luw[t]}]
        /\ UNCHANGED <<holder, pc, conn, db, luw, wrote, fate>>
    BY DEF onStepLuwEnd
  <1>2. /\ luwEnd' \in [Dialog -> SUBSET Luws]
        /\ luwEnd'[t] = luwEnd[t] \cup {luw[t]} /\ \A u \in Dialog \ {t} : luwEnd'[u] = luwEnd[u]
    BY <1>1 DEF DInv, DataTypes
  <1>3. DataTypes' /\ RowFates'
    BY <1>1, <1>2 DEF DInv, DataTypes, RowFates
  <1>4. RowsKnown'
    BY <1>1 DEF DInv, RowsKnown, Runs
  <1>5. LuwEndTold'
    <2>1. luwEnd'[t] = {luw[t]} /\ fate[t][luw[t]] = "open" /\ pc[t] = "running"
      BY <1>1, <1>2, OneRuns DEF DInv, LuwEndTold, Runs
    <2>2. QED
      BY <1>1, <1>2, <2>1 DEF DInv, LuwEndTold
  <1>6. LuwOpen'
    BY <1>1 DEF DInv, LuwOpen
  <1>7. QED
    BY <1>3, <1>4, <1>5, <1>6 DEF DInv

\* The end of a LUW, by a commit or a rollback, of a step that goes on in the next one or
\* is over.
LEMMA EndLuwKeepsDInv ==
    ASSUME QInv, DInv, NEW t \in Dialog, holder = t, pc[t] \in Active,
           Commit(t) \/ Rollback(t), wrote' = wrote, NEW p, pc' = [pc EXCEPT ![t] = p],
           NextLuw(t) \/ (luw' = luw /\ p \in Over)
    PROVE  DInv'
  <1>1. PICK how \in {"committed", "rolled back"} :
            /\ luwEnd' = [luwEnd EXCEPT ![t] = {}] /\ fate' = [fate EXCEPT ![t][luw[t]] = how]
            /\ conn' = {} /\ db' = IF how = "committed" THEN db \cup conn ELSE db
    BY DEF Commit, Rollback, EndLuw
  <1>2. /\ luw[t] \in Luws /\ fate[t] \in [Luws -> Fates]
        /\ fate[t][luw[t]] = "open"
    <2>1. luw[t] \in Luws /\ fate[t] \in [Luws -> Fates]
      BY DEF DInv, DataTypes
    <2>2. pc[t] \notin Over \cup {"to publish"}
      BY DEF Active, Over
    <2>3. fate[t][luw[t]] = "open"
      BY <2>1, <2>2 DEF DInv, LuwOpen
    <2>4. QED
      BY <2>1, <2>3
  <1>3. /\ fate' \in [Dialog -> [Luws -> Fates]] /\ fate'[t][luw[t]] = how
        /\ \A k \in Luws \ {luw[t]} : fate'[t][k] = fate[t][k]
        /\ \A u \in Dialog \ {t} : fate'[u] = fate[u]
    BY <1>1, <1>2 DEF DInv, DataTypes, Fates
  <1>4. /\ luw' \in [Dialog -> Luws] /\ (luw'[t] = luw[t] \/ luw'[t] = luw[t] + 1)
        /\ luw'[t] = luw[t] => p \in Over
        /\ \A u \in Dialog \ {t} : luw'[u] = luw[u]
    <2>1. luw \in [Dialog -> Luws]
      BY DEF DInv, DataTypes
    <2>2. CASE NextLuw(t)
      <3>1. luw' = [luw EXCEPT ![t] = @ + 1] /\ luw[t] + 1 \in Luws
        BY <1>2, <2>2, LuwNumbers DEF NextLuw
      <3>2. luw[t] + 1 # luw[t]
        BY <1>2, LuwNumbers
      <3>3. QED
        BY <2>1, <3>1, <3>2
    <2>3. CASE luw' = luw /\ p \in Over
      BY <2>1, <2>3
    <2>4. QED
      BY <2>2, <2>3
  <1>5. /\ luwEnd' \in [Dialog -> SUBSET Luws] /\ luwEnd'[t] = {}
        /\ \A u \in Dialog \ {t} : luwEnd'[u] = luwEnd[u]
    BY <1>1 DEF DInv, DataTypes
  <1>6. pc'[t] = p /\ \A u \in Dialog \ {t} : pc'[u] = pc[u]
    BY DEF QInv, QueueTypes, Tokens, Dialog
  <1>7. \A row \in conn : row[1] = t /\ row[2] = luw[t] /\ row \in wrote[t] /\ row \in Rows
    BY OneRuns DEF DInv, RowsKnown, Runs
  <1>8. DataTypes'
    BY <1>1, <1>3, <1>4, <1>5, <1>7 DEF DInv, DataTypes
  <1>9. RowsKnown'
    <2>1. \A row \in db' : row \in wrote'[row[1]]
      BY <1>1, <1>7 DEF DInv, RowsKnown
    <2>2. ASSUME NEW u \in Dialog, NEW row \in wrote'[u], fate'[u][row[2]] = "open"
          PROVE  FALSE
      <3>1. row \in wrote[u] /\ row[2] \in Luws /\ row[1] = u
        BY <2>2, OneRuns
      <3>2. ~(u = t /\ row[2] = luw[t])
        BY <1>3, <2>2
      <3>3. fate[u][row[2]] = "open"
        BY <1>3, <2>2, <3>1, <3>2
      <3>4. row \in conn
        BY <3>1, <3>3 DEF DInv, RowsKnown
      <3>5. QED
        BY <1>7, <3>1, <3>2, <3>4
    <2>3. \A u \in Dialog : \A row \in wrote'[u] : row[1] = u
      BY OneRuns
    <2>4. QED
      BY <1>1, <2>1, <2>2, <2>3 DEF RowsKnown
  <1>10. LuwOpen'
    <2>1. SUFFICES ASSUME NEW u \in Dialog, NEW k \in Luws,
                          Later(k, luw'[u]) \/ (k = luw'[u] /\ pc'[u] \notin Over \cup {"to publish"})
                   PROVE  fate'[u][k] = "open"
      BY DEF LuwOpen
    <2>2. CASE u = t
      <3>1. Later(k, luw[t]) /\ k # luw[t]
        <4>1. CASE luw'[t] = luw[t]
          <5>1. pc'[t] \in Over
            BY <1>4, <1>6, <4>1
          <5>2. Later(k, luw[t])
            BY <2>1, <2>2, <4>1, <5>1
          <5>3. QED
            BY <1>2, <5>2, LuwNumbers, Zenon
        <4>2. CASE luw'[t] = luw[t] + 1
          <5>1. Later(k, luw[t] + 1) \/ k = luw[t] + 1
            BY <2>1, <2>2, <4>2, Zenon
          <5>2. QED
            BY <1>2, <5>1, LuwNumbers, Zenon
        <4>3. QED
          BY <1>4, <4>1, <4>2, Zenon
      <3>2. fate'[t][k] = fate[t][k]
        BY <1>3, <3>1
      <3>3. QED
        BY <2>2, <3>1, <3>2 DEF DInv, LuwOpen
    <2>3. CASE u # t
      <3>1. luw'[u] = luw[u] /\ pc'[u] = pc[u] /\ fate'[u] = fate[u]
        BY <1>3, <1>4, <1>6, <2>3
      <3>2. Later(k, luw[u]) \/ (k = luw[u] /\ pc[u] \notin Over \cup {"to publish"})
        BY <2>1, <3>1
      <3>3. fate[u][k] = "open"
        BY <3>2 DEF DInv, LuwOpen
      <3>4. QED
        BY <3>1, <3>3
    <2>4. QED
      BY <2>2, <2>3
  <1>11. RowFates'
    <2>1. SUFFICES ASSUME NEW u \in Dialog, NEW row \in wrote[u]
                   PROVE  row \in db' <=> fate'[u][row[2]] = "committed"
      BY DEF RowFates
    <2>2. /\ row[2] \in Luws /\ row[1] = u
          /\ row \in db <=> fate[u][row[2]] = "committed"
          /\ fate[u][row[2]] = "open" => row \in conn
      BY OneRuns DEF DInv, RowFates, RowsKnown
    <2>3. CASE u = t /\ row[2] = luw[t]
      BY <1>1, <1>2, <1>3, <2>2, <2>3
    <2>4. CASE ~(u = t /\ row[2] = luw[t])
      <3>1. row \notin conn /\ fate'[u][row[2]] = fate[u][row[2]]
        BY <1>3, <1>7, <2>2, <2>4
      <3>2. QED
        BY <1>1, <2>2, <3>1
    <2>5. QED
      BY <2>3, <2>4
  <1>12. LuwEndTold'
    <2>1. \A u \in Dialog \ {t} : luwEnd[u] = {}
      BY OneRuns DEF DInv, LuwEndTold, Runs
    <2>2. QED
      BY <1>5, <2>1 DEF LuwEndTold
  <1>13. QED
    BY <1>8, <1>9, <1>10, <1>11, <1>12 DEF DInv

\* The client's next step starts with a clean history.
LEMMA ForgetKeepsDInv ==
    ASSUME QInv, DInv, NEW t \in Dialog, pc[t] \in Over, Forget(t),
           \A u \in Dialog \ {t} :
              /\ Runs(u) => Runs(u)'
              /\ pc[u] \in Over \cup {"to publish"} => pc'[u] = pc[u]
    PROVE  DInv'
  <1>1. /\ db' = {row \in db : row[1] # t} /\ UNCHANGED <<conn, luwEnd>>
        /\ wrote' = [wrote EXCEPT ![t] = {}] /\ luw' = [luw EXCEPT ![t] = 1]
        /\ fate' = [fate EXCEPT ![t] = [k \in Luws |-> "open"]]
    BY DEF Forget
  <1>2. /\ wrote' \in [Dialog -> SUBSET Rows] /\ wrote'[t] = {}
        /\ \A u \in Dialog \ {t} : wrote'[u] = wrote[u]
    BY <1>1 DEF DInv, DataTypes
  <1>3. /\ luw' \in [Dialog -> Luws] /\ \A u \in Dialog \ {t} : luw'[u] = luw[u]
    <2>1. luw \in [Dialog -> Luws]
      BY DEF DInv, DataTypes
    <2>2. QED
      BY <1>1, <2>1, LuwNumbers
  <1>4. /\ fate' \in [Dialog -> [Luws -> Fates]] /\ \A k \in Luws : fate'[t][k] = "open"
        /\ \A u \in Dialog \ {t} : fate'[u] = fate[u]
    BY <1>1 DEF DInv, DataTypes, Fates
  <1>5. pc[t] # "running"
    BY DEF Over
  <1>6. DataTypes'
    BY <1>1, <1>2, <1>3, <1>4 DEF DInv, DataTypes
  <1>7. RowsKnown'
    <2>1. ASSUME NEW row \in conn'
          PROVE  Runs(row[1])' /\ row[2] = luw'[row[1]] /\ row \in wrote'[row[1]]
      <3>1. row \in conn /\ row[1] \in Dialog /\ Runs(row[1]) /\ row[1] # t
        <4>1. row \in conn /\ row[1] \in Dialog
          BY <1>1, <2>1, OneRuns
        <4>2. Runs(row[1])
          BY <4>1 DEF DInv, RowsKnown
        <4>3. QED
          BY <1>5, <4>1, <4>2 DEF Runs
      <3>2. QED
        BY <1>2, <1>3, <3>1 DEF DInv, RowsKnown
    <2>2. \A row \in db' : row \in wrote'[row[1]]
      BY <1>1, <1>2, OneRuns DEF DInv, RowsKnown
    <2>3. ASSUME NEW u \in Dialog, NEW row \in wrote'[u]
          PROVE  row[1] = u /\ (fate'[u][row[2]] = "open" => row \in conn')
      <3>1. u # t /\ row \in wrote[u]
        BY <1>2, <2>3
      <3>2. QED
        BY <1>1, <1>4, <3>1 DEF DInv, RowsKnown
    <2>4. QED
      BY <2>1, <2>2, <2>3 DEF RowsKnown
  <1>8. LuwOpen'
    <2>1. SUFFICES ASSUME NEW u \in Dialog, NEW k \in Luws,
                          Later(k, luw'[u]) \/ (k = luw'[u] /\ pc'[u] \notin Over \cup {"to publish"})
                   PROVE  fate'[u][k] = "open"
      BY DEF LuwOpen
    <2>2. CASE u = t
      BY <1>4, <2>2
    <2>3. CASE u # t
      <3>1. luw'[u] = luw[u] /\ fate'[u] = fate[u]
        BY <1>3, <1>4, <2>3
      <3>2. Later(k, luw[u]) \/ (k = luw[u] /\ pc[u] \notin Over \cup {"to publish"})
        BY <2>1, <2>3, <3>1
      <3>3. fate[u][k] = "open"
        BY <3>2 DEF DInv, LuwOpen
      <3>4. QED
        BY <3>1, <3>3
    <2>4. QED
      BY <2>2, <2>3
  <1>9. RowFates'
    <2>1. SUFFICES ASSUME NEW u \in Dialog, NEW row \in wrote'[u]
                   PROVE  row \in db' <=> fate'[u][row[2]] = "committed"
      BY DEF RowFates
    <2>2. u # t /\ row \in wrote[u] /\ row[1] # t
      BY <1>2, OneRuns
    <2>3. QED
      BY <1>1, <1>4, <2>2 DEF DInv, RowFates
  <1>10. LuwEndTold'
    <2>1. SUFFICES ASSUME NEW u \in Dialog, luwEnd[u] # {}
                   PROVE  luwEnd[u] = {luw'[u]} /\ fate'[u][luw'[u]] = "open" /\ pc'[u] = "running"
      BY <1>1 DEF LuwEndTold
    <2>2. luwEnd[u] = {luw[u]} /\ fate[u][luw[u]] = "open" /\ pc[u] = "running" /\ u # t
      BY <1>5, <2>1 DEF DInv, LuwEndTold
    <2>3. Runs(u)'
      BY <2>2, OneRuns
    <2>4. QED
      BY <1>3, <1>4, <2>2, <2>3 DEF Runs
  <1>11. QED
    BY <1>6, <1>7, <1>8, <1>9, <1>10 DEF DInv

\* Who is not at work may move, and may take the work process when it is free.
LEMMA MovesUndisturbed ==
    ASSUME QInv, NEW t \in Tokens, \A u \in Tokens \ {t} : pc'[u] = pc[u],
           t \in Dialog =>
              pc[t] # "running" /\ (pc[t] \in Over \cup {"to publish"} => pc'[t] \in Over \cup {"to publish"}),
           holder' = holder \/ holder = NoToken \/ holder = t
    PROVE  Undisturbed
  BY NothingAssumption DEF Undisturbed, Runs, Dialog, Tokens

\* Every step keeps the LUWs.
LEMMA NextKeepsDInv == QInv /\ DInv /\ [Next]_vars => DInv'
  <1> SUFFICES ASSUME QInv, DInv, [Next]_vars  PROVE DInv'
    OBVIOUS
  <1> USE ClientsDisjoint
  <1>0. pc \in [Tokens -> Pcs] /\ Dialog \subseteq Tokens /\ Receivers \subseteq Dialog /\ Sessions \subseteq Dialog
    BY DEF QInv, QueueTypes, Dialog, Tokens
  <1>1. ASSUME NEW t \in Tokens, Step(t)  PROVE DInv'
    <2>1. CASE Arrive(t) \/ Publish(t) \/ Wake(t) \/ WakeAtCeiling(t)
      <3>1. /\ UNCHANGED data /\ (holder' = holder \/ holder = NoToken) /\ pc[t] # "running"
            /\ pc[t] \in Over \cup {"to publish"} => pc'[t] \in Over \cup {"to publish"}
            /\ \A u \in Tokens \ {t} : pc'[u] = pc[u]
        BY <1>0, <2>1 DEF Arrive, Publish, Wake, WakeAtCeiling, acquire, Over
      <3>2. Undisturbed
        BY <3>1, MovesUndisturbed
      <3>3. QED
        BY <3>1, <3>2, CalmKeepsDInv
    <2>2. CASE Start(t) \/ RollIn(t) \/ Published(t)
      <3>1. PICK p : pc' = [pc EXCEPT ![t] = p] /\ (Published(t) => p = "published")
        BY <2>2 DEF Start, RollIn, Published
      <3>2. /\ UNCHANGED data /\ holder = t /\ pc[t] \in {"queued", "to publish"} \cup Waking
            /\ pc[t] \in Over \cup {"to publish"} => Published(t)
        BY <2>2 DEF Start, RollIn, Published, Over, Waking
      <3>3. /\ pc[t] # "running" /\ \A u \in Tokens \ {t} : pc'[u] = pc[u]
            /\ pc[t] \in Over \cup {"to publish"} => pc'[t] \in Over \cup {"to publish"}
        BY <1>0, <3>1, <3>2 DEF Over, Waking
      <3>4. Undisturbed
        BY <3>2, <3>3, MovesUndisturbed
      <3>5. QED
        BY <3>2, <3>4, CalmKeepsDInv
    <2>3. CASE ReadNothing(t) \/ Respond(t)
      <3>1. UNCHANGED data /\ pc' = pc /\ holder' = holder
        BY <2>3 DEF ReadNothing, Respond
      <3>2. Undisturbed
        BY <3>1 DEF Undisturbed, Runs
      <3>3. QED
        BY <3>1, <3>2, CalmKeepsDInv
    <2>4. CASE EndOk(t) /\ t \notin Dialog
      <3>1. UNCHANGED data /\ holder = t /\ \A u \in Tokens \ {t} : pc'[u] = pc[u]
        BY <1>0, <2>4 DEF EndOk, Runs, data
      <3>2. Undisturbed
        BY <2>4, <3>1, MovesUndisturbed
      <3>3. QED
        BY <3>1, <3>2, CalmKeepsDInv
    <2>5. CASE CommitWork(t) \/ RollbackWork(t)
      <3>1. /\ t \in Dialog /\ holder = t /\ pc[t] \in Active /\ wrote' = wrote /\ NextLuw(t)
            /\ Commit(t) \/ Rollback(t)
        BY <2>5 DEF CommitWork, RollbackWork, Runs, Active
      <3>2. pc' = [pc EXCEPT ![t] = pc[t]]
        BY <1>0, <2>5 DEF CommitWork, RollbackWork
      <3>3. QED
        BY <3>1, <3>2, EndLuwKeepsDInv
    <2>6. CASE Wait(t)
      <3>1. /\ t \in Dialog /\ holder = t /\ pc[t] \in Active /\ wrote' = wrote /\ NextLuw(t)
            /\ Commit(t) /\ pc' = [pc EXCEPT ![t] = "asleep"]
        BY <2>6 DEF Wait, Active
      <3>2. QED
        BY <3>1, EndLuwKeepsDInv
    <2>7. CASE (EndOk(t) /\ t \in Dialog) \/ Dump(t)
      <3>1. PICK p \in Over :
                /\ t \in Dialog /\ holder = t /\ pc[t] \in Active /\ wrote' = wrote /\ luw' = luw
                /\ Commit(t) \/ Rollback(t)
                /\ pc' = [pc EXCEPT ![t] = p]
        BY <2>7 DEF EndOk, Dump, Runs, Active, Over
      <3>2. QED
        BY <3>1, EndLuwKeepsDInv
    <2>8. CASE Return(t)
      <3>1. /\ t \in Dialog /\ pc[t] \in Over /\ Forget(t) /\ holder' = holder
            /\ \A u \in Tokens \ {t} : pc'[u] = pc[u]
        BY <1>0, <2>8 DEF Return
      <3>2. QED
        BY <1>0, <3>1, ForgetKeepsDInv DEF Runs
    <2>9. CASE Delivered(t) \/ DeliveryFailed(t)
      <3>1. /\ t \in Receivers /\ t \in Dialog /\ pc[t] \in Over /\ pc[t] # "idle" /\ Forget(t)
            /\ holder' = holder \/ holder = NoToken
        BY <1>0, <2>9 DEF Delivered, DeliveryFailed, acquire, Over
      <3>2. PICK s \in Sessions : s = serves[t] /\ pc[s] = "pumping"
        BY <3>1 DEF QInv, Roles
      <3>3. \A u \in Tokens \ {t, s} : pc'[u] = pc[u]
        BY <1>0, <2>9, <3>2 DEF Delivered, DeliveryFailed
      <3>4. ASSUME NEW u \in Dialog \ {t}
            PROVE  /\ Runs(u) => Runs(u)'
                   /\ pc[u] \in Over \cup {"to publish"} => pc'[u] = pc[u]
        BY <1>0, <3>1, <3>2, <3>3, NothingAssumption DEF Runs, Over
      <3>5. QED
        BY <3>1, <3>4, ForgetKeepsDInv
    <2>10. QED
      BY <1>1, <2>1, <2>2, <2>3, <2>4, <2>5, <2>6, <2>7, <2>8, <2>9, WriteKeepsDInv,
         onStepLuwEndKeepsDInv DEF Step
  <1>2. ASSUME NEW s \in Sessions, NEW r \in Receivers, Deliver(s, r)  PROVE DInv'
    <2>1. /\ UNCHANGED data /\ (holder' = holder \/ holder = NoToken)
          /\ \A u \in Tokens \ {r, s} : pc'[u] = pc[u]
          /\ pc[s] = "asleep" /\ pc[r] = "idle"
      BY <1>0, <1>2 DEF Deliver, acquire
    <2>2. Undisturbed
      BY <1>0, <2>1, NothingAssumption DEF Undisturbed, Runs, Over
    <2>3. QED
      BY <2>1, <2>2, CalmKeepsDInv
  <1>3. CASE UNCHANGED vars
    <2>1. UNCHANGED data /\ pc' = pc /\ holder' = holder
      BY <1>3 DEF vars, data
    <2>2. QED
      BY <2>1, CalmKeepsDInv DEF Undisturbed, Runs
  <1>4. QED
    BY <1>1, <1>2, <1>3 DEF Next

\* There is nothing in the LUWs of a process that just started.
LEMMA InitDInv == Init => DInv
  <1> SUFFICES ASSUME Init  PROVE DInv
    OBVIOUS
  <1>1. DataTypes
    BY LuwNumbers DEF Init, DataTypes, Fates
  <1>2. RowsKnown /\ RowFates /\ LuwEndTold
    BY DEF Init, RowsKnown, RowFates, LuwEndTold
  <1>3. LuwOpen
    BY DEF Init, LuwOpen
  <1>4. QED
    BY <1>1, <1>2, <1>3 DEF DInv

-----------------------------------------------------------------------------
(* The shared context, step by step *)

\* A step of one token does not touch what the others come back to.
LEMMA OthersKept ==
    ASSUME QInv, ShimKept, NEW t \in Tokens, pc[t] # "pumping", serves' = serves,
           t \in Receivers => pc[t] # "idle",
           \A u \in Tokens \ {t} : pc'[u] = pc[u],
           \A s \in Sessions : s # SessionOf(t) => own'[s] = own[s],
           \A u \in Dialog : u # t /\ u # SessionOf(t) => saved'[u] = saved[u],
           holder = t \/ icf' = icf,
           t \in Dialog => Kept(t)'
    PROVE  ShimKept'
  <1> USE ClientsDisjoint
  <1>1. SUFFICES ASSUME NEW u \in Dialog, u # t  PROVE Kept(u)'
    BY DEF ShimKept
  <1>2. /\ pc'[u] = pc[u] /\ u \in Tokens /\ Kept(u)
        /\ pc[u] \in Active => icf' = icf
    BY <1>1 DEF ShimKept, Dialog, Tokens, QInv, InLine
  <1>3. CASE u \in Sessions
    <2>1. SessionOf(u) = u /\ SessionOf(u)' = u /\ u \notin Receivers
      BY <1>3 DEF SessionOf
    <2>2. CASE pc[u] = "pumping"
      BY <1>2, <2>1, <2>2 DEF Kept, Active, Waking
    <2>3. CASE pc[u] # "pumping"
      <3>1. SessionOf(t) # u
        BY <1>1, <2>3 DEF SessionOf, QInv, Roles
      <3>2. own'[u] = own[u] /\ saved'[u] = saved[u]
        BY <1>1, <1>3, <3>1
      <3>3. QED
        BY <1>2, <2>1, <3>2 DEF Kept
    <2>4. QED
      BY <2>2, <2>3
  <1>4. CASE u \in Receivers /\ pc[u] # "idle"
    <2>1. /\ SessionOf(u) = serves[u] /\ SessionOf(u)' = serves[u]
          /\ serves[u] \in Sessions /\ pc[serves[u]] = "pumping" /\ serves[u] # NoToken
      BY <1>4, NothingAssumption DEF SessionOf, QInv, Roles, Tokens
    <2>2. serves[u] # SessionOf(t) /\ serves[u] # t
      BY <1>1, <1>4, <2>1 DEF SessionOf, QInv, Roles
    <2>3. u # SessionOf(t)
      BY <1>1, <1>4 DEF SessionOf, QInv, Roles
    <2>4. serves[u] \in Dialog
      BY <2>1 DEF Dialog
    <2>5. /\ own'[serves[u]] = own[serves[u]] /\ saved'[u] = saved[u]
          /\ saved'[serves[u]] = saved[serves[u]]
      BY <1>1, <2>1, <2>2, <2>3, <2>4
    <2>6. QED
      BY <1>2, <2>1, <2>5 DEF Kept
  <1>5. CASE u \in Receivers /\ pc[u] = "idle"
    BY <1>2, <1>5 DEF Kept, Active, Waking, Over
  <1>6. QED
    BY <1>3, <1>4, <1>5 DEF Dialog

\* A step that leaves the shim alone and keeps the server or the sleep it has.
LEMMA ShimUntouched ==
    ASSUME QInv, ShimKept, NEW t \in Tokens, pc[t] # "pumping", serves' = serves, UNCHANGED shim,
           t \in Receivers => pc[t] # "idle",
           NEW p \in Pcs, pc' = [pc EXCEPT ![t] = p],
           \/ p = pc[t]
           \/ t \notin Dialog
           \/ t \in Sessions /\ p \notin Active \cup {"asleep"} \cup Waking
           \/ pc[t] = "asleep" /\ p \in Waking
           \/ pc[t] \in Over \cup {"to publish"} /\ p \in Over \cup {"to publish"}
    PROVE  ShimKept'
  <1> USE ClientsDisjoint
  <1>1. pc'[t] = p /\ \A u \in Tokens \ {t} : pc'[u] = pc[u]
    BY DEF QInv, QueueTypes
  <1>2. icf' = icf /\ saved' = saved /\ own' = own
    BY DEF shim
  <1>3. ASSUME t \in Dialog  PROVE Kept(t)'
    <2>1. Kept(t) /\ SessionOf(t)' = SessionOf(t)
      BY <1>3 DEF ShimKept, SessionOf
    <2>2. QED
      BY <1>1, <1>2, <1>3, <2>1 DEF Kept, Active, Waking, Over
  <1>4. QED
    BY <1>1, <1>2, <1>3, OthersKept

\* The steps that touch the shim: a step begins, answers, sleeps and comes back.
LEMMA ShimUsed ==
    ASSUME QInv, ShimTypes, ShimKept, NEW t \in Tokens,
           Start(t) \/ Respond(t) \/ Wait(t) \/ RollIn(t)
    PROVE  ShimKept'
  <1> USE ClientsDisjoint
  <1>1. PICK p \in Pcs :
            /\ pc' = [pc EXCEPT ![t] = p] /\ serves' = serves /\ holder = t
            /\ pc[t] \notin {"pumping", "idle"}
            /\ Respond(t) => p = "running" /\ pc[t] = "running"
            /\ Start(t) => p = "running" /\ pc[t] = "queued"
            /\ Wait(t) => p = "asleep" /\ pc[t] \in Active
            /\ RollIn(t) => p \in Active /\ pc[t] \in Waking
    <2>1. CASE Start(t)
      BY <2>1 DEF Start, Pcs, Respond, Wait, RollIn, Runs, Active, Waking
    <2>2. CASE Respond(t)
      <3>1. pc' = [pc EXCEPT ![t] = "running"]
        BY <2>2 DEF Respond, Runs, QInv, QueueTypes
      <3>2. QED
        <4>1. pc[t] = "running" /\ holder = t /\ serves' = serves /\ "running" \in Pcs
          BY <2>2 DEF Respond, Runs, Pcs
        <4>2. ~Start(t) /\ ~RollIn(t)
          BY <4>1 DEF Start, RollIn, Waking
        <4>3. ~Wait(t)
          <5>1. pc' = pc
            BY <2>2 DEF Respond
          <5>2. pc'[t] = "running"
            BY <4>1, <5>1
          <5>3. QED
            BY <5>2 DEF Wait, QInv, QueueTypes
        <4>4. QED
          BY <3>1, <4>1, <4>2, <4>3
    <2>3. CASE Wait(t)
      <3>1. /\ pc[t] \in {"running", "polling"} /\ holder = t /\ serves' = serves
            /\ pc' = [pc EXCEPT ![t] = "asleep"]
        BY <2>3 DEF Wait
      <3>2. "asleep" \in Pcs /\ pc[t] \in Active /\ ~Start(t) /\ ~RollIn(t) /\ pc[t] \notin {"pumping", "idle"}
        BY <3>1 DEF Pcs, Active, Start, RollIn, Waking
      <3>3. ~Respond(t)
        BY <3>1 DEF Respond, Runs, QInv, QueueTypes
      <3>4. QED
        BY <3>1, <3>2, <3>3
    <2>4. CASE RollIn(t)
      <3>1. WaitEnd(t) \subseteq Active \X {0, 8, sy}
        BY <2>4, WaitEnds DEF RollIn
      <3>2. PICK p \in Active : pc' = [pc EXCEPT ![t] = p]
        BY <2>4, <3>1 DEF RollIn
      <3>3. QED
        BY <2>4, <3>2 DEF Start, Pcs, Respond, Wait, RollIn, Runs, Active, Waking
    <2>5. QED
      BY <2>1, <2>2, <2>3, <2>4
  <1>2. pc'[t] = p /\ \A u \in Tokens \ {t} : pc'[u] = pc[u]
    BY <1>1 DEF QInv, QueueTypes
  <1>3. CASE t \notin Dialog
    <2>1. t \in Readers /\ UNCHANGED shim
      BY <1>1, <1>3 DEF Start, Respond, Wait, RollIn, Tokens, Dialog, QInv, Roles, Waking
    <2>2. QED
      BY <1>1, <1>3, <2>1, ShimUntouched
  <1>4. CASE t \in Dialog
    <2> DEFINE s == SessionOf(t)
    <2>1. s \in Sessions /\ SessionOf(t)' = s /\ Kept(t) /\ (t \in Receivers => s # t /\ s = serves[t])
      BY <1>1, <1>4 DEF SessionOf, QInv, Roles, Dialog, ShimKept
    <2> HIDE DEF s
    <2>2. CASE Start(t)
      <3>1. pc'[t] = "running" /\ pc[t] = "queued"
        BY <1>1, <1>2, <2>2
      <3>2. /\ saved' = saved /\ icf' = own'[s]
            /\ \A x \in Sessions : x # s => own'[x] = own[x]
        <4>1. CASE t \in Sessions
          <5>1. s = t
            BY <4>1 DEF s, SessionOf
          <5>2. QED
            BY <2>2, <4>1, <5>1 DEF Start, ShimTypes
        <4>2. CASE t \in Receivers
          <5>1. own' = own /\ saved' = saved /\ icf' = saved[s]
            BY <2>1, <2>2, <4>2 DEF Start
          <5>2. saved[s] = own[s]
            BY <2>1, <3>1, <4>2 DEF Kept
          <5>3. QED
            BY <5>1, <5>2
        <4>3. QED
          BY <1>4, <4>1, <4>2 DEF Dialog
      <3>3. Kept(t)'
        BY <2>1, <3>1, <3>2 DEF Kept, Active, Waking, Over
      <3>4. QED
        BY <1>1, <1>2, <2>1, <3>2, <3>3, OthersKept DEF s
    <2>3. CASE Respond(t)
      <3>1. /\ pc'[t] = "running" /\ pc[t] = "running" /\ saved' = saved /\ icf = own[s]
            /\ icf' = [icf EXCEPT !.rev = 1] /\ own' = [own EXCEPT ![s].rev = 1]
        BY <1>1, <1>2, <2>1, <2>3 DEF Respond, Kept, Active, s
      <3>2. icf' = own'[s] /\ \A x \in Sessions : x # s => own'[x] = own[x]
        BY <2>1, <3>1 DEF ShimTypes
      <3>3. Kept(t)'
        BY <2>1, <3>1, <3>2 DEF Kept, Active, Waking, Over
      <3>4. QED
        BY <1>1, <1>2, <2>1, <3>1, <3>2, <3>3, OthersKept DEF s
    <2>4. CASE Wait(t)
      <3>1. /\ pc'[t] = "asleep" /\ pc[t] \in Active /\ icf' = icf /\ own' = own
            /\ saved' = [saved EXCEPT ![t] = icf]
        BY <1>1, <1>2, <2>4 DEF Wait
      <3>2. /\ saved'[t] = icf /\ icf = own[s] /\ \A u \in Dialog : u # t => saved'[u] = saved[u]
        BY <1>4, <2>1, <3>1 DEF ShimTypes, Kept, s
      <3>3. Kept(t)'
        BY <2>1, <3>1, <3>2 DEF Kept, Active, Waking, Over
      <3>4. QED
        BY <1>1, <1>2, <2>1, <3>1, <3>2, <3>3, OthersKept DEF s
    <2>5. CASE RollIn(t)
      <3>1. /\ pc'[t] \in Active /\ pc[t] \in Waking /\ icf' = saved[t] /\ own' = own
            /\ saved' = [saved EXCEPT ![t] = NoState]
        BY <1>1, <1>2, <2>5 DEF RollIn
      <3>2. /\ icf' = own[s] /\ \A u \in Dialog : u # t => saved'[u] = saved[u]
        BY <1>4, <2>1, <3>1 DEF ShimTypes, Kept, s
      <3>3. Kept(t)'
        BY <2>1, <3>1, <3>2 DEF Kept, Active, Waking, Over
      <3>4. QED
        BY <1>1, <1>2, <2>1, <3>1, <3>2, <3>3, OthersKept DEF s
    <2>6. QED
      BY <2>2, <2>3, <2>4, <2>5
  <1>5. QED
    BY <1>3, <1>4

\* A step that ends leaves the shim to the session it delivered to.
LEMMA ShimLeft ==
    ASSUME QInv, ShimTypes, ShimKept, NEW t \in Tokens, EndOk(t) \/ Dump(t)
    PROVE  ShimKept'
  <1> USE ClientsDisjoint
  <1>1. PICK p \in Over \cup {"idle"} :
            /\ pc' = [pc EXCEPT ![t] = p] /\ serves' = serves /\ holder = t /\ pc[t] \in Active
            /\ LeaveSession(t)
            /\ t \in Dialog => p \in Over
    BY DEF EndOk, Dump, Runs, Active, Over
  <1>2. pc'[t] = p /\ (\A u \in Tokens \ {t} : pc'[u] = pc[u]) /\ pc[t] \notin {"idle", "pumping"}
    BY <1>1 DEF QInv, QueueTypes, Active
  <1>3. p \in Pcs /\ p \notin Active \cup {"asleep"} \cup Waking
    BY <1>1 DEF Pcs, Active, Waking, Over
  <1>4. CASE t \notin Receivers
    <2>1. UNCHANGED shim /\ (t \in Sessions \/ t \notin Dialog)
      BY <1>1, <1>4 DEF LeaveSession, Dialog
    <2>2. QED
      BY <1>1, <1>2, <1>3, <1>4, <2>1, ShimUntouched
  <1>5. CASE t \in Receivers
    <2> DEFINE s == serves[t]
    <2>1. /\ s \in Sessions /\ s \in Dialog /\ t \in Dialog /\ SessionOf(t) = s /\ SessionOf(t)' = s
          /\ icf = own[s]
      BY <1>1, <1>2, <1>5 DEF SessionOf, QInv, Roles, Dialog, ShimKept, Kept
    <2>2. /\ own' = own /\ saved' = [saved EXCEPT ![s] = icf]
      BY <1>1, <1>5 DEF LeaveSession
    <2>3. saved'[s] = own'[s] /\ \A u \in Dialog : u # s => saved'[u] = saved[u]
      BY <2>1, <2>2 DEF ShimTypes
    <2>4. Kept(t)'
      BY <1>1, <1>2, <1>3, <2>1, <2>3 DEF Kept
    <2>5. QED
      BY <1>1, <1>2, <2>1, <2>2, <2>3, <2>4, OthersKept
  <1>6. QED
    BY <1>4, <1>5

\* A delivery takes the session's state over and gives it back.
LEMMA ShimDelivered ==
    ASSUME QInv, ShimKept, NEW r \in Receivers,
           (\E s \in Sessions : Deliver(s, r)) \/ Delivered(r) \/ DeliveryFailed(r)
    PROVE  ShimKept'
  <1> USE ClientsDisjoint, NothingAssumption
  <1>0. r \in Tokens /\ r \in Dialog /\ Dialog \subseteq Tokens
    BY DEF Tokens, Dialog
  <1>1. PICK s \in Sessions :
            /\ s # r /\ s \in Tokens /\ s \in Dialog
            /\ \A u \in Tokens \ {r, s} : pc'[u] = pc[u]
            /\ \A q \in Receivers \ {r} : serves'[q] = serves[q]
            /\ UNCHANGED shim
            /\ \/ pc[s] = "asleep" /\ pc'[s] = "pumping" /\ pc'[r] = "queued" /\ serves'[r] = s
               \/ pc[r] \in Over /\ serves[r] = s /\ pc'[r] = "idle"
                    /\ pc'[s] \in {"asleep", "waking failed"}
    <2>1. ASSUME NEW s \in Sessions, Deliver(s, r)
          PROVE  /\ s # r /\ s \in Tokens /\ s \in Dialog
                 /\ \A u \in Tokens \ {r, s} : pc'[u] = pc[u]
                 /\ \A q \in Receivers \ {r} : serves'[q] = serves[q]
                 /\ UNCHANGED shim
                 /\ pc[s] = "asleep" /\ pc'[s] = "pumping" /\ pc'[r] = "queued" /\ serves'[r] = s
      BY <1>0, <2>1 DEF Deliver, QInv, QueueTypes, Tokens, Dialog
    <2>2. ASSUME Delivered(r) \/ DeliveryFailed(r)
          PROVE  /\ serves[r] \in Sessions /\ serves[r] # r /\ serves[r] \in Tokens /\ serves[r] \in Dialog
                 /\ \A u \in Tokens \ {r, serves[r]} : pc'[u] = pc[u]
                 /\ \A q \in Receivers \ {r} : serves'[q] = serves[q]
                 /\ UNCHANGED shim
                 /\ pc[r] \in Over /\ pc'[r] = "idle" /\ pc'[serves[r]] \in {"asleep", "waking failed"}
      <3>1. pc[r] \in Over /\ pc[r] # "idle" /\ UNCHANGED shim
        BY <2>2 DEF Delivered, DeliveryFailed, Over
      <3>2. serves[r] \in Sessions /\ serves[r] # r /\ serves[r] \in Tokens /\ serves[r] \in Dialog
        BY <3>1 DEF QInv, Roles, Tokens, Dialog
      <3>3. QED
        BY <1>0, <2>2, <3>1, <3>2 DEF Delivered, DeliveryFailed, QInv, QueueTypes
    <2>3. QED
      BY <2>1, <2>2
  <1>2. icf' = icf /\ saved' = saved /\ own' = own
    BY <1>1 DEF shim
  <1>3. Kept(s) /\ Kept(r) /\ SessionOf(s) = s /\ SessionOf(s)' = s /\ s \notin Receivers
    BY <1>0, <1>1 DEF ShimKept, SessionOf
  <1>4. Kept(s)' /\ Kept(r)'
    <2>1. CASE pc[s] = "asleep" /\ pc'[s] = "pumping" /\ pc'[r] = "queued" /\ serves'[r] = s
      <3>1. saved[s] = own[s]
        BY <1>3, <2>1 DEF Kept
      <3>2. QED
        BY <1>2, <1>3, <2>1, <3>1 DEF Kept, Active, Waking, Over
    <2>2. CASE /\ pc[r] \in Over /\ serves[r] = s /\ pc'[r] = "idle"
               /\ pc'[s] \in {"asleep", "waking failed"}
      <3>1. saved[s] = own[s]
        BY <1>3, <2>2 DEF Kept
      <3>2. QED
        BY <1>2, <1>3, <2>2, <3>1 DEF Kept, Active, Waking, Over
    <2>3. QED
      BY <1>1, <2>1, <2>2
  <1>5. ASSUME NEW u \in Dialog, u # r, u # s  PROVE Kept(u)'
    <2>1. pc'[u] = pc[u] /\ Kept(u)
      BY <1>0, <1>1, <1>5 DEF ShimKept
    <2>2. SessionOf(u)' = SessionOf(u) /\ (u \in Receivers => serves'[u] = serves[u])
      BY <1>1, <1>5 DEF SessionOf
    <2>3. QED
      BY <1>2, <2>1, <2>2 DEF Kept
  <1>6. QED
    BY <1>4, <1>5 DEF ShimKept

\* A step of one token does not disturb the sy-subrc of another one that runs.
LEMMA SyStep ==
    ASSUME QInv, SyKept, NEW t \in Tokens,
           \A u \in Tokens \ {t} : pc'[u] = pc[u] \/ pc'[u] \notin {"running", "waking late"},
           \A u \in Dialog \ {t} : expect'[u] = expect[u],
           \/ InjectedClock
           \/ /\ pc'[t] # "waking late" /\ (holder = t \/ sy' = sy)
              /\ t \in Dialog /\ pc'[t] = "running" => sy' = expect'[t]
    PROVE  SyKept'
  <1>1. SUFFICES ASSUME ~InjectedClock
                 PROVE  /\ \A u \in Tokens : pc'[u] # "waking late"
                        /\ \A u \in Dialog : pc'[u] = "running" => sy' = expect'[u]
    BY DEF SyKept
  <1>2. \A u \in Tokens : pc[u] # "waking late"
    BY <1>1 DEF SyKept
  <1>3. ASSUME NEW u \in Dialog, u # t, pc'[u] = "running"  PROVE sy' = expect'[u]
    <2>1. pc[u] = "running" /\ u \in Tokens
      BY <1>3 DEF Dialog, Tokens
    <2>2. holder = u /\ sy = expect[u]
      BY <1>1, <1>3, <2>1 DEF QInv, InLine, Active, SyKept
    <2>3. QED
      BY <1>1, <1>3, <2>2
  <1>4. QED
    BY <1>1, <1>2, <1>3

\* Every step of a token keeps sy-subrc the running step's own.
LEMMA StepKeepsSy ==
    ASSUME QInv, ShimTypes, SyKept, NEW t \in Tokens, Step(t)
    PROVE  SyKept' /\ sy' \in {0, 4, 8} /\ expect' \in [Dialog -> {0, 4, 8}]
  <1> USE ClientsDisjoint
  <1>0. pc \in [Tokens -> Pcs] /\ sy \in {0, 4, 8} /\ expect \in [Dialog -> {0, 4, 8}]
    BY DEF QInv, QueueTypes, ShimTypes
  <1>1. ASSUME NEW p, pc' = [pc EXCEPT ![t] = p], p \notin {"running", "waking late"},
               UNCHANGED <<sy, expect>>
        PROVE  SyKept' /\ sy' \in {0, 4, 8} /\ expect' \in [Dialog -> {0, 4, 8}]
    <2>1. pc'[t] = p /\ \A u \in Tokens \ {t} : pc'[u] = pc[u]
      BY <1>0, <1>1
    <2>2. SyKept'
      BY <1>1, <2>1, SyStep
    <2>3. QED
      BY <1>0, <1>1, <2>2
  <1>2. CASE Arrive(t) \/ Publish(t) \/ Published(t) \/ Wake(t)
    BY <1>1, <1>2 DEF Arrive, Publish, Published, Wake
  <1>3. CASE EndOk(t) \/ Dump(t) \/ Wait(t)
    <2>1. PICK p : pc' = [pc EXCEPT ![t] = p] /\ p \in {"after", "idle", "after dump", "asleep"}
      BY <1>3 DEF EndOk, Dump, Wait
    <2>2. UNCHANGED <<sy, expect>>
      BY <1>3 DEF EndOk, Dump, Wait
    <2>3. p \notin {"running", "waking late"}
      BY <2>1
    <2>4. QED
      BY <1>1, <2>1, <2>2, <2>3
  <1>4. CASE Respond(t) \/ onStepLuwEnd(t) \/ CommitWork(t) \/ RollbackWork(t)
    <2>1. UNCHANGED <<sy, expect, pc>>
      BY <1>4 DEF Respond, onStepLuwEnd, CommitWork, RollbackWork
    <2>2. QED
      BY <1>0, <2>1 DEF SyKept
  <1>5. CASE Start(t)
    <2>1. /\ pc'[t] = "running" /\ \A u \in Tokens \ {t} : pc'[u] = pc[u]
          /\ sy' = sy
          /\ t \in Dialog => expect'[t] = sy
          /\ expect' \in [Dialog -> {0, 4, 8}] /\ \A u \in Dialog \ {t} : expect'[u] = expect[u]
      BY <1>0, <1>5 DEF Start
    <2>2. SyKept'
      BY <2>1, SyStep
    <2>3. QED
      BY <1>0, <2>1, <2>2
  <1>6. CASE Write(t) \/ ReadNothing(t)
    <2>1. /\ t \in Dialog /\ holder = t /\ pc' = pc /\ pc[t] = "running"
          /\ sy' \in {0, 4, 8} /\ expect' = [expect EXCEPT ![t] = sy']
      BY <1>6 DEF Write, ReadNothing, Runs
    <2>2. /\ expect' \in [Dialog -> {0, 4, 8}] /\ expect'[t] = sy'
          /\ \A u \in Dialog \ {t} : expect'[u] = expect[u]
      BY <1>0, <2>1
    <2>3. SyKept'
      BY <2>1, <2>2, SyStep
    <2>4. QED
      BY <2>1, <2>2, <2>3
  <1>7. CASE WakeAtCeiling(t)
    <2>1. /\ InjectedClock /\ t \in Dialog /\ sy' = 8 /\ expect' = [expect EXCEPT ![t] = 8]
      BY <1>7 DEF WakeAtCeiling
    <2>2. expect' \in [Dialog -> {0, 4, 8}]
      BY <1>0, <2>1
    <2>3. QED
      BY <2>1, <2>2 DEF SyKept
  <1>8. CASE Return(t)
    <2>1. /\ t \in Dialog /\ sy' = sy /\ expect' = [expect EXCEPT ![t] = 0]
          /\ pc'[t] = "idle" /\ \A u \in Tokens \ {t} : pc'[u] = pc[u]
      BY <1>0, <1>8 DEF Return, Forget, Dialog
    <2>2. /\ expect' \in [Dialog -> {0, 4, 8}] /\ \A u \in Dialog \ {t} : expect'[u] = expect[u]
      BY <1>0, <2>1
    <2>3. SyKept'
      BY <2>1, <2>2, SyStep
    <2>4. QED
      BY <1>0, <2>1, <2>2, <2>3
  <1>9. CASE Delivered(t) \/ DeliveryFailed(t)
    <2>1. /\ t \in Receivers /\ t \in Dialog /\ sy' = sy /\ expect' = [expect EXCEPT ![t] = 0]
          /\ pc[t] \in Over /\ pc[t] # "idle"
      BY <1>9 DEF Delivered, DeliveryFailed, Forget, Dialog, Over
    <2>2. PICK s \in Sessions : s = serves[t] /\ s \in Tokens /\ s # t
      BY <2>1 DEF QInv, Roles, Tokens
    <2>3. /\ pc'[t] = "idle" /\ pc'[s] \in {"asleep", "waking failed"}
          /\ \A u \in Tokens \ {t, s} : pc'[u] = pc[u]
      BY <1>0, <1>9, <2>2 DEF Delivered, DeliveryFailed
    <2>4. /\ expect' \in [Dialog -> {0, 4, 8}] /\ \A u \in Dialog \ {t} : expect'[u] = expect[u]
      BY <1>0, <2>1
    <2>5. \A u \in Tokens \ {t} : pc'[u] = pc[u] \/ pc'[u] \notin {"running", "waking late"}
      BY <2>2, <2>3
    <2>6. SyKept'
      BY <2>1, <2>3, <2>4, <2>5, SyStep
    <2>7. QED
      BY <1>0, <2>1, <2>4, <2>6
  <1>10. CASE RollIn(t)
    <2>1. pc[t] \in Waking /\ holder = t /\ t \in Dialog
      BY <1>10 DEF RollIn, Waking, QInv, Roles, Tokens, Dialog
    <2>2. PICK on \in WaitEnd(t) :
              /\ pc' = [pc EXCEPT ![t] = on[1]] /\ sy' = on[2]
              /\ expect' = IF pc[t] = "waking" THEN [expect EXCEPT ![t] = on[2]] ELSE expect
      BY <1>10 DEF RollIn
    <2>3. on \in Active \X {0, 8, sy}
      BY <2>1, <2>2, WaitEnds
    <2>4. on[1] \in Active /\ on[2] \in {0, 4, 8}
      BY <1>0, <2>3
    <2>5. /\ pc'[t] = on[1] /\ \A u \in Tokens \ {t} : pc'[u] = pc[u]
      BY <1>0, <2>2
    <2>6. /\ sy' \in {0, 4, 8} /\ expect' \in [Dialog -> {0, 4, 8}]
          /\ \A u \in Dialog \ {t} : expect'[u] = expect[u]
          /\ pc[t] = "waking" => expect'[t] = sy'
      BY <1>0, <2>1, <2>2, <2>4
    <2>7. pc'[t] # "waking late"
      BY <2>4, <2>5 DEF Active
    <2>8. InjectedClock \/ (pc'[t] = "running" => sy' = expect'[t])
      <3>1. CASE pc[t] = "waking"
        BY <2>6, <3>1
      <3>2. CASE pc[t] = "waking late"
        BY <3>2 DEF SyKept
      <3>3. CASE pc[t] = "waking failed"
        <4>1. on = <<"failing", sy>>
          <5>1. WaitEnd(t) = {<<"failing", sy>>}
            BY <2>1, <3>3, WaitEnds
          <5>2. QED
            BY <2>2, <5>1, Zenon
        <4>2. QED
          BY <2>5, <4>1
      <3>4. QED
        BY <2>1, <3>1, <3>2, <3>3 DEF Waking
    <2>9. SyKept'
      BY <2>1, <2>5, <2>6, <2>7, <2>8, SyStep
    <2>10. QED
      BY <2>6, <2>9
  <1>11. QED
    BY <1>2, <1>3, <1>4, <1>5, <1>6, <1>7, <1>8, <1>9, <1>10 DEF Step

\* The types of the shim's state.
LEMMA ShimTyped ==
    ASSUME QInv, ShimTypes, ShimKept, NEW t \in Tokens, Step(t)
    PROVE  /\ icf' \in Shims /\ saved' \in [Dialog -> Shims] /\ found' \in [Receivers -> Shims]
           /\ own' \in [Sessions -> Shims]
  <1> USE ClientsDisjoint
  <1>0. /\ icf \in Shims /\ saved \in [Dialog -> Shims] /\ found \in [Receivers -> Shims]
        /\ own \in [Sessions -> Shims] /\ NoState \in Shims
        /\ Sessions \subseteq Dialog
    BY DEF ShimTypes, Shims, Dialog
  <1>1. ASSUME t \in Receivers, pc[t] # "idle"  PROVE serves[t] \in Sessions /\ serves[t] \in Dialog
    BY <1>1 DEF QInv, Roles, Dialog
  <1>2. CASE UNCHANGED shim
    BY <1>0, <1>2 DEF shim
  <1>3. CASE Start(t)
    <2>1. CASE t \in Sessions
      <3>1. [of |-> t, rev |-> 0] \in Shims
        BY <2>1 DEF Shims, IcfState
      <3>2. icf' = [of |-> t, rev |-> 0] /\ own' = [own EXCEPT ![t] = icf'] /\ UNCHANGED <<saved, found>>
        BY <1>3, <2>1 DEF Start
      <3>3. QED
        BY <1>0, <2>1, <3>1, <3>2
    <2>2. CASE t \in Receivers
      <3>1. serves[t] \in Dialog
        BY <1>1, <1>3, <2>2 DEF Start
      <3>2. /\ found' = [found EXCEPT ![t] = icf] /\ icf' = saved[serves[t]] /\ UNCHANGED <<saved, own>>
        BY <1>3, <2>2 DEF Start
      <3>3. QED
        BY <1>0, <2>2, <3>1, <3>2
    <2>3. CASE t \in Readers
      BY <1>2, <1>3, <2>3 DEF Start
    <2>4. QED
      BY <2>1, <2>2, <2>3 DEF Tokens
  <1>4. CASE Respond(t)
    <2>1. /\ t \in Dialog /\ pc[t] = "running" /\ icf # NoState /\ icf' = [icf EXCEPT !.rev = 1]
          /\ own' = [own EXCEPT ![SessionOf(t)].rev = 1] /\ UNCHANGED <<saved, found>>
      BY <1>4 DEF Respond, Runs
    <2>2. PICK s \in Sessions : s = SessionOf(t)
      BY <1>1, <2>1 DEF SessionOf, Dialog
    <2>3. icf = own[s] /\ icf \in IcfState
      BY <1>0, <2>1, <2>2 DEF ShimKept, Kept, Active, Shims
    <2>4. [icf EXCEPT !.rev = 1] \in Shims
      BY <2>3 DEF IcfState, Shims
    <2>5. own' = [own EXCEPT ![s] = [own[s] EXCEPT !.rev = 1]]
      BY <2>1, <2>2
    <2>6. QED
      BY <1>0, <2>1, <2>3, <2>4, <2>5
  <1>5. CASE EndOk(t) \/ Dump(t)
    <2>1. CASE t \in Receivers
      <3>1. LeaveSession(t) /\ pc[t] # "idle"
        BY <1>5 DEF EndOk, Dump, Runs
      <3>2. /\ serves[t] \in Dialog /\ saved' = [saved EXCEPT ![serves[t]] = icf] /\ icf' = found[t]
            /\ found' = [found EXCEPT ![t] = NoState] /\ own' = own
        BY <1>1, <2>1, <3>1 DEF LeaveSession
      <3>3. QED
        BY <1>0, <2>1, <3>2
    <2>2. CASE t \notin Receivers
      BY <1>2, <1>5, <2>2 DEF EndOk, Dump, LeaveSession
    <2>3. QED
      BY <2>1, <2>2
  <1>6. CASE Wait(t)
    BY <1>0, <1>6 DEF Wait
  <1>7. CASE RollIn(t)
    <2>1. t \in Dialog
      BY <1>7 DEF RollIn, Waking, QInv, Roles, Tokens, Dialog
    <2>2. icf' = saved[t] /\ saved' = [saved EXCEPT ![t] = NoState] /\ UNCHANGED <<found, own>>
      BY <1>7 DEF RollIn
    <2>3. QED
      BY <1>0, <2>1, <2>2
  <1>8. CASE Return(t)
    BY <1>0, <1>8 DEF Return
  <1>9. CASE \/ Arrive(t) \/ Write(t) \/ ReadNothing(t) \/ onStepLuwEnd(t) \/ CommitWork(t)
             \/ RollbackWork(t) \/ Publish(t) \/ Published(t) \/ Wake(t) \/ WakeAtCeiling(t)
             \/ Delivered(t) \/ DeliveryFailed(t)
    BY <1>2, <1>9 DEF Arrive, Write, ReadNothing, onStepLuwEnd, CommitWork, RollbackWork, Publish,
                      Published, Wake, WakeAtCeiling, Delivered, DeliveryFailed
  <1>10. QED
    BY <1>3, <1>4, <1>5, <1>6, <1>7, <1>8, <1>9 DEF Step

\* Every step of a token keeps the shim's state where its owner will look for it.
LEMMA StepKeepsShim ==
    ASSUME QInv, ShimTypes, ShimKept, NEW t \in Tokens, Step(t)
    PROVE  ShimKept'
  <1> USE ClientsDisjoint
  <1>0. pc \in [Tokens -> Pcs]
    BY DEF QInv, QueueTypes
  <1>1. CASE Start(t) \/ Respond(t) \/ Wait(t) \/ RollIn(t)
    BY <1>1, ShimUsed
  <1>2. CASE EndOk(t) \/ Dump(t)
    BY <1>2, ShimLeft
  <1>3. CASE Delivered(t) \/ DeliveryFailed(t)
    BY <1>3, ShimDelivered DEF Delivered, DeliveryFailed
  <1>4. CASE Write(t) \/ ReadNothing(t) \/ onStepLuwEnd(t) \/ CommitWork(t) \/ RollbackWork(t)
    <2>1. UNCHANGED <<pc, serves, shim>>
      BY <1>4 DEF Write, ReadNothing, onStepLuwEnd, CommitWork, RollbackWork
    <2>2. QED
      BY <2>1 DEF ShimKept, Kept, SessionOf, shim
  <1>5. CASE Arrive(t) \/ Publish(t) \/ Published(t) \/ Wake(t) \/ WakeAtCeiling(t)
    <2>1. PICK p \in {"queued", "to publish", "published", "waking", "waking late"} :
              /\ pc' = [pc EXCEPT ![t] = p] /\ serves' = serves /\ UNCHANGED shim
              /\ pc[t] # "pumping"
              /\ \/ pc[t] = "idle" /\ p = "queued" /\ t \notin Receivers
                 \/ pc[t] = "after" /\ p = "to publish"
                 \/ pc[t] = "to publish" /\ p = "published"
                 \/ pc[t] = "asleep" /\ p \in Waking
      BY <1>5 DEF Arrive, Publish, Published, Wake, WakeAtCeiling, Waking
    <2>2. p \in Pcs
      BY <2>1 DEF Pcs, Over, Waking
    <2>3. \/ t \notin Dialog
          \/ t \in Sessions /\ p \notin Active \cup {"asleep"} \cup Waking
          \/ pc[t] = "asleep" /\ p \in Waking
          \/ pc[t] \in Over \cup {"to publish"} /\ p \in Over \cup {"to publish"}
      BY <2>1 DEF Dialog, Active, Over, Waking
    <2>4. t \in Receivers => pc[t] # "idle"
      BY <2>1
    <2>5. QED
      BY <2>1, <2>2, <2>3, <2>4, ShimUntouched
  <1>6. CASE Return(t)
    <2>1. /\ t \in Sessions /\ pc[t] # "pumping" /\ serves' = serves /\ icf' = icf /\ saved' = saved
          /\ own' = [own EXCEPT ![t] = NoState]
          /\ pc'[t] = "idle" /\ \A u \in Tokens \ {t} : pc'[u] = pc[u]
      BY <1>0, <1>6 DEF Return, Over
    <2>2. SessionOf(t) = t /\ t \notin Receivers
      BY <2>1 DEF SessionOf
    <2>3. \A s \in Sessions : s # SessionOf(t) => own'[s] = own[s]
      BY <2>1, <2>2 DEF ShimTypes
    <2>4. Kept(t)'
      BY <2>1, <2>2 DEF Kept, Active, Waking, Over
    <2>5. QED
      BY <2>1, <2>2, <2>3, <2>4, OthersKept
  <1>7. QED
    BY <1>1, <1>2, <1>3, <1>4, <1>5, <1>6 DEF Step

\* Every step keeps the context.
LEMMA NextKeepsCInv == QInv /\ CInv /\ [Next]_vars => CInv'
  <1> SUFFICES ASSUME QInv, CInv, [Next]_vars  PROVE CInv'
    OBVIOUS
  <1>0. ShimTypes /\ ShimKept /\ SyKept
    BY DEF CInv
  <1>1. ASSUME NEW t \in Tokens, Step(t)  PROVE CInv'
    BY <1>0, <1>1, ShimTyped, StepKeepsShim, StepKeepsSy DEF CInv, ShimTypes
  <1>2. ASSUME NEW s \in Sessions, NEW r \in Receivers, Deliver(s, r)  PROVE CInv'
    <2>1. UNCHANGED <<shim, sy, expect>> /\ r \in Tokens
      BY <1>2 DEF Deliver, Tokens
    <2>2. ShimTypes'
      BY <1>0, <2>1 DEF ShimTypes, shim
    <2>3. ShimKept'
      BY <1>0, <1>2, ShimDelivered
    <2>4. /\ pc'[r] # "waking late" /\ pc'[r] # "running"
          /\ \A u \in Tokens \ {r} : pc'[u] = pc[u] \/ pc'[u] \notin {"running", "waking late"}
      BY <1>2, <2>1, ClientsDisjoint DEF Deliver, QInv, QueueTypes, Tokens
    <2>5. SyKept'
      BY <1>0, <2>1, <2>4, SyStep
    <2>6. QED
      BY <2>2, <2>3, <2>5 DEF CInv
  <1>3. CASE UNCHANGED vars
    BY <1>0, <1>3 DEF vars, CInv, ShimTypes, ShimKept, Kept, SessionOf, SyKept
  <1>4. QED
    BY <1>1, <1>2, <1>3 DEF Next

\* Nobody has a context before the first step.
LEMMA InitCInv == Init => CInv
  <1> SUFFICES ASSUME Init  PROVE CInv
    OBVIOUS
  <1>1. ShimTypes
    BY DEF Init, ShimTypes, Shims
  <1>2. \A t \in Tokens : pc[t] = "idle"
    BY DEF Init
  <1>3. ShimKept /\ SyKept
    BY <1>2 DEF ShimKept, Kept, SyKept, Active, Waking, Over, Dialog, Tokens
  <1>4. QED
    BY <1>1, <1>3 DEF CInv

-----------------------------------------------------------------------------
(* What holds of the work process and its steps *)

\* The inductive invariant holds in every state.
THEOREM StepInvariant == Spec => []IInv
  <1>1. Init => IInv
    BY InitQInv, InitDInv, InitCInv DEF IInv
  <1>2. IInv /\ [Next]_vars => IInv'
    BY NextKeepsQInv, NextKeepsDInv, NextKeepsCInv DEF IInv
  <1>3. QED
    BY <1>1, <1>2, PTL DEF Spec

\* The line of the invariant is the queue HandedOn speaks of.
LEMMA LineIsHandedOn == QInv => HandedOn
  <1> SUFFICES ASSUME QInv  PROVE HandedOn
    OBVIOUS
  <1>1. ASSUME NEW t \in Tokens
        PROVE  LET places == {i \in DOMAIN waiting : waiting[i] = t} IN
               IF pc[t] \in NeedsWorkProcess
               THEN Cardinality(places) = (IF holder = t THEN 0 ELSE 1)
               ELSE places = {} /\ (holder = t => pc[t] \in {"running", "polling", "failing"})
    <2> DEFINE places == {i \in DOMAIN waiting : waiting[i] = t}
    <2>1. /\ In(waiting, t) <=> pc[t] \in NeedsWorkProcess /\ holder # t
          /\ holder = t => pc[t] \in NeedsWorkProcess \cup Active
          /\ Distinct(waiting)
      BY DEF QInv, InLine
    <2>2. ~In(waiting, t) => places = {}
      BY DEF In
    <2>3. ASSUME In(waiting, t)  PROVE Cardinality(places) = 1
      <3>1. PICK i \in DOMAIN waiting : waiting[i] = t
        BY <2>3 DEF In
      <3>2. places = {i}
        BY <2>1, <3>1 DEF Distinct
      <3>3. QED
        BY <3>2, FS_Singleton
    <2>4. Cardinality({}) = 0
      BY FS_EmptySet
    <2> HIDE DEF places
    <2>5. IF pc[t] \in NeedsWorkProcess
          THEN Cardinality(places) = (IF holder = t THEN 0 ELSE 1)
          ELSE places = {} /\ (holder = t => pc[t] \in {"running", "polling", "failing"})
      BY <2>1, <2>2, <2>3, <2>4 DEF Active
    <2>6. QED
      BY <2>5 DEF places
  <1>2. waiting # <<>> => holder # NoToken
    BY DEF QInv, InLine
  <1>3. QED
    BY <1>1, <1>2 DEF HandedOn

\* The work process is handed on and never dropped, and who waits for it is in its queue
\* exactly once, for any clients (acquire and release of tools/osd-dialog-step.mjs).
THEOREM QueueIsSound == Spec => []QueueSound
  <1>1. IInv => TypeOK
    BY DEF IInv, QInv, DInv, CInv, QueueTypes, DataTypes, ShimTypes, TypeOK, Pcs, Rows, Shims
  <1>2. IInv => QueueSound
    BY <1>1, LineIsHandedOn DEF IInv, QueueSound
  <1>3. QED
    BY <1>2, StepInvariant, PTL

\* A LUW is committed as a whole or not at all, whatever the other steps do on the same
\* connection and wherever the step sleeps.
THEOREM LuwIsAtomic == Spec => []LuwAtomic
  <1>1. IInv => LuwAtomic
    BY DEF IInv, DInv, RowFates, LuwAtomic
  <1>2. QED
    BY <1>1, StepInvariant, PTL

\* What a host service keeps for a LUW ends with it (onStepLuwEnd and endLuw).
THEOREM LuwEndIsTold == Spec => []LuwEndTold
  <1>1. IInv => LuwEndTold
    BY DEF IInv, DInv
  <1>2. QED
    BY <1>1, StepInvariant, PTL

\* A running step finds the shim's server as it, or a receiver on its behalf, left it:
\* also with a clock that is moved from outside.
THEOREM ServerIsOwn == Spec => []IcfIsOwn
  <1>1. IInv => IcfIsOwn
    BY DEF IInv, CInv, ShimKept, Kept, IcfIsOwn, Runs, Active
  <1>2. QED
    BY <1>1, StepInvariant, PTL

\* With the clock of the process the running step finds its own sy-subrc as well. (With one
\* that is moved from outside it need not: the ceiling of WAIT UNTIL sets it too early.)
THEOREM ContextIsOwn ==
    ASSUME ~InjectedClock
    PROVE  Spec => []OwnContext
  <1>1. IInv => OwnContext
    BY DEF IInv, CInv, ShimKept, Kept, SyKept, OwnContext, IcfIsOwn, SyIsOwn, Runs, Active
  <1>2. QED
    BY <1>1, StepInvariant, PTL
=============================================================================
