------------------------------ MODULE EnqOwners ------------------------------
(***************************************************************************)
(* What the lock server promises, without its table: every owner holds a   *)
(* bag of locks. There are no rows, no order, no halves of one row and no  *)
(* session behind a lock; who may take a lock depends only on which owners *)
(* hold what (docs/enq-contract.md, the owner model at the head of         *)
(* tools/osd-enq.mjs). Module Enq implements this.                         *)
(***************************************************************************)
EXTENDS Integers, FiniteSets, EnqArg

CONSTANTS Tables, FieldLists, Modes, Scopes, MaxSeq

VARIABLES seq, sessions, held, closed, tasks

vars == <<seq, sessions, held, closed, tasks>>

\* held: the bag of the locks held, each with its owner, table, argument and mode.
Key(owner, r) == <<owner, r.table, garg(r.fields), r.mode>>

Own(sid) == {sessions[sid].dialog, sessions[sid].update}

\* The owners a request is about.
Wanted(sid, r) ==
    (IF r.scope \in {1, 3} THEN {sessions[sid].dialog} ELSE {})
        \cup (IF r.scope # 1 THEN {sessions[sid].update} ELSE {})

\* One's own locks exclude only by X, another owner's unless both are shared.
Compatible(sid, k, r) ==
    IF k[1] \in Own(sid) THEN "X" \notin {k[4], r.mode}
                         ELSE {k[4], r.mode} \subseteq {"S", "O"}

Grantable(sid, r) ==
    \A k \in BagToSet(held) :
        k[2] = r.table /\ collide(k[3], garg(r.fields)) => Compatible(sid, k, r)

WithoutOwners(O) ==
    LET bag == held IN [k \in {c \in BagToSet(bag) : c[1] \notin O} |-> bag[k]]

-----------------------------------------------------------------------------
Init ==
    /\ seq = 0
    /\ sessions = <<>>
    /\ held = EmptyBag
    /\ closed = FALSE
    /\ tasks = {}

Open ==
    /\ ~closed
    /\ seq + 3 <= MaxSeq
    /\ seq' = seq + 3
    /\ sessions' = [sid \in DOMAIN sessions \cup {seq + 1} |->
                       IF sid = seq + 1 THEN [dialog |-> seq + 2, update |-> seq + 3]
                       ELSE sessions[sid]]
    /\ UNCHANGED <<held, closed, tasks>>

Enqueue(sid, r) ==
    /\ ~closed
    /\ UNCHANGED <<seq, sessions, closed, tasks>>
    /\ Grantable(sid, r)
    /\ held' = held (+) SetToBag({Key(o, r) : o \in Wanted(sid, r)})

\* One count of at least one of the halves asked for, and of no other lock.
Dequeue(sid, r) ==
    /\ ~closed
    /\ UNCHANGED <<seq, sessions, closed, tasks>>
    /\ \E ks \in SUBSET {Key(o, r) : o \in Wanted(sid, r)} :
          /\ ks # {} /\ ks \subseteq BagToSet(held)
          /\ held' = held (-) SetToBag(ks)

DequeueAll(sid) ==
    /\ ~closed
    /\ UNCHANGED <<seq, sessions, closed, tasks>>
    /\ held' = WithoutOwners(Own(sid))

NewLuw(sid) ==
    /\ ~closed
    /\ seq + 1 <= MaxSeq
    /\ seq' = seq + 1
    /\ sessions' = [sessions EXCEPT ![sid].update = seq + 1]

Rollback(sid) ==
    /\ NewLuw(sid)
    /\ UNCHANGED <<closed, tasks>>
    /\ held' = WithoutOwners({sessions[sid].update})

Commit(sid) ==
    /\ NewLuw(sid)
    /\ UNCHANGED <<held, closed>>
    /\ tasks' = tasks \cup {<<sid, sessions[sid].update>>}

UpdateDone(t) ==
    /\ UNCHANGED <<seq, sessions, closed>>
    /\ tasks' = tasks \ {t}
    /\ held' = IF closed THEN held ELSE WithoutOwners({t[2]})

End(sid) ==
    /\ UNCHANGED <<seq, closed, tasks>>
    /\ held' = IF closed THEN held ELSE WithoutOwners(Own(sid))
    /\ sessions' = [s \in DOMAIN sessions \ {sid} |-> sessions[s]]

Close ==
    /\ ~closed
    /\ closed' = TRUE
    /\ UNCHANGED <<seq, sessions, held, tasks>>

Request == [table : Tables, fields : FieldLists, mode : Modes, scope : Scopes]

Next ==
    \/ Open \/ Close
    \/ \E sid \in DOMAIN sessions :
          \/ \E r \in Request : Enqueue(sid, r) \/ Dequeue(sid, r)
          \/ DequeueAll(sid) \/ Rollback(sid) \/ Commit(sid) \/ End(sid)
    \/ \E t \in tasks : UpdateDone(t)

Spec == Init /\ [][Next]_vars
==============================================================================
