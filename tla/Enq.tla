-------------------------------- MODULE Enq ---------------------------------
(***************************************************************************)
(* The lock server, class LockServer of tools/osd-enq.mjs: the table that  *)
(* ENQUEUE_<object>, DEQUEUE_<object>, DEQUEUE_ALL, COMMIT WORK, ROLLBACK  *)
(* WORK and the end of a session work on. Every operation is synchronous   *)
(* in the code, so each is one action.                                     *)
(*                                                                         *)
(* A session has two owners: the dialog owner, for its whole life, and the *)
(* update owner of its current LUW. A row holds a dialog half and an       *)
(* update half, each with a count; _SCOPE 1 takes the first, 2 the second, *)
(* 3 both. COMMIT WORK with an update passes the update owner on to the    *)
(* update task (tasks) and gives the session a new one.                    *)
(*                                                                         *)
(* The code keeps the rows in an array, in the order they were taken.      *)
(* Here rows is a function on slots: the order of two rows is the order of *)
(* their slots, a new row takes the slot after the last one, and a slot    *)
(* whose row is swept is simply gone. Session handles and owner ids all    *)
(* come from the one counter seq, as in the code; an owner id's time stamp *)
(* and padding, which are never parsed, are left out. Tables stands for    *)
(* the pairs of client and table.                                          *)
(***************************************************************************)
EXTENDS Integers, FiniteSets, EnqArg

CONSTANTS Tables,     \* the lock tables, each in one client
          FieldLists, \* the keys a request may name
          Modes,      \* the lock modes callers use
          Scopes,     \* the values of _SCOPE callers pass, 0: not supplied
          Slots,      \* bound: the positions of the lock table
          MaxSeq,     \* bound: handles and owner ids given out
          MaxCount    \* bound: how often one half is taken

ASSUME ModesAssumption == Modes \subseteq {"E", "S", "X", "O"}
ASSUME ScopesAssumption == Scopes \subseteq 0 .. 3
ASSUME SlotsAssumption == Slots \subseteq Nat \ {0}
ASSUME BoundsAssumption == MaxSeq \in Nat /\ MaxCount \in Nat

VARIABLES seq,       \* the last number given out
          sessions,  \* the open sessions: handle -> its two owners
          rows,      \* the lock table: slot -> row
          closed,    \* close() was called
          tasks      \* <<handle, update owner>> of the update tasks that run

vars == <<seq, sessions, rows, closed, tasks>>

-----------------------------------------------------------------------------
NoOwner == 0            \* the "" of a released half

Args == {garg(f) : f \in FieldLists}

Request == [table : Tables, fields : FieldLists, mode : Modes, scope : Scopes]

Session == [dialog : Nat, update : Nat]

Row == [table : Tables, arg : Args, mode : Modes, session : Nat,
        dialog : Nat, dialogs : Nat, update : Nat, updates : Nat]

shared(mode) == mode \in {"S", "O"}

scopeOf(r) == IF r.scope \in {1, 3} THEN r.scope ELSE 2

TakesDialog(r) == scopeOf(r) \in {1, 3}
TakesUpdate(r) == scopeOf(r) \in {2, 3}

live(sid) == ~closed /\ sid \in DOMAIN sessions

HoldsDialog(s, w) == w.dialogs > 0 /\ w.dialog = s.dialog
HoldsUpdate(s, w) == w.updates > 0 /\ w.update = s.update

owns(s, w) == HoldsDialog(s, w) \/ HoldsUpdate(s, w)

\* The halves of a row that the update task of an earlier LUW holds.
Stale(s, w) == w.updates > 0 /\ w.update # s.update

-----------------------------------------------------------------------------
(* One attempt of ENQUEUE *)

Touches(w, r) == w.table = r.table /\ collide(w.arg, garg(r.fields))

\* Mutants of Foreign: the session behind a row is not looked at, the update task
\* of an earlier LUW is not.
ForeignTask(sid, w, r) ==
    /\ Touches(w, r)
    /\ Stale(sessions[sid], w)
    /\ ~shared(w.mode) \/ ~shared(r.mode)
ForeignSession(sid, w, r) ==
    /\ Touches(w, r)
    /\ w.session # sid
    /\ ~shared(w.mode) \/ ~shared(r.mode)

\* Message 601: another owner's half, unless both locks are shared.
Foreign(sid, w, r) ==
    /\ Touches(w, r)
    /\ w.session # sid \/ Stale(sessions[sid], w)
    /\ ~shared(w.mode) \/ ~shared(r.mode)

\* Mutant of OwnX: a request for X is granted on top of one's own S or E.
OwnHeldX(sid, w, r) ==
    /\ Touches(w, r)
    /\ owns(sessions[sid], w)
    /\ w.mode = "X"

\* Message 602: the caller's own lock, one of the two is X.
OwnX(sid, w, r) ==
    /\ Touches(w, r)
    /\ owns(sessions[sid], w)
    /\ w.mode = "X" \/ r.mode = "X"

Refusals(sid, r) ==
    {i \in DOMAIN rows : Foreign(sid, rows[i], r) \/ OwnX(sid, rows[i], r)}

\* What tryEnqueue answers: the conflicting row taken first decides.
Answer(sid, r) ==
    IF ~live(sid) THEN "SYSTEM_FAILURE"
    ELSE IF Refusals(sid, r) = {} THEN "granted"
    ELSE IF Foreign(sid, rows[Min(Refusals(sid, r))], r) THEN "601" ELSE "602"

\* Mutant of Cumulates: a row an update task still holds is counted on.
CumulatesStale(sid, r) ==
    {i \in DOMAIN rows :
        /\ Touches(rows[i], r)
        /\ owns(sessions[sid], rows[i])
        /\ rows[i].arg = garg(r.fields)
        /\ rows[i].mode = r.mode}

\* The rows a granted request may be counted on: `same` is the last of them.
Cumulates(sid, r) ==
    {i \in DOMAIN rows :
        /\ Touches(rows[i], r)
        /\ owns(sessions[sid], rows[i])
        /\ rows[i].arg = garg(r.fields)
        /\ rows[i].mode = r.mode
        /\ ~Stale(sessions[sid], rows[i])}

IsLast(i, S)  == i \in S /\ \A j \in S : j <= i
IsFirst(i, S) == i \in S /\ \A j \in S : i <= j

\* The slot after the last row.
IsNextSlot(n) ==
    /\ \A i \in DOMAIN rows : i < n
    /\ n = 1 \/ n - 1 \in DOMAIN rows

NewRow(sid, r) ==
    [table |-> r.table, arg |-> garg(r.fields), mode |-> r.mode, session |-> sid,
     dialog |-> NoOwner, dialogs |-> 0, update |-> NoOwner, updates |-> 0]

Counted(s, w, r) ==
    [w EXCEPT !.dialogs = IF TakesDialog(r) THEN @ + 1 ELSE @,
              !.dialog  = IF TakesDialog(r) THEN s.dialog ELSE @,
              !.updates = IF TakesUpdate(r) THEN @ + 1 ELSE @,
              !.update  = IF TakesUpdate(r) THEN s.update ELSE @]

Bounded(w) == w.dialogs <= MaxCount /\ w.updates <= MaxCount

-----------------------------------------------------------------------------
(* Releasing *)

Kept(w)  == w.dialogs > 0 \/ w.updates > 0
Blanked(w) == [w EXCEPT !.dialog = IF w.dialogs = 0 THEN NoOwner ELSE @,
                        !.update = IF w.updates = 0 THEN NoOwner ELSE @]

\* The table `t` without the rows no half holds any more, released halves blank.
sweep(t) == [i \in {j \in DOMAIN t : Kept(t[j])} |-> Blanked(t[i])]

\* Both halves of the session's current owners, in every row of the session.
ReleasedRow(sid, w) ==
    [w EXCEPT !.dialogs = IF w.session = sid /\ w.dialog = sessions[sid].dialog THEN 0 ELSE @,
              !.updates = IF w.session = sid /\ w.update = sessions[sid].update THEN 0 ELSE @]

release(sid) == sweep([i \in DOMAIN rows |-> ReleasedRow(sid, rows[i])])

releaseUpdate(sid, owner) ==
    sweep([i \in DOMAIN rows |->
              [rows[i] EXCEPT !.updates = IF rows[i].session = sid /\ rows[i].update = owner
                                          THEN 0 ELSE @]])

Matches(sid, w, r) ==
    /\ owns(sessions[sid], w)
    /\ w.table = r.table /\ w.arg = garg(r.fields) /\ w.mode = r.mode
    /\ \/ TakesDialog(r) /\ HoldsDialog(sessions[sid], w)
       \/ TakesUpdate(r) /\ HoldsUpdate(sessions[sid], w)

Uncounted(s, w, r) ==
    [w EXCEPT !.dialogs = IF TakesDialog(r) /\ HoldsDialog(s, w) THEN @ - 1 ELSE @,
              !.updates = IF TakesUpdate(r) /\ HoldsUpdate(s, w) THEN @ - 1 ELSE @]

-----------------------------------------------------------------------------
(* The operations. A call on a closed server, or of a session it does not  *)
(* know, changes nothing; so does a refused ENQUEUE and a COMMIT WORK with *)
(* no update. Those calls are stuttering steps.                            *)

Init ==
    /\ seq = 0
    /\ sessions = <<>>
    /\ rows = <<>>
    /\ closed = FALSE
    /\ tasks = {}

WithUpdateOwner(sid, owner) == [sessions EXCEPT ![sid].update = owner]

\* The handle, the dialog owner and the update owner are three numbers.
open ==
    /\ ~closed
    /\ seq + 3 <= MaxSeq
    /\ seq' = seq + 3
    /\ sessions' = [sid \in DOMAIN sessions \cup {seq + 1} |->
                       IF sid = seq + 1 THEN [dialog |-> seq + 2, update |-> seq + 3]
                       ELSE sessions[sid]]
    /\ UNCHANGED <<rows, closed, tasks>>

enqueue(sid, r) ==
    /\ Answer(sid, r) = "granted"
    /\ LET same == Cumulates(sid, r) IN
       \/ /\ same = {}
          /\ \E n \in Slots :
                /\ IsNextSlot(n)
                /\ rows' = [i \in DOMAIN rows \cup {n} |->
                               IF i = n THEN Counted(sessions[sid], NewRow(sid, r), r)
                               ELSE rows[i]]
       \/ \E i \in DOMAIN rows :
             /\ IsLast(i, same)
             /\ Bounded(Counted(sessions[sid], rows[i], r))
             /\ rows' = [rows EXCEPT ![i] = Counted(sessions[sid], @, r)]
    /\ UNCHANGED <<seq, sessions, closed, tasks>>

dequeue(sid, r) ==
    /\ live(sid)
    /\ \E i \in DOMAIN rows :
          /\ IsFirst(i, {j \in DOMAIN rows : Matches(sid, rows[j], r)})
          /\ rows' = sweep([rows EXCEPT ![i] = Uncounted(sessions[sid], @, r)])
    /\ UNCHANGED <<seq, sessions, closed, tasks>>

dequeueAll(sid) ==
    /\ live(sid)
    /\ rows' = release(sid)
    /\ UNCHANGED <<seq, sessions, closed, tasks>>

rollback(sid) ==
    /\ live(sid)
    /\ seq + 1 <= MaxSeq
    /\ rows' = releaseUpdate(sid, sessions[sid].update)
    /\ seq' = seq + 1
    /\ sessions' = WithUpdateOwner(sid, seq + 1)
    /\ UNCHANGED <<closed, tasks>>

\* COMMIT WORK with an update registered: the owner that ends is returned and
\* stays with the update task, as the caller of commit keeps it for updateDone.
commit(sid) ==
    /\ live(sid)
    /\ seq + 1 <= MaxSeq
    /\ tasks' = tasks \cup {<<sid, sessions[sid].update>>}
    /\ seq' = seq + 1
    /\ sessions' = WithUpdateOwner(sid, seq + 1)
    /\ UNCHANGED <<rows, closed>>

\* The update has run, or has failed; its session may be gone by now.
updateDone(t) ==
    /\ t \in tasks
    /\ tasks' = tasks \ {t}
    /\ rows' = IF closed THEN rows ELSE releaseUpdate(t[1], t[2])
    /\ UNCHANGED <<seq, sessions, closed>>

\* Mutant of end: the session is deleted first, and release then knows no session.
EndForgets(sid) ==
    /\ sid \in DOMAIN sessions
    /\ sessions' = [s \in DOMAIN sessions \ {sid} |-> sessions[s]]
    /\ UNCHANGED <<seq, rows, closed, tasks>>

end(sid) ==
    /\ sid \in DOMAIN sessions
    /\ rows' = IF closed THEN rows ELSE release(sid)
    /\ sessions' = [s \in DOMAIN sessions \ {sid} |-> sessions[s]]
    /\ UNCHANGED <<seq, closed, tasks>>

close ==
    /\ ~closed
    /\ closed' = TRUE
    /\ UNCHANGED <<seq, sessions, rows, tasks>>

SessionStep(sid) ==
    \/ \E r \in Request : enqueue(sid, r) \/ dequeue(sid, r)
    \/ dequeueAll(sid)
    \/ rollback(sid)
    \/ commit(sid)
    \/ end(sid)

Next ==
    \/ open
    \/ \E sid \in DOMAIN sessions : SessionStep(sid)
    \/ \E t \in tasks : updateDone(t)
    \/ close

Spec == Init /\ [][Next]_vars

-----------------------------------------------------------------------------
(* Properties *)

TypeOK ==
    /\ seq \in Nat
    /\ DOMAIN sessions \subseteq Nat
    /\ \A sid \in DOMAIN sessions : sessions[sid] \in Session
    /\ sessions = [sid \in DOMAIN sessions |-> sessions[sid]]
    /\ DOMAIN rows \subseteq Slots
    /\ \A i \in DOMAIN rows : rows[i] \in Row
    /\ rows = [i \in DOMAIN rows |-> rows[i]]
    /\ closed \in BOOLEAN
    /\ tasks \subseteq Nat \X Nat

Overlap(v, w) == v.table = w.table /\ collide(v.arg, w.arg)

\* Two sessions never hold locks on a common key unless both locks are shared
\* (tryEnqueue's 601), whatever was counted on an old row, passed on to an
\* update task or left behind by a session that ended meanwhile.
SessionExclusion ==
    \A i, j \in DOMAIN rows :
        Overlap(rows[i], rows[j]) /\ rows[i].session # rows[j].session
            => shared(rows[i].mode) /\ shared(rows[j].mode)

\* An X lock stands alone: no other row touches its key, not even one of the
\* same session (602), and it is never counted twice.
ExclusiveAlone ==
    \A i \in DOMAIN rows :
        rows[i].mode = "X" =>
            /\ rows[i].dialogs <= 1 /\ rows[i].updates <= 1
            /\ \A j \in DOMAIN rows : Overlap(rows[i], rows[j]) => i = j

\* No lock outlives everyone who could release it: a row holds a half; a dialog
\* half is the one of an open session; an update half is the one of an open
\* session's current LUW or of an update task that has yet to report (end
\* leaves the task's half for updateDone).
DialogHalfOwned(w) ==
    w.dialogs > 0 =>
        /\ w.session \in DOMAIN sessions
        /\ w.dialog = sessions[w.session].dialog
UpdateHalfOwned(w) ==
    w.updates > 0 =>
        \/ /\ w.session \in DOMAIN sessions
           /\ w.update = sessions[w.session].update
        \/ <<w.session, w.update>> \in tasks
NoOrphanLock ==
    ~closed => \A i \in DOMAIN rows :
                  Kept(rows[i]) /\ DialogHalfOwned(rows[i]) /\ UpdateHalfOwned(rows[i])

\* While an update task runs, its locks are another owner's to everybody, the
\* session that committed included: nobody is granted a lock that is not
\* compatible with them before updateDone.
UpdateTaskProtected ==
    \A t \in tasks, i \in DOMAIN rows, sid \in DOMAIN sessions, r \in Request :
        /\ rows[i].session = t[1] /\ rows[i].updates > 0 /\ rows[i].update = t[2]
        /\ Touches(rows[i], r)
        /\ ~shared(rows[i].mode) \/ ~shared(r.mode)
        => Answer(sid, r) # "granted"

\* No two owners share an id, and every id was given out: what makes comparing
\* owners, as owns and releaseUpdate do, the same as comparing sessions.
OwnersDistinct ==
    /\ \A sid \in DOMAIN sessions :
          /\ sid <= seq /\ sessions[sid].update <= seq
          /\ sessions[sid].dialog = sid + 1
    /\ \A s1, s2 \in DOMAIN sessions :
          s1 # s2 => sessions[s1].update # sessions[s2].update
    /\ \A t \in tasks :
          /\ t[2] <= seq
          /\ \A sid \in DOMAIN sessions : t[2] # sessions[sid].update

\* The table is sound: distinct owners, no lock without one, exclusion between sessions
\* and X alone hold together after every operation. This is the inductive invariant from
\* which EnqProofs proves the properties above.
IInv == TypeOK /\ OwnersDistinct /\ NoOrphanLock /\ SessionExclusion /\ ExclusiveAlone
=============================================================================
