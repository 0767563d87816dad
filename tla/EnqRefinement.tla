---------------------------- MODULE EnqRefinement ----------------------------
(***************************************************************************)
(* The lock table (Enq) as an implementation of the owners' bags           *)
(* (EnqOwners): the halves of all rows, added up by owner, table, argument *)
(* and mode, are the locks held.                                           *)
(***************************************************************************)
EXTENDS Enq

DialogHalf(w) == <<w.dialog, w.table, w.arg, w.mode>>
UpdateHalf(w) == <<w.update, w.table, w.arg, w.mode>>

\* The counts of all halves of a table of rows, one by one.
Singles(t) ==
    UNION {({DialogHalf(t[i])} \X {i} \X (1 .. t[i].dialogs))
              \cup ({UpdateHalf(t[i])} \X {i} \X (1 .. t[i].updates)) : i \in DOMAIN t}

\* The bag of the halves in a set of single counts.
BagOf(singles) ==
    [k \in {c[1] : c \in singles} |-> Cardinality({c \in singles : c[1] = k})]

Held == BagOf(Singles(rows))

Owners == INSTANCE EnqOwners WITH held <- Held

\* tryEnqueue, which looks at rows and their sessions, refuses nothing the owners'
\* bags allow and grants nothing they forbid.
GrantsByOwners ==
    \A sid \in DOMAIN sessions, r \in Request :
        ~closed => (Answer(sid, r) = "granted" <=> Owners!Grantable(sid, r))

\* Every operation on the table does to the owners' bags what the contract says:
\* whatever row tryEnqueue counts on and dequeue finds first, a granted lock is
\* compatible with all the owners hold, one DEQUEUE gives back at most one count
\* of each half it names, and COMMIT, ROLLBACK, updateDone and end touch no other
\* owner's locks; and no lock is refused that the bags allow.
ImplementsOwners == Owners!Spec /\ []GrantsByOwners
==============================================================================
