------------------------- MODULE ActivationJournal --------------------------
(***************************************************************************)
(* The publication tickets of the source host: class ActivationJournal of  *)
(* tools/osd-activation-journal.mjs. A journal is what the object holds in *)
(* memory; every operation gives the journal it leaves and the files it    *)
(* writes, in their order. Module ObjectStore does the writes one at a     *)
(* time, and the process may die between any two of them.                  *)
(*                                                                         *)
(* op stands for the random op_id. Times, notes, issues, the generation a  *)
(* ticket names, and the pruning of completed tickets after a day are left *)
(* out.                                                                    *)
(***************************************************************************)
EXTENDS Integers, Sequences, FiniteSets

CONSTANTS Objects,   \* "TYPE NAME" of the objects
          None       \* undefined, where an object or an outcome would stand

ASSUME ObjectsAssumption == None \notin Objects /\ IsFiniteSet(Objects)

Ticket == [op : Nat, obj : Objects, seq : Nat, state : {"checked", "pending", "published", "failed"}]
Outcome == [op : Nat, seq : Nat, outcome : {"published", "failed"}]

\* deleted is deleted_through, -1 where there is none.
Attempts == [sequence : Nat, deleted : Nat \cup {-1}]

ASSUME NothingAssumption == None \notin Outcome /\ None \notin Nat

NewJournal ==
    [attempts |-> [o \in Objects |-> [sequence |-> 0, deleted |-> -1]],
     outcomes |-> [o \in Objects |-> None],
     entries  |-> {}]

Completed(t) == t.state \in {"published", "failed"}

\* A file of the journal as it is saved.
Saved(j, part) == [part |-> part, obj |-> None, value |-> j[part]]

\* What an operation leaves: the journal, and the files in the order it writes them.
Leaves(j, parts) == [journal |-> j, writes |-> [i \in DOMAIN parts |-> Saved(j, parts[i])]]

\* The object was deleted since, or an attempt that started later has ended.
Outdated(j, t) ==
    \/ j.attempts[t.obj].deleted >= t.seq
    \/ j.outcomes[t.obj] # None /\ j.outcomes[t.obj].seq > t.seq

\* The outcome of the attempt that started last, and of none before a delete.
rememberOutcome(j, t) ==
    IF Outdated(j, t) THEN j
    ELSE [j EXCEPT !.outcomes[t.obj] = [op |-> t.op, seq |-> t.seq, outcome |-> t.state]]

\* The counter is saved before the ticket that has its number.
create(j, o, op) ==
    LET seq == j.attempts[o].sequence + 1 IN
    Leaves([j EXCEPT !.attempts[o].sequence = seq,
                     !.entries = @ \cup {[op |-> op, obj |-> o, seq |-> seq, state |-> "checked"]}],
           <<"attempts", "entries">>)

\* A ticket that is completed stays as it is. A final state is an outcome first.
update(j, op, state) ==
    LET old == CHOOSE t \in j.entries : t.op = op
        new == [old EXCEPT !.state = state]
        changed == [j EXCEPT !.entries = (@ \ {old}) \cup {new}] IN
    IF Completed(old) THEN Leaves(j, <<>>)
    ELSE IF Completed(new) THEN Leaves(rememberOutcome(changed, new), <<"outcomes", "entries">>)
    ELSE Leaves(changed, <<"entries">>)

\* A fence after every attempt for these objects, and no outcome.
Fenced(j, gone) ==
    [j EXCEPT !.attempts = [o \in Objects |->
                  IF o \in gone THEN [sequence |-> @[o].sequence + 1, deleted |-> @[o].sequence + 1] ELSE @[o]],
              !.outcomes = [o \in Objects |-> IF o \in gone THEN None ELSE @[o]]]

\* The fence first, then the outcome.
forgetObject(j, o) == Leaves(Fenced(j, {o}), <<"attempts", "outcomes">>)

\* Objects that went without a delete(): by Git, or by a process that died in one.
Forgettable(j, missing) ==
    {o \in missing : /\ j.attempts[o].sequence > 0
                     /\ j.attempts[o].deleted # j.attempts[o].sequence \/ j.outcomes[o] # None}

\* One operation behind another.
Then(done, next) == [journal |-> next.journal, writes |-> done.writes \o next.writes]

\* forgetObject of one object after the other, in this order.
forgetMissingObjects(j, order) ==
    LET after(n) == Fenced(j, {order[k] : k \in 1 .. n}) IN
    [journal |-> after(Len(order)),
     writes  |-> [i \in 1 .. 2 * Len(order) |->
                     IF i % 2 = 1 THEN Saved(after((i + 1) \div 2), "attempts") ELSE Saved(after(i \div 2), "outcomes")]]

\* Mutant of Recovered: what was pending stays so.
RecoveredPending(j) == j

\* The tickets a dead process left end, in failure, and each is an outcome like any other:
\* the last attempt of an object stays.
Recovered(j) ==
    LET ended == {IF Completed(t) THEN t ELSE [t EXCEPT !.state = "failed"] : t \in j.entries}
        remembered(o) == {t \in ended \ j.entries : t.obj = o /\ ~Outdated(j, t)}
        last(o) == CHOOSE t \in remembered(o) : \A u \in remembered(o) : u.seq <= t.seq IN
    [j EXCEPT !.entries = ended,
              !.outcomes = [o \in Objects |->
                  IF remembered(o) = {} THEN @[o]
                  ELSE [op |-> last(o).op, seq |-> last(o).seq, outcome |-> "failed"]]]

\* The constructor: counters reach past what the tickets and outcomes say, an outcome
\* behind a fence goes, then what was pending ends.
open(files) ==
    LET seqs(o) == {t.seq : t \in {u \in files.entries : u.obj = o}}
                   \cup (IF files.outcomes[o] = None THEN {} ELSE {files.outcomes[o].seq})
        top(o) == CHOOSE n \in seqs(o) \cup {files.attempts[o].sequence} :
                      \A m \in seqs(o) \cup {files.attempts[o].sequence} : m <= n
        counted == [files EXCEPT !.attempts = [o \in Objects |-> [@[o] EXCEPT !.sequence = top(o)]]]
        fenced == [counted EXCEPT !.outcomes =
            [o \in Objects |-> IF @[o] # None /\ counted.attempts[o].deleted >= @[o].seq THEN None ELSE @[o]]] IN
    Leaves(Recovered(fenced), <<"attempts", "outcomes", "entries">>)
=============================================================================
