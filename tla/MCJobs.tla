------------------------------- MODULE MCJobs --------------------------------
(* Small sets of jobs for TLC. *)
EXTENDS Jobs, TLC

CONSTANTS a, b, c

Event == <<"event", "x">>

Nothing == [j \in Jobs |-> None]
NoEvent == [j \in Jobs |-> {}]

\* a waits for an event, has two steps and raises the event again at its end; b is
\* chained behind a; c is a local run, without step rows.
ChainSteps   == [j \in Jobs |-> CASE j = a -> 2 [] j = c -> 0 [] OTHER -> 1]
ChainAfter   == [j \in Jobs |-> IF j = b THEN a ELSE None]
ChainAccepts == [j \in Jobs |-> IF j = a THEN {Event} ELSE {}]
ChainTail    == [j \in Jobs |-> IF j = a THEN Event ELSE None]

\* a is periodic: its release makes b.
PeriodSucc == [j \in Jobs |-> IF j = a /\ b \in Jobs THEN b ELSE None]
OneStep    == [j \in Jobs |-> 1]

ProcSymmetry == Permutations(Procs)
==============================================================================
