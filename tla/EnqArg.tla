------------------------------- MODULE EnqArg -------------------------------
(***************************************************************************)
(* The argument of a lock (tools/osd-enq.mjs, garg and collide).           *)
(*                                                                         *)
(* A request names its key as a list of fields of fixed length, each with  *)
(* a value or generic. garg lays them out in one string in which U+FFFF    *)
(* stands in every position of a generic field, and collide compares two   *)
(* such strings position by position. Characters are members of a small    *)
(* set; what matters is which are blank and which are U+FFFF. The client,  *)
(* a prefix of every argument, is left to the table name (module Enq): two *)
(* arguments are only ever compared within one client and table.           *)
(***************************************************************************)
EXTENDS Integers, Sequences, SequencesExt

Blank   == " "
AnyChar == "U+FFFF"     \* matches whatever stands in the other argument

\* `.replace(/ +$/, "")`
TrimRight(a) ==
    SubSeq(a, 1, Max({0} \cup {i \in DOMAIN a : a[i] # Blank}))

\* One field at its length: cut, or filled with blanks.
Laid(f) ==
    [i \in 1 .. f.length |-> IF f.generic THEN AnyChar
                             ELSE IF i <= Len(f.value) THEN f.value[i] ELSE Blank]

garg(fields) == TrimRight(FlattenSeq([i \in DOMAIN fields |-> Laid(fields[i])]))

\* A position an argument does not have is a blank.
At(a, i) == IF i \in DOMAIN a THEN a[i] ELSE Blank

Exact(a) == \A i \in DOMAIN a : a[i] # AnyChar

\* Mutant of collide: only the positions both arguments have are compared.
CollideOnCommonLength(a, b) ==
    \A i \in DOMAIN a \cap DOMAIN b :
        At(a, i) = At(b, i) \/ At(a, i) = AnyChar \/ At(b, i) = AnyChar

\* Exact arguments are compared as strings, the others position by position.
collide(a, b) ==
    IF Exact(a) /\ Exact(b)
    THEN TrimRight(a) = TrimRight(b)
    ELSE \A i \in DOMAIN a \cup DOMAIN b :
            At(a, i) = At(b, i) \/ At(a, i) = AnyChar \/ At(b, i) = AnyChar
=============================================================================
