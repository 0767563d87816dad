------------------------------ MODULE EnqKeys --------------------------------
(***************************************************************************)
(* garg and collide against what they mean: the concrete keys an argument  *)
(* stands for. The state is a pair of requests' field lists on one table.  *)
(***************************************************************************)
EXTENDS EnqArg

CONSTANTS Char,      \* the characters of a key
          Lengths,   \* the lengths of the table's key fields
          Excess     \* bound: by how much a value is longer than its field

\* U+FFFF stands for "any character" because no key holds it; it is no character
\* of Unicode text.
ASSUME CharAssumption == AnyChar \notin Char
\* The key fields of a dictionary table have at least one position.
ASSUME LengthsAssumption == Lengths \in Seq(Nat \ {0})
ASSUME ExcessAssumption == Excess \in Nat

VARIABLES one, other
pair == <<one, other>>

Field(len) ==
    {f \in [generic : BOOLEAN, value : BoundedSeq(Char, len + Excess), length : {len}] :
        f.generic => f.value = <<>>}

Lists == {fs \in [DOMAIN Lengths -> UNION {Field(Lengths[i]) : i \in DOMAIN Lengths}] :
             \A i \in DOMAIN Lengths : fs[i].length = Lengths[i]}

\* Every pair is reached by one step from the pair of equal requests.
PairInit == one \in Lists /\ other = one
PairNext == other = one /\ other' \in Lists /\ UNCHANGED one
PairSpec == PairInit /\ [][PairNext]_pair

\* The value of a field in the key: its characters, cut or filled to the length.
Fixed(f) == [i \in 1 .. f.length |-> IF i <= Len(f.value) THEN f.value[i] ELSE Blank]

Covers(fs, key) == \A i \in DOMAIN fs : fs[i].generic \/ key[i] = Fixed(fs[i])

FieldValues(len) == [1 .. len -> Char \cup {Blank, "other"}]
FullKeys == {key \in [DOMAIN Lengths -> UNION {FieldValues(Lengths[i]) : i \in DOMAIN Lengths}] :
                \A i \in DOMAIN Lengths : DOMAIN key[i] = 1 .. Lengths[i]}

\* Two arguments collide exactly when some key of the table is covered by both
\* requests: nothing is lost by the blanks garg trims, the values it cuts, or the
\* shortcut collide takes for exact arguments.
CollideIsCommonKey ==
    collide(garg(one), garg(other)) <=> \E key \in FullKeys : Covers(one, key) /\ Covers(other, key)
==============================================================================
