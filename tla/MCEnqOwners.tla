----------------------------- MODULE MCEnqOwners -----------------------------
(***************************************************************************)
(* The lock server on one key, and the table of rows as an implementation  *)
(* of the owners' bags.                                                    *)
(***************************************************************************)
EXTENDS EnqRefinement

Exactly(v) == [generic |-> FALSE, value |-> <<v>>, length |-> 1]

\* One key: which arguments collide is MCEnqArg's subject.
OneKey == {<<Exactly("a")>>}
==============================================================================
