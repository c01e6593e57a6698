------------------------------- MODULE InOrder -------------------------------
(***************************************************************************)
(* Finite sets in the order of numbers their members have.                 *)
(*                                                                         *)
(* How many members come before is the place of a member, so that what     *)
(* holds of the order follows from cardinalities, without an induction.    *)
(***************************************************************************)
EXTENDS Naturals, FiniteSets

\* How many members of S come before s.
Rank(S, key, s) == Cardinality({t \in S : key[t] < key[s]})

\* The members of S in the order of their keys.
ByKey(S, key) ==
  [k \in 1..Cardinality(S) |-> CHOOSE s \in S : Rank(S, key, s) = k - 1]

\* The members of a set of numbers.
Ascending(S) == ByKey(S, [i \in S |-> i])

\* What seq has at the positions S, in order.
Selected(seq, S) ==
  LET ascending == Ascending(S)
  IN [k \in 1..Cardinality(S) |-> seq[ascending[k]]]

=============================================================================
