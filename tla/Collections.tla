------------------------------ MODULE Collections ------------------------------
(***************************************************************************)
(* Numbers in order, the part of a list at some of its places, and what is *)
(* reached: what the passes do with a BTreeSet of nodes, with filter on a  *)
(* Vec, and with a worklist.                                               *)
(***************************************************************************)
EXTENDS Integers, SequencesExt

\* The members of a finite set of numbers, the least first.
Ascending(S) ==
  [i \in 1..Cardinality(S) |-> CHOOSE n \in S : Cardinality({m \in S : m < n}) = i - 1]

\* The elements of s at the places I.
Picked(s, I) ==
  LET place == Ascending(I) IN [i \in 1..Cardinality(I) |-> s[place[i]]]

\* What is reached from the set E by steps, a set of pairs.
Reached(steps, E) ==
  LET more[i \in 0..Cardinality(steps)] ==
        IF i = 0 THEN E
        ELSE LET before == more[i - 1]
             IN before \cup {s[2] : s \in {q \in steps : q[1] \in before}}
  IN more[Cardinality(steps)]
=============================================================================
