------------------------------ MODULE Ascending ------------------------------
(***************************************************************************)
(* The numbers of a finite set from the smallest to the largest.  The      *)
(* definition gives each position its element by counting the smaller      *)
(* ones, so that what it lists can be reasoned about without recursion.    *)
(***************************************************************************)
EXTENDS Integers, FiniteSets

\* The elements of S with i - 1 smaller ones in S: one for each i up to the size of S.
Ranked(S, i) == {x \in S : Cardinality({y \in S : y < x}) = i - 1}

Chosen(T) == CHOOSE x \in T : TRUE

Ascending(S) == [i \in 1..Cardinality(S) |-> Chosen(Ranked(S, i))]

\* Each element is larger than those before it.
Increasing(s) == \A i, j \in DOMAIN s : i < j => s[i] < s[j]
=============================================================================
