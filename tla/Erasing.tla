------------------------------ MODULE Erasing -------------------------------
(***************************************************************************)
(* A container without some of its elements, the others in their order: a  *)
(* loop over it with erase().  In closed form, so that what it yields can  *)
(* be proved.                                                              *)
(***************************************************************************)
EXTENDS Naturals, Sequences, FiniteSets

(* The places of s that are not erased *)
Remaining(s, S) == {i \in 1..Len(s) : s[i] \notin S}

(* How many of them there are up to place i *)
Rank(s, S, i) == Cardinality({j \in Remaining(s, S) : j <= i})

Erased(s, S) ==
    [k \in 1..Cardinality(Remaining(s, S)) |-> s[CHOOSE i \in Remaining(s, S) : Rank(s, S, i) = k]]
=============================================================================
