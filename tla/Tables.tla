------------------------------- MODULE Tables -------------------------------
(***************************************************************************)
(* The fixed-size arrays with a count that every part of the master and    *)
(* the worker keeps its records in: linear search for the first match, and *)
(* removal of a slot by moving the later ones down (memmove or a loop).    *)
(***************************************************************************)
EXTENDS Integers, Sequences, FiniteSets

(* The index at which a linear search for the indices S stops. *)
First(S) == CHOOSE i \in S : \A j \in S : i <= j

(* Mutant: keeps the slot and loses the next one. *)
Remove_NextSlot(s, c) ==
  [i \in 1..(Len(s) - 1) |-> IF i <= c THEN s[i] ELSE s[i + 1]]

(* Table s without slot c. *)
Remove(s, c) ==
  [i \in 1..(Len(s) - 1) |-> IF i < c THEN s[i] ELSE s[i + 1]]

(* Table s with only the slots K, moved together in their order: the i-th  *)
(* slot is the one of K that i slots of K do not exceed.                   *)
Rank(K, j) == Cardinality({k \in K : k <= j})
Compact(s, K) ==
  [i \in 1..Cardinality(K) |-> s[CHOOSE j \in K : Rank(K, j) = i]]

(* The sum of the natural numbers f[x], x in S: as many as there are pairs *)
(* of an x and one of its units.                                           *)
Units(f, S) == UNION {{x} \X (1..f[x]) : x \in S}
Total(f, S) == Cardinality(Units(f, S))

(* Unsigned subtraction that the code guards with a comparison. *)
Saturating(a, b) == IF a > b THEN a - b ELSE 0
=============================================================================
