------------------------------- MODULE Tally -------------------------------
(***************************************************************************)
(* The sum of a finite family of naturals, written as a count so that the  *)
(* theorems on finite sets apply to it (see TallyTheorems): the number of  *)
(* pairs of an index x and a unit of f[x].                                 *)
(***************************************************************************)
EXTENDS Integers, FiniteSets

Units(f, S) == UNION {{x} \X (1 .. f[x]) : x \in S}

Tally(f) == Cardinality(Units(f, DOMAIN f))
=============================================================================
