------------------------------ MODULE MCRunStore ------------------------------
(* Submission: two ids, two keys and two inputs, so that either key of the   *)
(* table can collide alone.  Life of a run: two ids that compete for one     *)
(* key, and every outcome.                                                   *)
EXTENDS RunStore, TLC

CONSTANTS w1, w2, id1, id2, k1, k2, i1, i2

MCKeyOf1 == i1 :> k1
MCKeyOf2 == (i1 :> k1) @@ (i2 :> k2)
Symmetry == Permutations(Workers) \union Permutations(Ids)
===============================================================================
