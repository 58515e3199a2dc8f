------------------------------ MODULE MCStore ------------------------------
(***************************************************************************)
(* Small instances of Store for TLC.  Ids are an interval whose end stands *)
(* for i64::MAX; the bounds are named here and given in the .cfg files.    *)
(***************************************************************************)
EXTENDS Store, TLC

CONSTANT LastId         \* bound: the greatest id

MCIds == 1..LastId

Symmetry == Permutations(Savers) \cup Permutations(Readers)
=============================================================================
