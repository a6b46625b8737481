---------------------------- MODULE MCObjectTree ----------------------------
(* Instances of ObjectTree for TLC. *)
EXTENDS ObjectTree, TLC

CONSTANTS s1, s2, s3, c1, c2, a, b, v1, v2

Symmetric == Permutations({s1, s2, s3}) \cup Permutations({c1, c2})
               \cup Permutations({a, b})
=============================================================================
