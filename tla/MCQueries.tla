------------------------------ MODULE MCQueries ------------------------------
(***************************************************************************)
(* Small instances of Queries for TLC.                                     *)
(***************************************************************************)
EXTENDS MCFlashSale, Queries

CONSTANTS q1, q2, l1, l2

QuerySymmetry == Permutations(Request) \cup Permutations(StatusQuery)
                   \cup Permutations(Lookup)

=============================================================================
