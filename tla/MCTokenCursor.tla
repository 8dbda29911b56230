---------------------------- MODULE MCTokenCursor ----------------------------
(***************************************************************************)
(* A small instance of TokenCursor: an array of 2 tokens that is           *)
(* reallocated at the third and the fifth.                                 *)
(***************************************************************************)
EXTENDS TokenCursor
=============================================================================
