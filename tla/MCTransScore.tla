---------------------------- MODULE MCTransScore ----------------------------
(***************************************************************************)
(* A small instance of TransScore - three functions, either kind of shell, *)
(* caches that csim accepts and some that it does not - and tracegen on    *)
(* every pair of matrices of up to six ones and zeros.                     *)
(***************************************************************************)
EXTENDS TransScore

MCCaches ==
  {[s |-> 3, E |-> 1, b |-> 2, policy |-> p] : p \in {"lru", "fifo", "mru"}}
    \cup {[s |-> 0, E |-> E, b |-> b, policy |-> "lru"] : E \in {0, 1}, b \in {-1, 2}}
=============================================================================
