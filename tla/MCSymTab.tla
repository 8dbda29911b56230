------------------------------ MODULE MCSymTab ------------------------------
(***************************************************************************)
(* Small instances of SymTab.  The capacity starts at 4, so that a handful *)
(* of declarations makes the table grow twice (4, 8, 16).  The two names   *)
(* share their home slot in the first array, next to its end: chains wrap. *)
(***************************************************************************)
EXTENDS SymTab

MCNames == {"x", "y"}
MCHash  == [n \in MCNames |-> IF n = "x" THEN 3 ELSE 7]

=============================================================================
