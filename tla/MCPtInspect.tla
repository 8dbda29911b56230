---------------------------- MODULE MCPtInspect ----------------------------
(***************************************************************************)
(* A small instance of PtInspect: three levels of two entries, four        *)
(* frames that are allocated and one that is not, and the words that are   *)
(* different for the visitor: references, leaves, and a leaf whose frame   *)
(* is not allocated, each of which may turn up at any level.  Every table  *)
(* a program or a bug can build of these words is inspected.               *)
(***************************************************************************)
EXTENDS PtInspect

MCWords ==
  {[frame |-> 0, flags |-> {}]}
  \cup {[frame |-> f, flags |-> {"V"}] : f \in 0 .. 2}
  \cup {[frame |-> f, flags |-> {"V", "R"}] : f \in {0, 3, 4}}
=============================================================================
