-------------------------------- MODULE Svm ---------------------------------
(***************************************************************************)
(* The stack machine running what Compile makes of a program - Loaded is   *)
(* Image - compared with what the program means.                           *)
(***************************************************************************)
EXTENDS Machine, Compile

LOCAL INSTANCE Meaning

-----------------------------------------------------------------------------
(* Properties.                                                             *)

(* The compiled program prints what the program means, in order, and it    *)
(* ends the way the program does, unless its stack is too small.           *)
Meant == [P \in Sources |-> Outcome(P)]

Agrees(meant) ==
  /\ IsPrefix(out, meant.out)
  /\ status \in {"done", "died"} =>
       /\ out = meant.out
       /\ (status = "died") = meant.dead

EndsAsMeant == Agrees(Meant[src])

(* No jump leads into an endless loop: a program that ends when it is read *)
(* ends when it is run (every program in Sources does).                   *)
Ends == <>(status # "running")
=============================================================================
