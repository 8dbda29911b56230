---------------------------- MODULE MCTankClient ----------------------------
(***************************************************************************)
(* A small instance of TankClient: a client that keeps its replies, or one *)
(* that only counts them.                                                  *)
(***************************************************************************)
EXTENDS TankClient
=============================================================================
