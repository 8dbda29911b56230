-------------------------------- MODULE MCBot --------------------------------
(***************************************************************************)
(* Small instances of Bot: a player and a spammer (the configurations give *)
(* KeepModes).                                                             *)
(***************************************************************************)
EXTENDS Bot
=============================================================================
