---------------------------- MODULE MCToolchain ----------------------------
(***************************************************************************)
(* A small instance of Toolchain: a source of 4 bytes, a pipe of 3 and a   *)
(* buffer of 2; a program of one function before, and one of two functions *)
(* and two constants, one of them negative, with a name that has no room.  *)
(***************************************************************************)
EXTENDS Toolchain

MCOld == [consts |-> << >>, entry |-> 0,
          funcs |-> <<[name |-> <<109>>, nparams |-> 0, nlocals |-> 0, code |-> <<20>>]>>]

MCNew == [consts |-> <<[tag |-> 0, value |-> 70000], [tag |-> 0, value |-> -2]>>, entry |-> 1,
          funcs |-> <<[name |-> <<102, 111, 111>>, nparams |-> 1, nlocals |-> 300,
                       code |-> <<2, 0, 0, 20>>],
                      [name |-> <<109>>, nparams |-> 0, nlocals |-> 0,
                       code |-> <<0, 1, 0, 0, 0, 20>>]>>]
=============================================================================
