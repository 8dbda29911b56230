---------------------------- MODULE MCTraceDriver ----------------------------
(***************************************************************************)
(* A small instance of TraceDriver, whose names are interchangeable, and   *)
(* the lines it is given, in numbers of six bits.                          *)
(***************************************************************************)
EXTENDS TraceDriver

Interchangeable == Permutations(Names)

MCTypedTokens == {<<"a">>, <<"a", "+", "1">>, <<"r", "w">>, <<"-">>}
=============================================================================
