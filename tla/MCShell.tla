------------------------------ MODULE MCShell ------------------------------
(***************************************************************************)
(* The shell with a small job list, and parseline on every line of up to   *)
(* two of these arguments.                                                 *)
(***************************************************************************)
EXTENDS Shell

MCWords == {<< >>, <<"a">>, <<"a", " ", "a">>, <<"&">>, <<"&", "a">>,
            <<"a", "&">>, <<"a", "'">>}
=============================================================================
