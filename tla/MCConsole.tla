----------------------------- MODULE MCConsole -----------------------------
(* Console for TLC. *)
EXTENDS Console, TLC

MCMessages == {<<"a">>, <<"LF">>, <<"BS">>, <<"CR">>, <<"HT">>, <<"ctl">>}
MCPanics == {<<"a">>}
Symmetry == Permutations(Tasks)
=============================================================================
