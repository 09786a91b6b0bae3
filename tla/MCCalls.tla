------------------------------- MODULE MCCalls -------------------------------
(* -a and --a, -s and --s, the latter two with a value. *)
EXTENDS Calls

KnownOptions == {<<"a">>, <<"s">>}
ValueOptions == {<<"s">>}
=============================================================================
