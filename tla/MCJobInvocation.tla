-------------------------- MODULE MCJobInvocation --------------------------
(* Instances of JobInvocation for TLC. *)
EXTENDS JobInvocation

OneJob == {<<"a">>}
NoJob == {<<>>}
GrowShrink == {<<"a", "b">>, <<"a">>}
=============================================================================
