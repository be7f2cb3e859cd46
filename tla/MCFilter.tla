------------------------------ MODULE MCFilter ------------------------------
(* The filter for TLC: two names, one a prefix of the other as text, alone *)
(* and nested.                                                             *)
EXTENDS Filter

A == <<"a">>
AB == <<"a", "b">>

MCPaths == {<<A>>, <<AB>>, <<A, A>>, <<A, AB>>}

=============================================================================
