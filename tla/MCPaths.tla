------------------------------ MODULE MCPaths ------------------------------
(* An instance of Paths for TLC. *)
EXTENDS Paths, TLC

CONSTANTS p1, p2

OneLetter == {"a"}

(* An element, a longer one that begins alike, and one that is invalid. *)
SomeElements == {<<"a">>, <<"a", "a">>, <<"a", "/">>}

SomeArguments == {<<"/", "a">>, <<"/", "a", "/", "a", "a">>, <<"a">>}

Symmetric == Permutations({p1, p2})
=============================================================================
