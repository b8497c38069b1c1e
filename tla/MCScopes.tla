-------------------------------- MODULE MCScopes --------------------------------
(***************************************************************************)
(* Patterns like src, src/a.b, src/**, a*, and paths of the same kind.     *)
(***************************************************************************)
EXTENDS Scopes

PatternNames == {<<"n">>, <<"n", "n">>, <<"n", ".">>, <<"*">>, <<"*", "*">>, <<"n", "*">>, <<"*", ".">>}
PathNames    == {<<"n">>, <<"n", "n">>, <<"n", ".">>}
=================================================================================
