--------------------------- MODULE MCCliBuilder ---------------------------
(***************************************************************************)
(* Calls on two Cli builders and on command builders, in every order.      *)
(***************************************************************************)
EXTENDS CliBuilder, TLC

MCSymmetry == Permutations(Builders)

\* One command below the default, and a path that is refused.
MCPaths == {<<"">>, <<"do">>, <<"do", "">>}

\* An option that takes the name of the help option, and one with its key that
\* has no value semantics.
MCOptions == {Option("usage", "h", "help", TRUE), Option("help", "u", "", FALSE)}

MCGroup == <<Option("version", "", "version", TRUE), Option("size", "s", "size", TRUE)>>

=============================================================================
