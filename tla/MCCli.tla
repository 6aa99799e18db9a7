------------------------------- MODULE MCCli -------------------------------
(***************************************************************************)
(* Two calls in a row on a Cli as CliBuilder makes it: with the help and   *)
(* version commands and options, or with neither and no default command.   *)
(***************************************************************************)
EXTENDS Cli, TLC

MCTexts == {"a", "b", "do", "it", "help", "version", "f", "h", "v", "n", "l",
            "flag", "name", "level", "-", "--", "="}

MCKeys == {"flag", "name", "level", "help", "version", "first", key_rest}

Named(key, short, accepts, implicit, default, repeatable, required) ==
  [key |-> key, short |-> short, long |-> key, accepts |-> accepts,
   implicit |-> implicit, default |-> default, repeatable |-> repeatable,
   required |-> required]

Positional(key, default, required) ==
  [key |-> key, short |-> "", long |-> "",
   accepts |-> {"a", "b", "do", "it", "help", "version"}, implicit |-> FALSE,
   default |-> default, repeatable |-> FALSE, required |-> required]

Flag    == Named("flag", "f", {}, TRUE, FALSE, FALSE, FALSE)
Name    == Named("name", "n", {"a", "b"}, FALSE, FALSE, FALSE, TRUE)
Level   == Named("level", "l", {"a"}, TRUE, TRUE, TRUE, FALSE)
Help    == Named("help", "h", {}, TRUE, FALSE, FALSE, FALSE)
Version_ == Named("version", "v", {}, TRUE, FALSE, FALSE, FALSE)
Rest    == Positional(key_rest, FALSE, FALSE)
Command(path, options, positionals) ==
  [path |-> path, options |-> options, positionals |-> positionals]

\* As Build() leaves them: the default command first, the help option before
\* a command's own, the version option before that in the default command.
MCWithHelp ==
  { << Command(<<"">>, <<Version_, Help, Flag>>, <<Rest>>),
       Command(<<"do">>, <<Help, Name>>, <<>>),
       Command(<<"do", "it">>, <<Help, Level>>, <<Rest>>),
       Command(<<"version">>, <<Help>>, <<>>),
       Command(<<"help">>, <<Help>>, <<Rest>>) >> }

\* No default command: nothing resets the active command between the calls.
MCWithoutDefault ==
  { << Command(<<"do">>, <<Level>>, <<Rest>>),
       Command(<<"it">>, <<Name, Flag>>, <<>>) >> }

MCCLIs == MCWithHelp \cup MCWithoutDefault

V(text)    == [type |-> "Value", text |-> text]
SO(name)   == [type |-> "ShortOption", text |-> name]
LO(name)   == [type |-> "LongOption", text |-> name]
ES         == [type |-> "EqualSign", text |-> "="]

MCTokensOf ==
  [a \in {"a", "do", "it", "help", "version"} |-> <<V(a)>>]
  @@ ("-h" :> <<SO("h")>>) @@ ("--help" :> <<LO("help")>>)
  @@ ("-v" :> <<SO("v")>>) @@ ("--version" :> <<LO("version")>>)
  @@ ("-fh" :> <<SO("f"), SO("h")>>) @@ ("-l" :> <<SO("l")>>)
  @@ ("--name=a" :> <<LO("name"), ES, V("a")>>) @@ ("" :> <<>>)

MCArguments == {"do", "it", "help", "version", "-h", "-v", "-fh", "-l",
                "--name=a"}

\* One or two arguments, and a few lines that need three.
MCLines ==
  BoundedSeq(MCArguments, 2)
    \cup {<<f>> : f \in {"--help", "--version"}}
    \cup {<<"do", "it", f>> : f \in {"--help", "-l", "a", ""}}
    \cup { <<"help", "do", "it">>, <<"do", "--name=a", "--help">>,
           <<"", "do">>, <<"a", "--help">> }

\* Every call makes its own tokens; before the first there are none.
MCInputs == {<<>>}

=============================================================================
