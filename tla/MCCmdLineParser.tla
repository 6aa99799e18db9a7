-------------------------- MODULE MCCmdLineParser --------------------------
(***************************************************************************)
(* Small command lines for CmdLineParser: the option shapes the states     *)
(* tell apart, command lists with and without a default command, and all   *)
(* token streams of a few arguments.                                       *)
(***************************************************************************)
EXTENDS CmdLineParser, SequencesExt

MCTexts == {"a", "b", "do", "it", "f", "n", "l", "flag", "name", "level", "stdin",
            "-", "--", "="}

MCKeys == {"flag", "name", "level", "stdin", "first", "last", "then", key_rest}

Named(key, short, accepts, implicit, default, repeatable, required) ==
  [key |-> key, short |-> short, long |-> key, accepts |-> accepts,
   implicit |-> implicit, default |-> default, repeatable |-> repeatable,
   required |-> required]

Positional(key, accepts, default, required) ==
  [Named(key, "", accepts, FALSE, default, TRUE, required) EXCEPT !.long = ""]

AnyText == {"a", "b", "do", "it"}

\* A flag, an option that must be given with a value, and a repeatable one
\* with an implicit and a default value; "-" is the short name of the last.
Flag     == Named("flag", "f", {"a"}, TRUE, FALSE, FALSE, FALSE)
Name     == Named("name", "n", {"a", "b"}, FALSE, FALSE, FALSE, TRUE)
Level    == Named("level", "l", {"a"}, TRUE, TRUE, TRUE, TRUE)
Stdin    == Named("stdin", "-", {"a"}, TRUE, FALSE, FALSE, FALSE)

First == Positional("first", AnyText, FALSE, TRUE)
Then  == Positional("then", AnyText, FALSE, FALSE)
Last_ == Positional("last", {"a", "do", "it"}, FALSE, FALSE)
Rest  == Positional(key_rest, AnyText, TRUE, FALSE)

Command(path, options, positionals) ==
  [path |-> path, options |-> options, positionals |-> positionals]

Default(options, positionals) == Command(<<"">>, options, positionals)
Do(options, positionals)      == Command(<<"do">>, options, positionals)
DoIt(options, positionals)    == Command(<<"do", "it">>, options, positionals)

\* A command list with a default command beside a longer path.
MCWithDefault ==
  { << DoIt(<<Name>>, <<>>), Default(<<Flag, Level>>, <<Rest>>) >> }

\* Command lists without gaps: from a command on a path, the next command on
\* it is one segment away.
MCWithoutGap ==
  MCWithDefault \cup
  { << Default(<<Flag, Level, Stdin>>, <<Rest, Last_>>) >>,
    << Do(<<Name>>, <<>>), DoIt(<<Flag, Level>>, <<First, Rest>>) >>,
    << Default(<<Flag>>, <<Rest>>), Do(<<Level, Name>>, <<First>>) >>,
    << Default(<<Level>>, <<First, Then, Rest>>) >>,
    << Default(<<>>, <<First, Rest, Then>>) >> }

\* A command list where "do it" is no command but "do it a" is one.
MCWithGap ==
  { << Do(<<>>, <<Rest>>), Command(<<"do", "it", "a">>, <<>>, <<Rest>>) >> }

MCAll == MCWithoutGap \cup MCWithGap

MCFirstOnly == { << Default(<<>>, <<First>>) >> }

\* One argument each, as the tokenizer splits it.
V(text)    == [type |-> "Value", text |-> text]
SO(name)   == [type |-> "ShortOption", text |-> name]
LO(name)   == [type |-> "LongOption", text |-> name]
ES         == [type |-> "EqualSign", text |-> "="]
DD         == [type |-> "DashDash", text |-> "--"]
LD         == [type |-> "LoneDash", text |-> "-"]

PlainArguments == {<<V("a")>>, <<V("b")>>, <<V("do")>>, <<V("it")>>}

OptionArguments ==
  {<<SO("f")>>, <<SO("n"), SO("f")>>, <<SO("l")>>, <<LD>>,
   <<LO("name")>>, <<LO("level")>>,
   <<LO("flag"), ES, V("a")>>, <<LO("level"), ES, V("b")>>,
   <<LO("flag"), ES, LO("flag")>>, <<LO("level"), ES, LO("level")>>,
   <<LO("name"), ES, LO("name"), ES, V("a")>>}

Streams(arguments, n) == {FlattenSeq(s) : s \in BoundedSeq(arguments, n)}

\* Up to three arguments of every shape but "--".
MCInputs == Streams(PlainArguments \cup OptionArguments, 3)

\* Up to four tokens in any order, as if any tokenizer could be used.
MCAnyTokens ==
  BoundedSeq({V("a"), V("do"), V("it"), SO("f"), LO("level"), LD, ES, DD}, 4)

\* Up to five arguments, most of them plain values.
MCPlainInputs ==
  Streams({<<V("a")>>, <<V("b")>>, <<V("it")>>, <<SO("l")>>}, 5)

\* Command path segments, in every order.
MCSegments == Streams({<<V("do")>>, <<V("it")>>, <<V("a")>>}, 4)

MCDashDash == Streams({<<V("a")>>, <<DD>>}, 2)

=============================================================================
