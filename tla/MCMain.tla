-------------------------------- MODULE MCMain ---------------------------------
(***************************************************************************)
(* main() with two options that can be given, a number with a default and  *)
(* the url without, and all short command lines made of them; and with all *)
(* short URLs.                                                             *)
(***************************************************************************)
EXTENDS Main

CONSTANT MaxLine        \* the arguments of a command line
CONSTANT MaxUrl         \* the characters of a URL behind "http://"

Text(http, rest) == [http |-> http, rest |-> rest]
Number == Text(FALSE, <<"1">>)
TooMany == Text(FALSE, <<"1", "1">>)
Word == Text(FALSE, <<"a">>)
Site == Text(TRUE, <<"a", ":", "1", "/", "1">>)
ShortUrls == { Text(TRUE, rest) : rest \in SeqOf(Characters, MaxUrl) }

MCOptions == {"client", "url", "method", "version"}
MCNames == {"client", "url", "x", "program", Empty}
MCArguments == ShortUrls \cup {Number, TooMany, Word, Site}
MCCastable ==
    [o \in MCOptions |-> IF o = "client" THEN {Number, TooMany} ELSE MCArguments]
MCInLimits ==
    [o \in MCOptions |-> CASE o = "client" -> {Number}
                           [] o = "url" -> MCArguments
                           [] OTHER -> {Word}]
MCDefault ==
    [o \in MCOptions |-> CASE o = "client" -> Number
                           [] o = "url" -> NoValue
                           [] OTHER -> Word]

Plain(value) == [dashes |-> 0, name |-> Empty, value |-> value]
Key(dashes, option) == [dashes |-> dashes, name |-> option, value |-> NoValue]
KeyWith(dashes, option, value) == [dashes |-> dashes, name |-> option, value |-> value]

MCTokens ==
    { Plain(Number), Plain(Word), Plain(Site),
      Key(1, "client"), Key(2, "client"), KeyWith(2, "client", Number),
      Key(1, "url"), Key(2, "url"), KeyWith(1, "url", Site),
      KeyWith(2, "url", Number), KeyWith(1, "client", TooMany),
      Key(1, "x"), KeyWith(2, "program", Number) }

MCCommandLines ==
    SeqOf(MCTokens, MaxLine) \cup { <<Key(1, "url"), Plain(url)>> : url \in ShortUrls }

\* Once the benchmark runs, nothing looks at the command line again.
View ==
    IF callbacks > 0 \/ stage # "loop" THEN <<mainPc, httpVars>> ELSE <<vars>>
===============================================================================
