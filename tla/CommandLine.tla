------------------------------ MODULE CommandLine ------------------------------
(***************************************************************************)
(* The command line parser of the benchmark: Parser::parse() over the       *)
(* options main() has added, one step per argument or pair of arguments.   *)
(*                                                                         *)
(* An argument is reduced to what parse() tells apart: how many dashes it  *)
(* starts with (two count before one), the option it names, and the value  *)
(* behind a "=" in it, or the argument itself where there is no dash.      *)
(* Anything else behind a short name, as in "-cx" or "-cx=1", is ignored   *)
(* by the code, which makes it a "-c" without a value.                     *)
(***************************************************************************)
EXTENDS Naturals, Sequences

CONSTANTS
    Options,        \* the options of main(), by their long names
    Names,          \* the names an argument may start with, known or not
    Arguments,      \* the values that may be given to an option
    NoValue,        \* no value
    Castable,       \* Castable[o]: the values lexical_cast() makes a T of
    InLimits,       \* InLimits[o]: those whose T the limiter of o lets pass
    Default,        \* Default[o]: what value() returns if none was given
    CommandLines    \* the command lines considered, without argv[0]

\* set_program_name() makes argv[0] an option of its own, of a class whose
\* set() does nothing.  It has no short name.
Program == "program"

\* sname before it is assigned, and the empty name.
Garbage == "garbage"
Empty == "empty"

Tokens == [dashes : 0 .. 2, name : Names, value : Arguments \cup {NoValue}]

ASSUME CommandLineAssumption ==
    /\ Program \notin Options
    /\ Garbage \notin Names
    /\ NoValue \notin Arguments
    /\ Castable \in [Options -> SUBSET Arguments]
    /\ InLimits \in [Options -> SUBSET Arguments]
    /\ Default \in [Options -> Arguments \cup {NoValue}]
    /\ \A line \in CommandLines :
         /\ line \in Seq(Tokens)
         /\ \A k \in DOMAIN line :
              /\ line[k].dashes = 0 => line[k].value # NoValue
              /\ line[k].dashes = 1 => line[k].name # Program

VARIABLES
    argv,       \* argv, from argv[1]
    i,          \* i
    isKey,      \* is_key
    isSname,    \* is_sname
    sname,      \* sname
    name,       \* name
    values,     \* input_value of each option, NoValue while not exist_val
    outcome     \* what parse() returned, or "thrown", or "parsing"

parserVars == <<argv, i, isKey, isSname, sname, name, values, outcome>>

ParserTypeOK ==
    /\ argv \in Seq(Tokens)
    /\ i \in 1 .. Len(argv) + 1
    /\ isKey \in BOOLEAN
    /\ isSname \in BOOLEAN
    /\ sname \in Names \cup {Garbage}
    /\ name \in Names \cup {Empty}
    /\ values \in [Options -> Arguments \cup {NoValue}]
    /\ outcome \in {"parsing", "true", "false", "thrown"}
    /\ isSname => sname # Garbage

ParserInit ==
    /\ argv \in CommandLines
    /\ i = 1
    /\ isKey = FALSE
    /\ isSname = FALSE
    /\ sname = Garbage
    /\ name = Empty
    /\ values = [o \in Options |-> NoValue]
    /\ outcome = "parsing"

-------------------------------------------------------------------------------
IsPlain(token) == token.dashes = 0

\* A name whose value, if any, is the next argument.
IsOpenKey(token) == token.dashes # 0 /\ token.value = NoValue

Parsing == outcome = "parsing" /\ i <= Len(argv)

\* "i + 1 < argc" and no dash in front of the next argument.
PlainFollows == i < Len(argv) /\ IsPlain(argv[i + 1])

\* lexical_cast() makes a T of the value and of nothing but all of it.
Casts(option, value) == value \in Castable[option]

\* The limiter, rangeof or oneof, lets the value pass.
Limits(option, value) == value \in InLimits[option]

Accepts(option, value) == Casts(option, value) /\ Limits(option, value)

\* set() of an option: an exception of the cast or of the limiter, which
\* main() does not catch, or the new value.
SetValue(option, value) ==
    \/ /\ Accepts(option, value)
       /\ values' = [values EXCEPT ![option] = value]
       /\ UNCHANGED outcome
    \/ /\ ~Accepts(option, value)
       /\ outcome' = "thrown"
       /\ UNCHANGED values

\* set() of the parser, which throws on a name that is not there.
Set(option, value) ==
    \/ option \in Options /\ SetValue(option, value)
    \/ option = Program /\ UNCHANGED <<values, outcome>>
    \/ /\ option \notin Options \cup {Program}
       /\ outcome' = "thrown"
       /\ UNCHANGED values

\* "--name=value"
SetLongValue ==
    /\ Parsing
    /\ argv[i].dashes = 2 /\ argv[i].value # NoValue
    /\ name' = argv[i].name
    /\ Set(name', argv[i].value)
    /\ isKey' = FALSE
    /\ i' = i + 1
    /\ UNCHANGED <<argv, isSname, sname>>

\* "-n=value"
SetShortValue ==
    /\ Parsing
    /\ argv[i].dashes = 1 /\ argv[i].value # NoValue
    /\ sname' = argv[i].name
    /\ Set(sname', argv[i].value)
    /\ isKey' = FALSE
    /\ i' = i + 1
    /\ UNCHANGED <<argv, isSname, name>>

\* What "--name" leaves in name.
NameAfter == IF argv[i].dashes = 2 THEN argv[i].name ELSE name

\* Mutant: the short name is not remembered.
SnameForgotten == sname

\* What "-n" leaves in sname.
SnameAfter == IF argv[i].dashes = 1 THEN argv[i].name ELSE sname

\* is_sname, where a value is looked for.
IsSnameNow == isSname \/ argv[i].dashes = 1

\* A name or an argument without dashes, "if (is_key)".
AtKey ==
    /\ Parsing
    /\ argv[i].dashes # 0 => IsOpenKey(argv[i])
    /\ isKey \/ argv[i].dashes # 0
    /\ name' = NameAfter
    /\ sname' = SnameAfter
    /\ UNCHANGED argv

\* Mutant: is_sname stays set when the value of a short option was taken.
IsSnameKept == IsSnameNow

\* is_sname, once the value that follows a name was given to its option.
IsSnameAfterValue == FALSE

\* The next argument is the value of the short name, or else of the long one.
KeyTakesNext ==
    /\ AtKey
    /\ PlainFollows
    /\ Set(IF IsSnameNow THEN sname' ELSE name', argv[i + 1].value)
    /\ isSname' = IsSnameAfterValue
    /\ isKey' = FALSE
    /\ i' = i + 2

\* No value follows: both flags stay as they are for the arguments to come.
KeyWaits ==
    /\ AtKey
    /\ ~PlainFollows
    /\ isSname' = IsSnameNow
    /\ isKey' = TRUE
    /\ i' = i + 1
    /\ UNCHANGED <<values, outcome>>

\* An argument that is neither a name nor the value of one.
StrayArgument ==
    /\ Parsing
    /\ IsPlain(argv[i])
    /\ ~isKey
    /\ outcome' = "false"
    /\ UNCHANGED <<argv, i, isKey, isSname, sname, name, values>>

EndOfArguments ==
    /\ outcome = "parsing"
    /\ i > Len(argv)
    /\ outcome' = "true"
    /\ UNCHANGED <<argv, i, isKey, isSname, sname, name, values>>

ParserNext ==
    \/ SetLongValue
    \/ SetShortValue
    \/ KeyTakesNext
    \/ KeyWaits
    \/ StrayArgument
    \/ EndOfArguments

ParserSpec == ParserInit /\ [][ParserNext]_parserVars

\* value() of an option: what was given, or the default.  NoValue stands for
\* an exception.
Value(option) ==
    IF values[option] # NoValue THEN values[option] ELSE Default[option]

\* get()
Get(option) == IF option \in Options THEN Value(option) ELSE NoValue

-------------------------------------------------------------------------------
(* What a command line means.                                              *)

\* Every name is followed by its value, or has it behind "=".
WellFormed(line) ==
    /\ \A k \in DOMAIN line :
         IsPlain(line[k]) <=> k - 1 \in DOMAIN line /\ IsOpenKey(line[k - 1])
    /\ line # <<>> => ~IsOpenKey(line[Len(line)])

GivenAt(line, k) ==
    IF IsOpenKey(line[k]) THEN line[k + 1].value ELSE line[k].value

\* Position k is the last one that names the option.
LastNamedAt(line, option, k) ==
    /\ ~IsPlain(line[k])
    /\ line[k].name = option
    /\ \A l \in DOMAIN line :
         l > k => IsPlain(line[l]) \/ line[l].name # option

Refused(line, k) ==
    /\ ~IsPlain(line[k])
    /\ line[k].name # Program
    /\ line[k].name \in Options => ~Accepts(line[k].name, GivenAt(line, k))

\* On a line where every name has its value, parse() never stops half way:
\* each option gets the value given to it last, in whatever way it was
\* written, and an exception means that some value was refused.  The two
\* flags, which outlive an argument, must not let a value go to another
\* option (Parser::parse()).
OptionsAreRight ==
    WellFormed(argv) =>
        /\ outcome # "false"
        /\ outcome = "true" =>
             \A o \in Options :
                \/ \E k \in DOMAIN argv :
                      /\ LastNamedAt(argv, o, k)
                      /\ values[o] = GivenAt(argv, k)
                \/ /\ \A k \in DOMAIN argv :
                        IsPlain(argv[k]) \/ argv[k].name # o
                   /\ values[o] = NoValue
        /\ outcome = "thrown" => \E k \in DOMAIN argv : Refused(argv, k)
===============================================================================
