--------------------------- MODULE CommandLineProofs ---------------------------
(***************************************************************************)
(* parse() gives every option of a well-formed command line the value that *)
(* was given to it last, for any options, values and lines.                *)
(*                                                                         *)
(* On such a line parse() is, before each step, at a name whose flags are  *)
(* its own: neither is_key nor is_sname is left over from an earlier one.  *)
(* What it has assigned so far is what the line says up to there.          *)
(***************************************************************************)
EXTENDS CommandLine, TLAPS

\* What the arguments before position n say of an option.
Assigned(line, vals, option, n) ==
    \/ \E k \in DOMAIN line :
          /\ k < n
          /\ ~IsPlain(line[k])
          /\ line[k].name = option
          /\ \A l \in DOMAIN line :
               k < l /\ l < n => IsPlain(line[l]) \/ line[l].name # option
          /\ vals[option] = GivenAt(line, k)
    \/ /\ \A k \in DOMAIN line :
            k < n => IsPlain(line[k]) \/ line[k].name # option
       /\ vals[option] = NoValue

AllAssigned == \A o \in Options : Assigned(argv, values, o, i)

\* parse() on a well-formed line.
OnTheWay ==
    /\ outcome \in {"parsing", "true"} =>
         /\ ~isKey /\ ~isSname
         /\ i \in DOMAIN argv => ~IsPlain(argv[i])
         /\ AllAssigned
    /\ outcome = "true" => i = Len(argv) + 1
    /\ outcome # "false"
    /\ outcome = "thrown" => \E k \in DOMAIN argv : Refused(argv, k)

IInv ==
    /\ argv \in CommandLines
    /\ ParserTypeOK
    /\ WellFormed(argv) => OnTheWay

-------------------------------------------------------------------------------
\* A name for another option changes nothing for this one.
LEMMA OthersStayAssigned ==
    ASSUME NEW line \in Seq(Tokens), NEW vals, NEW option,
           NEW p \in 1 .. Len(line), NEW n \in Nat, p < n,
           \A l \in DOMAIN line : p < l /\ l < n => IsPlain(line[l]),
           line[p].name # option,
           Assigned(line, vals, option, p)
    PROVE  Assigned(line, vals, option, n)
<1>1. DOMAIN line = 1 .. Len(line) /\ Len(line) \in Nat
  OBVIOUS
<1>2. CASE \E k \in DOMAIN line :
              /\ k < p
              /\ ~IsPlain(line[k])
              /\ line[k].name = option
              /\ \A l \in DOMAIN line :
                   k < l /\ l < p => IsPlain(line[l]) \/ line[l].name # option
              /\ vals[option] = GivenAt(line, k)
  <2>1. PICK k \in DOMAIN line :
              /\ k < p
              /\ ~IsPlain(line[k])
              /\ line[k].name = option
              /\ \A l \in DOMAIN line :
                   k < l /\ l < p => IsPlain(line[l]) \/ line[l].name # option
              /\ vals[option] = GivenAt(line, k)
    BY <1>2
  <2>2. \A l \in DOMAIN line :
          k < l /\ l < n => IsPlain(line[l]) \/ line[l].name # option
    BY <2>1, <1>1
  <2> QED
    BY <2>1, <2>2, <1>1 DEF Assigned
<1>3. CASE /\ \A k \in DOMAIN line :
                k < p => IsPlain(line[k]) \/ line[k].name # option
           /\ vals[option] = NoValue
  BY <1>3, <1>1 DEF Assigned
<1> QED
  BY <1>2, <1>3 DEF Assigned

\* A name gives its option the value that belongs to it.
LEMMA NamedIsAssigned ==
    ASSUME NEW line \in Seq(Tokens), NEW vals, NEW option,
           NEW p \in 1 .. Len(line), NEW n \in Nat, p < n,
           \A l \in DOMAIN line : p < l /\ l < n => IsPlain(line[l]),
           ~IsPlain(line[p]),
           line[p].name = option,
           vals[option] = GivenAt(line, p)
    PROVE  Assigned(line, vals, option, n)
<1>1. p \in DOMAIN line
  OBVIOUS
<1> QED
  BY <1>1 DEF Assigned

\* set() with the name at position p of the line and its value: either all
\* options are assigned up to n, or the value is refused.
LEMMA SetAssigns ==
    ASSUME ParserTypeOK, outcome = "parsing", AllAssigned,
           i \in DOMAIN argv, ~IsPlain(argv[i]),
           GivenAt(argv, i) \in Arguments,
           Set(argv[i].name, GivenAt(argv, i)),
           argv' = argv, i' \in Nat, i < i',
           \A l \in DOMAIN argv : i < l /\ l < i' => IsPlain(argv[l])
    PROVE  /\ values' \in [Options -> Arguments \cup {NoValue}]
           /\ \/ outcome' = "parsing" /\ AllAssigned'
              \/ outcome' = "thrown" /\ Refused(argv, i)
<1>1. argv \in Seq(Tokens) /\ i \in 1 .. Len(argv) /\ i \in Nat
  BY DEF ParserTypeOK
<1>2. CASE /\ argv[i].name \in Options
           /\ values' = [values EXCEPT ![argv[i].name] = GivenAt(argv, i)]
           /\ outcome' = outcome
  <2>1. values' \in [Options -> Arguments \cup {NoValue}]
    BY <1>2 DEF ParserTypeOK
  <2>2. ASSUME NEW o \in Options
        PROVE  Assigned(argv, values', o, i')
    <3>1. CASE o = argv[i].name
      <4>1. values'[o] = GivenAt(argv, i)
        BY <3>1, <1>2 DEF ParserTypeOK
      <4> QED
        BY <4>1, <3>1, <1>1, NamedIsAssigned
    <3>2. CASE o # argv[i].name
      <4>1. values'[o] = values[o]
        BY <3>2, <1>2 DEF ParserTypeOK
      <4>2. Assigned(argv, values, o, i')
        BY <3>2, <1>1, OthersStayAssigned DEF AllAssigned
      <4> QED
        BY <4>1, <4>2 DEF Assigned
    <3> QED
      BY <3>1, <3>2
  <2> QED
    BY <2>1, <2>2, <1>2 DEF AllAssigned
<1>3. CASE argv[i].name = Program /\ values' = values /\ outcome' = outcome
  <2>1. \A o \in Options : argv[i].name # o
    BY <1>3, CommandLineAssumption
  <2>2. \A o \in Options : Assigned(argv, values, o, i')
    BY <2>1, <1>1, OthersStayAssigned DEF AllAssigned
  <2> QED
    BY <2>2, <1>3 DEF AllAssigned, ParserTypeOK
<1>4. CASE /\ argv[i].name # Program
           /\ argv[i].name \in Options =>
                ~Accepts(argv[i].name, GivenAt(argv, i))
           /\ outcome' = "thrown"
           /\ values' = values
  BY <1>4 DEF Refused, ParserTypeOK
<1> QED
  BY <1>2, <1>3, <1>4, CommandLineAssumption DEF Set, SetValue

-------------------------------------------------------------------------------
LEMMA SetTypes ==
    ASSUME ParserTypeOK, NEW option, NEW value \in Arguments, Set(option, value)
    PROVE  /\ values' \in [Options -> Arguments \cup {NoValue}]
           /\ outcome' \in {outcome, "thrown"}
BY DEF Set, SetValue, ParserTypeOK

\* The tokens of the line at hand.
LEMMA TokenFacts ==
    ASSUME argv \in CommandLines, NEW k \in DOMAIN argv
    PROVE  /\ argv \in Seq(Tokens)
           /\ DOMAIN argv = 1 .. Len(argv) /\ Len(argv) \in Nat
           /\ argv[k].dashes \in 0 .. 2
           /\ argv[k].name \in Names
           /\ argv[k].value \in Arguments \cup {NoValue}
           /\ argv[k].dashes = 0 => argv[k].value # NoValue
           /\ argv[k].name # Garbage
<1>1. argv \in Seq(Tokens)
  BY CommandLineAssumption
<1>2. argv[k] \in Tokens
  BY <1>1
<1>3. argv[k].dashes = 0 => argv[k].value # NoValue
  BY CommandLineAssumption
<1> QED
  BY <1>1, <1>2, <1>3, CommandLineAssumption DEF Tokens

LEMMA InvInit == ParserInit => IInv
<1> SUFFICES ASSUME ParserInit PROVE IInv
  OBVIOUS
<1>1. argv \in Seq(Tokens) /\ DOMAIN argv = 1 .. Len(argv) /\ Len(argv) \in Nat
  BY CommandLineAssumption DEF ParserInit
<1>2. ParserTypeOK
  <2>1. i \in 1 .. Len(argv) + 1
    BY <1>1 DEF ParserInit
  <2>2. values \in [Options -> Arguments \cup {NoValue}]
    BY DEF ParserInit
  <2>3. /\ isKey = FALSE /\ isSname = FALSE
        /\ sname = Garbage /\ name = Empty
        /\ outcome = "parsing"
    BY DEF ParserInit
  <2> QED
    BY <1>1, <2>1, <2>2, <2>3 DEF ParserTypeOK
<1>3. AllAssigned
  <2>1. \A k \in DOMAIN argv : ~ k < i
    BY <1>1 DEF ParserInit
  <2>2. \A o \in Options : values[o] = NoValue
    BY DEF ParserInit
  <2> QED
    BY <2>1, <2>2 DEF AllAssigned, Assigned
<1>4. ASSUME WellFormed(argv), i \in DOMAIN argv PROVE ~IsPlain(argv[i])
  BY <1>1, <1>4 DEF ParserInit, WellFormed
<1> QED
  BY <1>2, <1>3, <1>4 DEF ParserInit, IInv, OnTheWay

LEMMA TypesPreserved ==
    ASSUME argv \in CommandLines, ParserTypeOK, [ParserNext]_parserVars
    PROVE  argv' \in CommandLines /\ ParserTypeOK'
<1> USE DEF ParserTypeOK
<1>1. CASE SetLongValue
  <2>1. i \in DOMAIN argv
    BY <1>1 DEF SetLongValue, Parsing
  <2>2. argv[i].value \in Arguments /\ argv[i].name \in Names
    BY <1>1, <2>1, TokenFacts DEF SetLongValue
  <2>3. Set(argv[i].name, argv[i].value)
    BY <1>1 DEF SetLongValue
  <2>4. /\ values' \in [Options -> Arguments \cup {NoValue}]
        /\ outcome' \in {"parsing", "true", "false", "thrown"}
    BY <2>2, <2>3, SetTypes
  <2>5. i' \in 1 .. Len(argv') + 1
    BY <1>1, <2>1, TokenFacts DEF SetLongValue
  <2> QED
    BY <1>1, <2>2, <2>4, <2>5 DEF SetLongValue
<1>2. CASE SetShortValue
  <2>1. i \in DOMAIN argv
    BY <1>2 DEF SetShortValue, Parsing
  <2>2. /\ argv[i].value \in Arguments
        /\ argv[i].name \in Names
        /\ argv[i].name # Garbage
    BY <1>2, <2>1, TokenFacts DEF SetShortValue
  <2>3. Set(argv[i].name, argv[i].value)
    BY <1>2 DEF SetShortValue
  <2>4. /\ values' \in [Options -> Arguments \cup {NoValue}]
        /\ outcome' \in {"parsing", "true", "false", "thrown"}
    BY <2>2, <2>3, SetTypes
  <2>5. i' \in 1 .. Len(argv') + 1
    BY <1>2, <2>1, TokenFacts DEF SetShortValue
  <2> QED
    BY <1>2, <2>2, <2>4, <2>5 DEF SetShortValue
<1>3. ASSUME AtKey
      PROVE  /\ i \in DOMAIN argv
             /\ argv' = argv
             /\ name' \in Names \cup {Empty}
             /\ sname' \in Names \cup {Garbage}
             /\ IsSnameNow \in BOOLEAN
             /\ IsSnameNow => sname' # Garbage
  <2>1. i \in DOMAIN argv
    BY <1>3 DEF AtKey, Parsing
  <2>2. /\ argv[i].name \in Names
        /\ argv[i].name # Garbage
    BY <2>1, TokenFacts
  <2> QED
    BY <1>3, <2>1, <2>2 DEF AtKey, NameAfter, SnameAfter, IsSnameNow
<1>4. CASE KeyTakesNext
  <2>1. AtKey /\ i + 1 \in DOMAIN argv
    BY <1>4 DEF KeyTakesNext, PlainFollows
  <2>2. argv[i + 1].value \in Arguments
    BY <1>4, <2>1, TokenFacts DEF KeyTakesNext, PlainFollows, IsPlain
  <2>3. PICK option : Set(option, argv[i + 1].value)
    BY <1>4 DEF KeyTakesNext
  <2>4. /\ values' \in [Options -> Arguments \cup {NoValue}]
        /\ outcome' \in {"parsing", "true", "false", "thrown"}
    BY <2>2, <2>3, SetTypes
  <2>5. i' \in 1 .. Len(argv') + 1
    BY <1>3, <1>4, <2>1, TokenFacts DEF KeyTakesNext
  <2>6. isKey' = FALSE /\ isSname' = FALSE
    BY <1>4 DEF KeyTakesNext, IsSnameAfterValue
  <2> QED
    BY <1>3, <2>1, <2>4, <2>5, <2>6
<1>5. CASE KeyWaits
  BY <1>3, <1>5 DEF KeyWaits
<1>6. CASE StrayArgument
  BY <1>6 DEF StrayArgument
<1>7. CASE EndOfArguments
  BY <1>7 DEF EndOfArguments
<1>8. CASE UNCHANGED parserVars
  BY <1>8 DEF parserVars
<1> QED
  BY <1>1, <1>2, <1>4, <1>5, <1>6, <1>7, <1>8 DEF ParserNext

\* A name with its value behind it, in one argument or in two: the step ends
\* behind the value, at the next name.
LEMMA NameIsDone ==
    ASSUME argv \in CommandLines, ParserTypeOK, WellFormed(argv), OnTheWay,
           outcome = "parsing", i \in DOMAIN argv,
           i' = IF IsOpenKey(argv[i]) THEN i + 2 ELSE i + 1,
           Set(argv[i].name, GivenAt(argv, i)),
           argv' = argv, isKey' = FALSE, isSname' = FALSE
    PROVE  OnTheWay'
<1>1. /\ DOMAIN argv = 1 .. Len(argv) /\ Len(argv) \in Nat
      /\ i \in 1 .. Len(argv)
  BY TokenFacts
<1>2. ~IsPlain(argv[i]) /\ AllAssigned
  BY DEF OnTheWay
<1>3. \A k \in DOMAIN argv : IsPlain(argv[k]) <=>
        k - 1 \in DOMAIN argv /\ IsOpenKey(argv[k - 1])
  BY DEF WellFormed
<1>4. ~IsOpenKey(argv[Len(argv)])
  BY <1>1 DEF WellFormed
<1>5. CASE IsOpenKey(argv[i])
  <2>1. i + 1 \in DOMAIN argv /\ i' = i + 2
    BY <1>1, <1>4, <1>5
  <2>2. IsPlain(argv[i + 1])
    BY <1>3, <1>5, <2>1, <1>1
  <2>3. ~IsOpenKey(argv[i + 1])
    BY <2>2 DEF IsPlain, IsOpenKey
  <2>4. i' \in DOMAIN argv => ~IsPlain(argv[i'])
    BY <1>3, <1>1, <2>1, <2>3
  <2>5. GivenAt(argv, i) \in Arguments
    BY <1>5, <2>1, <2>2, TokenFacts DEF GivenAt, IsPlain
  <2>6. \A l \in DOMAIN argv : i < l /\ l < i' => IsPlain(argv[l])
    BY <1>1, <2>1, <2>2
  <2>7. \/ outcome' = "parsing" /\ AllAssigned'
        \/ outcome' = "thrown" /\ Refused(argv, i)
    BY <1>1, <1>2, <2>1, <2>5, <2>6, SetAssigns
  <2> QED
    BY <2>4, <2>7 DEF OnTheWay
<1>6. CASE ~IsOpenKey(argv[i])
  <2>1. i' = i + 1
    BY <1>6
  <2>2. i' \in DOMAIN argv => ~IsPlain(argv[i'])
    BY <1>3, <1>1, <2>1, <1>6
  <2>3. GivenAt(argv, i) \in Arguments
    BY <1>2, <1>6, TokenFacts DEF GivenAt, IsPlain, IsOpenKey
  <2>4. \A l \in DOMAIN argv : i < l /\ l < i' => IsPlain(argv[l])
    BY <1>1, <2>1
  <2>5. \/ outcome' = "parsing" /\ AllAssigned'
        \/ outcome' = "thrown" /\ Refused(argv, i)
    BY <1>1, <1>2, <2>1, <2>3, <2>4, SetAssigns
  <2> QED
    BY <2>2, <2>5 DEF OnTheWay
<1> QED
  BY <1>5, <1>6

LEMMA StaysOnTheWay ==
    ASSUME argv \in CommandLines, ParserTypeOK, WellFormed(argv), OnTheWay,
           [ParserNext]_parserVars
    PROVE  OnTheWay'
<1>1. ASSUME Parsing
      PROVE  /\ i \in DOMAIN argv
             /\ outcome = "parsing"
             /\ ~IsPlain(argv[i])
             /\ isKey = FALSE /\ isSname = FALSE
  BY <1>1 DEF Parsing, OnTheWay, ParserTypeOK
<1>2. CASE SetLongValue
  <2>1. /\ Parsing
        /\ argv[i].value # NoValue
        /\ Set(argv[i].name, argv[i].value)
        /\ argv' = argv /\ i' = i + 1 /\ isKey' = FALSE /\ isSname' = isSname
    BY <1>2 DEF SetLongValue
  <2>2. ~IsOpenKey(argv[i]) /\ GivenAt(argv, i) = argv[i].value
    BY <2>1 DEF IsOpenKey, GivenAt
  <2> QED
    BY <1>1, <2>1, <2>2, NameIsDone
<1>3. CASE SetShortValue
  <2>1. /\ Parsing
        /\ argv[i].value # NoValue
        /\ Set(argv[i].name, argv[i].value)
        /\ argv' = argv /\ i' = i + 1 /\ isKey' = FALSE /\ isSname' = isSname
    BY <1>3 DEF SetShortValue
  <2>2. ~IsOpenKey(argv[i]) /\ GivenAt(argv, i) = argv[i].value
    BY <2>1 DEF IsOpenKey, GivenAt
  <2> QED
    BY <1>1, <2>1, <2>2, NameIsDone
<1>4. ASSUME AtKey
      PROVE  /\ IsOpenKey(argv[i])
             /\ argv' = argv
             /\ (IF IsSnameNow THEN sname' ELSE name') = argv[i].name
  <2>1. i \in DOMAIN argv /\ ~IsPlain(argv[i]) /\ isSname = FALSE
    BY <1>1, <1>4 DEF AtKey
  <2>2. argv[i].dashes \in {1, 2}
    BY <2>1, TokenFacts DEF IsPlain
  <2> QED
    BY <1>4, <2>1, <2>2 DEF AtKey, IsPlain, IsSnameNow, NameAfter, SnameAfter
<1>5. CASE KeyTakesNext
  <2>1. AtKey /\ Parsing
    BY <1>5 DEF KeyTakesNext, AtKey
  <2>2. /\ Set(argv[i].name, argv[i + 1].value)
        /\ i' = i + 2 /\ isKey' = FALSE /\ isSname' = FALSE
    BY <1>4, <1>5, <2>1 DEF KeyTakesNext, IsSnameAfterValue
  <2>3. GivenAt(argv, i) = argv[i + 1].value
    BY <1>4, <2>1 DEF GivenAt
  <2> QED
    BY <1>1, <1>4, <2>1, <2>2, <2>3, NameIsDone
<1>6. CASE KeyWaits
  <2>1. AtKey /\ Parsing /\ ~PlainFollows
    BY <1>6 DEF KeyWaits, AtKey
  <2>2. IsOpenKey(argv[i]) /\ i \in DOMAIN argv
    BY <1>1, <1>4, <2>1
  <2>3. i + 1 \in DOMAIN argv /\ i < Len(argv)
    BY <2>2, TokenFacts DEF WellFormed
  <2>4. IsPlain(argv[i + 1])
    BY <2>2, <2>3, TokenFacts DEF WellFormed
  <2> QED
    BY <2>1, <2>3, <2>4 DEF PlainFollows
<1>7. CASE StrayArgument
  BY <1>1, <1>7 DEF StrayArgument
<1>8. CASE EndOfArguments
  <2>1. i = Len(argv) + 1
    BY <1>8, CommandLineAssumption DEF EndOfArguments, ParserTypeOK
  <2>2. /\ outcome = "parsing" /\ outcome' = "true"
        /\ UNCHANGED <<argv, i, isKey, isSname, values>>
    BY <1>8 DEF EndOfArguments
  <2>3. AllAssigned => AllAssigned'
    BY <2>2 DEF AllAssigned
  <2> QED
    BY <2>1, <2>2, <2>3 DEF OnTheWay
<1>9. CASE UNCHANGED parserVars
  <2>1. UNCHANGED <<argv, i, isKey, isSname, values, outcome>>
    BY <1>9 DEF parserVars
  <2>2. AllAssigned => AllAssigned'
    BY <2>1 DEF AllAssigned
  <2> QED
    BY <2>1, <2>2 DEF OnTheWay
<1> QED
  BY <1>2, <1>3, <1>5, <1>6, <1>7, <1>8, <1>9 DEF ParserNext

LEMMA InvNext == IInv /\ [ParserNext]_parserVars => IInv'
<1> SUFFICES ASSUME IInv, [ParserNext]_parserVars PROVE IInv'
  OBVIOUS
<1>1. argv' \in CommandLines /\ ParserTypeOK'
  BY TypesPreserved DEF IInv
<1>2. argv' = argv
  BY DEF ParserNext, parserVars, SetLongValue, SetShortValue, KeyTakesNext,
         KeyWaits, AtKey, StrayArgument, EndOfArguments
<1>3. WellFormed(argv) => OnTheWay'
  BY StaysOnTheWay DEF IInv
<1> QED
  BY <1>1, <1>2, <1>3 DEF IInv

\* What is assigned at the end of the line is what the line says.
LEMMA InvGivesOptions == IInv => OptionsAreRight
<1> SUFFICES ASSUME IInv, WellFormed(argv), outcome = "true", NEW o \in Options
             PROVE  \/ \E k \in DOMAIN argv :
                          /\ LastNamedAt(argv, o, k)
                          /\ values[o] = GivenAt(argv, k)
                    \/ /\ \A k \in DOMAIN argv :
                            IsPlain(argv[k]) \/ argv[k].name # o
                       /\ values[o] = NoValue
  BY DEF OptionsAreRight, IInv, OnTheWay
<1>1. Assigned(argv, values, o, Len(argv) + 1)
  BY DEF IInv, OnTheWay, AllAssigned
<1>2. \A k \in DOMAIN argv : k < Len(argv) + 1
  BY TokenFacts DEF IInv
<1> QED
  BY <1>1, <1>2 DEF Assigned, LastNamedAt

\* The variables of parse() keep their types, and sname is never read before
\* it was assigned (Parser::parse()).
THEOREM ParserTypeCorrect == ParserSpec => []ParserTypeOK
<1>1. IInv => ParserTypeOK
  BY DEF IInv
<1> QED
  BY <1>1, InvInit, InvNext, PTL DEF ParserSpec

\* On any line where every name has its value, parse() gives every option the
\* value given to it last, or refuses one (Parser::parse(), Parser::set()).
THEOREM OptionsCorrect == ParserSpec => []OptionsAreRight
BY InvInit, InvNext, InvGivesOptions, PTL DEF ParserSpec
===============================================================================
