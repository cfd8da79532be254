-------------------------------- MODULE Arql --------------------------------
(***************************************************************************)
(* The parser of hunt queries (internal/hunt/parse.go) and the grammar at  *)
(* the head of that file.  The analyst types a query phrase by phrase, and *)
(* may submit it at any time.                                              *)
(*                                                                         *)
(* The text of a token stands for the token; its kind follows from it.     *)
(* Keywords are ordinary identifiers.                                      *)
(***************************************************************************)
EXTENDS Descent

CONSTANTS
    Phrases,    \* the sequences of tokens typed at a time
    Slack,      \* bound: tokens after a refused one, before a phrase is added
    MaxTokens   \* bound: length of a query

KnownFields == {"name"}
Symbols == {"|", "(", ")", ",", ":", ";"}
SymbolOps == {"==", "=~"}
WordOps == {"contains"}
Strings == {"'x'", "'['"}
BadPatterns == {"'['"}              \* regexp.Compile refuses
WholeNumbers == {"5"}               \* Atoi accepts
Fractions == {"5.5"}                \* only ParseFloat accepts
BadNumbers == {"5.5.5"}             \* nothing accepts
Durations == {"5m"}                 \* time.ParseDuration accepts
BadDurations == {"1d"}              \* the lexer's unit d is not one of Go's

Numbers == WholeNumbers \cup Fractions \cup BadNumbers

IsIdent(t) ==
    t \notin Symbols \cup SymbolOps \cup Strings \cup Numbers \cup Durations
             \cup BadDurations \cup {EOF}

Compare(field, rel, values) ==
    [op |-> "cmp", field |-> field, rel |-> rel, values |-> values]

-----------------------------------------------------------------------------
(* The parser over the typed tokens.                                       *)
parseClass(p) == One(p, IsIdent(peek(p)))
parseField(p) == One(p, peek(p) \in KnownFields)
parseOperator(p) == One(p, peek(p) \in SymbolOps \cup WordOps)
parseValue(p) ==
    One(p, IsIdent(peek(p)) \/ peek(p) \in Strings \cup (Numbers \ BadNumbers))
parseDuration(p) == One(p, peek(p) \in Durations \cup WholeNumbers)

(* The values of an in list, up to and with the closing parenthesis.       *)
RECURSIVE parseIn(_, _)
parseIn(p, values) ==
    Then(parseValue(p), LAMBDA q, v :
        IF peek(q) = "," THEN parseIn(q + 1, Append(values, v))
        ELSE Skip(q, ")", LAMBDA end : Done(end, Append(values, v))))

parseComparison(p) ==
    Then(parseField(p), LAMBDA q, field :
        IF peek(q) = "in"
        THEN Skip(q + 1, "(", LAMBDA inside :
                 Then(parseIn(inside, << >>), LAMBDA end, values :
                     Done(end, Compare(field, "in", values))))
        ELSE Then(parseOperator(q), LAMBDA o, rel :
                 Then(parseValue(o), LAMBDA end, v :
                     IF rel = "=~" /\ v \in BadPatterns THEN Refuse(o)
                     ELSE Done(end, Compare(field, rel, <<v>>)))))

RECURSIVE parseOr(_)

RECURSIVE parseUnary(_)
parseUnary(p) ==
    CASE peek(p) = "not" ->
           Then(parseUnary(p + 1), LAMBDA end, inner : Done(end, Not(inner)))
      [] peek(p) = "(" ->
           Then(parseOr(p + 1), LAMBDA q, inner :
               Skip(q, ")", LAMBDA end : Done(end, inner)))
      [] OTHER -> parseComparison(p)

(* The loops of parseAnd and parseOr, with what is on the left.            *)
RECURSIVE MoreAnd(_, _)
MoreAnd(p, left) ==
    IF peek(p) = "and"
    THEN Then(parseUnary(p + 1), LAMBDA q, right : MoreAnd(q, And(left, right)))
    ELSE Done(p, left)

parseAnd(p) == Then(parseUnary(p), LAMBDA q, left : MoreAnd(q, left))

(* A faulty loop in which or binds as tightly as and.                      *)
RECURSIVE MoreOrFlat(_, _)
MoreOrFlat(p, left) ==
    IF peek(p) = "or"
    THEN Then(parseUnary(p + 1), LAMBDA q, right : MoreOrFlat(q, Or(left, right)))
    ELSE Done(p, left)

RECURSIVE MoreOr(_, _)
MoreOr(p, left) ==
    IF peek(p) = "or"
    THEN Then(parseAnd(p + 1), LAMBDA q, right : MoreOr(q, Or(left, right)))
    ELSE Done(p, left)

parseOr(p) == Then(parseAnd(p), LAMBDA q, left : MoreOr(q, left))

(* A class with an optional filter: a stage, or the head of a query.       *)
parseStage(p) ==
    Then(parseClass(p), LAMBDA q, class :
        IF peek(q) = "where"
        THEN Then(parseOr(q + 1), LAMBDA end, filter :
                 Done(end, [class |-> class, filter |-> filter]))
        ELSE Done(q, [class |-> class, filter |-> None]))

parsePipe(p) ==
    CASE peek(p) = "where" ->
           Then(parseOr(p + 1), LAMBDA end, filter :
               Done(end, [filter |-> filter, limit |-> ""]))
      [] peek(p) = "limit" ->
           Then(One(p + 1, peek(p + 1) \in WholeNumbers), LAMBDA end, n :
               Done(end, [filter |-> None, limit |-> n]))
      [] OTHER -> Refuse(p)

RECURSIVE MorePipes(_, _)
MorePipes(p, pipes) ==
    IF peek(p) = "|"
    THEN Then(parsePipe(p + 1), LAMBDA q, pipe : MorePipes(q, Append(pipes, pipe)))
    ELSE Done(p, pipes)

parseSimple(p) ==
    Then(parseStage(p), LAMBDA q, head :
        Then(MorePipes(q, << >>), LAMBDA end, pipes :
            Done(end, [head |-> head, pipes |-> pipes])))

(* A keyword and its operand, or nothing.                                  *)
Option(p, word, parsed) ==
    IF peek(p) = word THEN parsed ELSE Done(p, "")

RECURSIVE Stages(_, _)
Stages(p, stages) ==
    Then(parseStage(p), LAMBDA q, stage :
        IF peek(q) = ";" THEN Stages(q + 1, Append(stages, stage))
        ELSE Done(q, Append(stages, stage)))

(* A single stage is refused at the token after it.                        *)
parseSequence(p) ==
    Then(Option(p + 1, "by", parseField(p + 2)), LAMBDA q, by :
        Then(Option(q, "within", parseDuration(q + 1)), LAMBDA r, within :
            Skip(r, ":", LAMBDA first :
                Then(Stages(first, << >>), LAMBDA end, stages :
                    IF Len(stages) < 2 THEN Refuse(end)
                    ELSE Done(end, [by |-> by, within |-> within, stages |-> stages])))))

parseQuery == IF peek(1) = "sequence" THEN parseSequence(1) ELSE parseSimple(1)

(* parse: nothing may follow the query.                                    *)
parse ==
    Then(parseQuery, LAMBDA end, query :
        IF peek(end) = EOF THEN Done(end, query) ELSE Refuse(end))

-----------------------------------------------------------------------------
Init == tokens = << >>

(* Typing goes on a little after a refused token: the parser never looks   *)
(* at what follows one, the grammar does.                                  *)
Type(phrase) ==
    /\ Len(tokens) + Len(phrase) <= MaxTokens
    /\ parse.pos + Slack > Len(tokens)
    /\ tokens' = tokens \o phrase

Next == \E phrase \in Phrases : Type(phrase)

Spec == Init /\ [][Next]_tokens

-----------------------------------------------------------------------------
(* The grammar, as the trees that derive a sequence of tokens.             *)
(* The parts of s between the separators.                                  *)
RECURSIVE Parts(_, _)
Parts(s, separator) ==
    IF At(s, separator) = {} THEN <<s>>
    ELSE LET i == Min(At(s, separator)) IN <<Before(s, i)>> \o Parts(After(s, i), separator)

(* One tree for each part.                                                 *)
OneOfEach(trees) ==
    {f \in [DOMAIN trees -> UNION Range(trees)] : \A i \in DOMAIN f : f[i] \in trees[i]}

IsValue(t) == IsIdent(t) \/ t \in Strings \cup WholeNumbers \cup Fractions

IsTest(s) ==
    /\ Len(s) = 3
    /\ s[1] \in KnownFields /\ s[2] \in SymbolOps \cup WordOps /\ IsValue(s[3])
    /\ ~(s[2] = "=~" /\ s[3] \in BadPatterns)

(* field in ( value , value ... ): values at even places from the fourth.  *)
IsMembership(s) ==
    /\ Len(s) > 4 /\ Len(s) % 2 = 1
    /\ s[1] \in KnownFields /\ s[2] = "in" /\ s[3] = "(" /\ Last(s) = ")"
    /\ \A k \in 4..(Len(s) - 1) : IF k % 2 = 0 THEN IsValue(s[k]) ELSE s[k] = ","

GrammarComparison(s) ==
    CASE IsTest(s) -> {Compare(s[1], s[2], <<s[3]>>)}
      [] IsMembership(s) ->
           {Compare(s[1], "in", [k \in 1..((Len(s) - 3) \div 2) |-> s[2 * k + 2]])}
      [] OTHER -> {}

GrammarStage(s) ==
    CASE Len(s) = 1 /\ IsIdent(s[1]) -> {[class |-> s[1], filter |-> None]}
      [] Len(s) > 2 /\ IsIdent(s[1]) /\ s[2] = "where" ->
           {[class |-> s[1], filter |-> e] : e \in Derivations(After(s, 2), GrammarComparison)}
      [] OTHER -> {}

GrammarPipe(s) ==
    CASE Len(s) > 1 /\ s[1] = "where" ->
           {[filter |-> e, limit |-> ""] : e \in Derivations(Tail(s), GrammarComparison)}
      [] Len(s) = 2 /\ s[1] = "limit" /\ s[2] \in WholeNumbers ->
           {[filter |-> None, limit |-> s[2]]}
      [] OTHER -> {}

GrammarSimple(s) ==
    LET parts == Parts(s, "|") IN
    {[head |-> h, pipes |-> p] :
        h \in GrammarStage(Head(parts)),
        p \in OneOfEach([i \in DOMAIN Tail(parts) |-> GrammarPipe(Tail(parts)[i])])}

(* What may stand between "sequence" and the colon: [by, within].          *)
GrammarOptions(s) ==
    {o \in [by : KnownFields \cup {""}, within : Durations \cup WholeNumbers \cup {""}] :
        s = (IF o.by = "" THEN << >> ELSE <<"by", o.by>>)
            \o (IF o.within = "" THEN << >> ELSE <<"within", o.within>>)}

GrammarSequence(s) ==
    UNION {LET parts == Parts(After(s, i), ";") IN
           {[by |-> o.by, within |-> o.within, stages |-> c] :
               o \in IF Len(parts) > 1 THEN GrammarOptions(Tail(Before(s, i))) ELSE {},
               c \in OneOfEach([k \in DOMAIN parts |-> GrammarStage(parts[k])])} :
           i \in At(s, ":")}

Grammar(s) ==
    IF s # << >> /\ s[1] = "sequence" THEN GrammarSequence(s) ELSE GrammarSimple(s)

(* "ARQL grammar (recursive descent)" (parse.go): the parser accepts       *)
(* exactly the queries the grammar derives, and builds the one tree it     *)
(* derives: and binds tighter than or, not tighter than both, all to the   *)
(* left.                                                                   *)
ParsesTheGrammar ==
    Grammar(tokens) = IF parse.ok THEN {parse.tree} ELSE {}
=============================================================================
