-------------------------------- MODULE Yara --------------------------------
(***************************************************************************)
(* The YARA subset: the compiler (internal/yara/compile.go) and the scan   *)
(* of an executable (yara.go, enrich/yarascan.go).  The author types rules *)
(* phrase by phrase.                                                       *)
(*                                                                         *)
(* A token is what the parser takes at a time: a word, a sign, a string    *)
(* identifier, or a whole literal.  Contents are sequences of bytes.       *)
(***************************************************************************)
EXTENDS Descent, Integers, FiniteSets

CONSTANTS
    Start,          \* what a file begins with
    Phrases,        \* the sequences of tokens typed at a time
    Contents,       \* contents of scanned files
    MaxBytes,       \* YaraScanner.maxBytes
    MaxTokens       \* bound: tokens typed

vars == <<tokens>>

StringIDs == {"$a", "$b"}
Signs == {"{", "}", "(", ")", ":", "="}
Wild == "??"

(* parseString, parseEscape and parseHex: the bytes of a literal.  The     *)
(* others are an unknown escape, half a byte and no bytes at all.          *)
Literals == {"'Ab'", "{41 ??}", "'\\q'", "{4}", "''"}
BadLiterals == {"'\\q'", "{4}"}
IsText(literal) == literal \in {"'Ab'", "'\\q'", "''"}
BytesOf(literal) ==
    CASE literal = "'Ab'" -> <<"A", "b">>
      [] literal = "{41 ??}" -> <<"A", Wild>>
      [] OTHER -> << >>

IsIdent(t) == t \notin StringIDs \cup Signs \cup Literals \cup {"0", "1", "2", EOF}

-----------------------------------------------------------------------------
(* Conditions: or > and > not > primary.                                   *)
Ident(id) == [op |-> "ident", id |-> id]
Bool(v) == [op |-> "bool", v |-> v]
Quant(need) == [op |-> "quant", need |-> need]

parseQuantifier(p, need) ==
    Skip(p, "of", LAMBDA q : Skip(q, "them", LAMBDA end : Done(end, Quant(need))))

RECURSIVE parseOr(_)

parsePrimary(p) ==
    CASE peek(p) = "(" ->
           Then(parseOr(p + 1), LAMBDA q, inner : Skip(q, ")", LAMBDA end : Done(end, inner)))
      [] peek(p) \in StringIDs -> Done(p + 1, Ident(peek(p)))
      [] peek(p) \in {"true", "false"} -> Done(p + 1, Bool(peek(p) = "true"))
      [] peek(p) = "all" -> parseQuantifier(p + 1, -1)
      [] peek(p) \in {"any", "0"} -> parseQuantifier(p + 1, 0)
      [] peek(p) = "1" -> parseQuantifier(p + 1, 1)
      [] peek(p) = "2" -> parseQuantifier(p + 1, 2)
      [] OTHER -> Refuse(p)

RECURSIVE parseUnary(_)
parseUnary(p) ==
    IF peek(p) = "not" THEN Then(parseUnary(p + 1), LAMBDA q, inner : Done(q, Not(inner)))
    ELSE parsePrimary(p)

RECURSIVE MoreAnd(_, _)
MoreAnd(p, left) ==
    IF peek(p) = "and"
    THEN Then(parseUnary(p + 1), LAMBDA q, right : MoreAnd(q, And(left, right)))
    ELSE Done(p, left)

parseAnd(p) == Then(parseUnary(p), LAMBDA q, left : MoreAnd(q, left))

RECURSIVE MoreOr(_, _)
MoreOr(p, left) ==
    IF peek(p) = "or"
    THEN Then(parseAnd(p + 1), LAMBDA q, right : MoreOr(q, Or(left, right)))
    ELSE Done(p, left)

parseOr(p) == Then(parseAnd(p), LAMBDA q, left : MoreOr(q, left))

-----------------------------------------------------------------------------
(* Rules.                                                                  *)
atSectionHeader(p) == IsIdent(peek(p)) /\ peek(p + 1) = ":"

(* Entries of a list end before a section header or the closing brace.     *)
EndsEntries(p) == atSectionHeader(p) \/ peek(p) = "}"

RECURSIVE parseMeta(_)
parseMeta(p) ==
    CASE EndsEntries(p) -> Done(p, << >>)
      [] ~EndsEntries(p) /\ IsIdent(peek(p)) /\ peek(p + 1) = "=" ->
           IF peek(p + 2) \in {EOF, "'\\q'"} THEN Refuse(p + 2) ELSE parseMeta(p + 3)
      [] OTHER -> Refuse(p)

Modifiers == {"nocase", "wide"}

RECURSIVE AfterModifiers(_)
AfterModifiers(p) == IF peek(p) \in Modifiers THEN AfterModifiers(p + 1) ELSE p

RECURSIVE parseStrings(_, _)
parseStrings(p, patterns) ==
    LET literal == peek(p + 2)
        end == IF IsText(literal) THEN AfterModifiers(p + 3) ELSE p + 3
        pattern == [id |-> peek(p), bytes |-> BytesOf(literal),
                    nocase |-> \E i \in (p + 3)..(end - 1) : peek(i) = "nocase"]
    IN
    CASE EndsEntries(p) -> Done(p, patterns)
      [] ~EndsEntries(p) /\ (peek(p) \notin StringIDs \/ peek(p + 1) # "=") -> Refuse(p)
      [] ~EndsEntries(p) /\ literal \notin Literals -> Refuse(p + 2)
      [] ~EndsEntries(p) /\ literal \in BadLiterals -> Refuse(p + 2)
      [] ~EndsEntries(p) /\ BytesOf(literal) = << >> -> Refuse(p + 2)
      [] OTHER -> parseStrings(end, Append(patterns, pattern))

(* The sections of a rule, in any order; the last condition counts.        *)
RECURSIVE Sections(_, _)
Sections(p, rule) ==
    CASE peek(p) = "}" -> IF rule.cond = None THEN Refuse(p) ELSE Done(p + 1, rule)
      [] ~atSectionHeader(p) -> Refuse(p)
      [] peek(p) = "meta" -> Then(parseMeta(p + 2), LAMBDA q, none : Sections(q, rule))
      [] peek(p) = "strings" ->
           Then(parseStrings(p + 2, rule.patterns), LAMBDA q, patterns :
               Sections(q, [rule EXCEPT !.patterns = patterns]))
      [] peek(p) = "condition" ->
           Then(parseOr(p + 2), LAMBDA q, cond : Sections(q, [rule EXCEPT !.cond = cond]))
      [] OTHER -> Refuse(p)

RECURSIVE AfterTags(_)
AfterTags(p) == IF IsIdent(peek(p)) THEN AfterTags(p + 1) ELSE p

parseRule(p) ==
    Skip(p, "rule", LAMBDA q :
        Then(One(q, IsIdent(peek(q))), LAMBDA r, name :
            Skip(IF peek(r) = ":" THEN AfterTags(r + 1) ELSE r, "{", LAMBDA body :
                Sections(body, [name |-> name, patterns |-> << >>, cond |-> None]))))

RECURSIVE Rules(_, _)
Rules(p, rules) ==
    IF peek(p) = EOF THEN Done(p, rules)
    ELSE Then(parseRule(p), LAMBDA q, rule : Rules(q, Append(rules, rule)))

Compile == IF tokens = << >> THEN Refuse(1) ELSE Rules(1, << >>)

-----------------------------------------------------------------------------
(* Scanning.                                                               *)
fold(byte) == IF byte = "A" THEN "a" ELSE byte

matchAt(pattern, window) ==
    \A i \in DOMAIN pattern.bytes :
        \/ pattern.bytes[i] = Wild
        \/ window[i] = pattern.bytes[i]
        \/ pattern.nocase /\ fold(window[i]) = fold(pattern.bytes[i])

patternMatches(pattern, data) ==
    \E start \in 1..(Len(data) - Len(pattern.bytes) + 1) :
        matchAt(pattern, SubSeq(data, start, start + Len(pattern.bytes) - 1))

HitsOf(rule, data) == {i \in DOMAIN rule.patterns : patternMatches(rule.patterns[i], data)}

(* A faulty quantifier for which "any" asks for nothing.                   *)
evalQuantZero(need, total, count) == IF need < 0 THEN count = total ELSE count >= need

evalQuant(need, total, count) ==
    IF need < 0 THEN count = total ELSE count >= (IF need = 0 THEN 1 ELSE need)

RECURSIVE eval(_, _, _, _)
eval(e, hits, total, count) ==
    CASE e.op = "and" -> eval(e.l, hits, total, count) /\ eval(e.r, hits, total, count)
      [] e.op = "or" -> eval(e.l, hits, total, count) \/ eval(e.r, hits, total, count)
      [] e.op = "not" -> ~eval(e.inner, hits, total, count)
      [] e.op = "bool" -> e.v
      [] e.op = "ident" -> e.id \in hits
      [] OTHER -> evalQuant(e.need, total, count)

Fires(rule, data) ==
    LET hits == HitsOf(rule, data) IN
    eval(rule.cond, {rule.patterns[i].id : i \in hits}, Len(rule.patterns), Cardinality(hits))

(* YaraScanner.Scan reads the beginning of the file.                       *)
Beginning(content) ==
    SubSeq(content, 1, IF Len(content) > MaxBytes THEN MaxBytes ELSE Len(content))

Scan(content) ==
    IF content = << >> THEN << >>
    ELSE SelectSeq(Compile.tree, LAMBDA rule : Fires(rule, Beginning(content)))

-----------------------------------------------------------------------------
Init == tokens = Start

Type(phrase) ==
    /\ Len(tokens) + Len(phrase) <= MaxTokens
    /\ Compile.pos >= Len(tokens)
    /\ tokens' = tokens \o phrase

Next == \E phrase \in Phrases : Type(phrase)

Spec == Init /\ [][Next]_vars

-----------------------------------------------------------------------------
(* The language, read off the text by splitting it: a rule ends with its   *)
(* brace, a section begins with a word and a colon, a string with its      *)
(* identifier.                                                             *)
PartsAt(s, starts) ==
    LET order == SetToSortSeq(starts, <) IN
    [k \in DOMAIN order |->
        SubSeq(s, order[k], IF k < Len(order) THEN order[k + 1] - 1 ELSE Len(s))]

RulesOf(s) == PartsAt(s, {i \in DOMAIN s : i = 1 \/ s[i - 1] = "}"})

(* Sections begin after the opening brace.                                 *)
SectionsOf(s) ==
    PartsAt(Front(s), {i \in 3..(Len(s) - 2) :
                         /\ s[i + 1] = ":" /\ IsIdent(s[i])
                         /\ \E j \in 1..i : s[j] = "{"})

ConditionOf(s) ==
    After(Last(SelectSeq(SectionsOf(s), LAMBDA section : section[1] = "condition")), 2)

StringsOf(s) ==
    LET sections == SelectSeq(SectionsOf(s), LAMBDA section : section[1] = "strings")
        text == FlattenSeq(sections)
    IN PartsAt(text, {i \in DOMAIN text : text[i] \in StringIDs})

Operand(s) ==
    CASE Len(s) = 1 /\ s[1] \in StringIDs -> {Ident(s[1])}
      [] Len(s) = 1 /\ s[1] \in {"true", "false"} -> {Bool(s[1] = "true")}
      [] Len(s) = 3 /\ s[1] \in {"all", "any", "0", "1", "2"} /\ s[2] = "of" /\ s[3] = "them" ->
           {[op |-> "of them", many |-> s[1]]}
      [] OTHER -> {}

SameByte(x, y, nocase) == x = y \/ (nocase /\ {x, y} = {"a", "A"})

Occurs(string, data) ==
    LET bytes == BytesOf(string[3]) IN
    \E i \in 0..(Len(data) - Len(bytes)) : \A k \in DOMAIN bytes :
        bytes[k] = Wild \/ SameByte(data[i + k], bytes[k], "nocase" \in ToSet(string))

RECURSIVE Meaning(_, _, _)
Meaning(e, strings, data) ==
    LET found == {k \in DOMAIN strings : Occurs(strings[k], data)} IN
    CASE e.op = "and" -> Meaning(e.l, strings, data) /\ Meaning(e.r, strings, data)
      [] e.op = "or" -> Meaning(e.l, strings, data) \/ Meaning(e.r, strings, data)
      [] e.op = "not" -> ~Meaning(e.inner, strings, data)
      [] e.op = "bool" -> e.v
      [] e.op = "ident" -> \E k \in found : strings[k][1] = e.id
      [] e.op = "of them" /\ e.many = "all" -> found = DOMAIN strings
      [] e.op = "of them" /\ e.many = "2" -> Cardinality(found) > 1
      [] OTHER -> found # {}

(* A file that compiles says what its text says: each rule has a condition *)
(* of the grammar, the last one of the rule, and a scan reports the rules  *)
(* whose condition holds of the strings that occur in the data, in order.  *)
(* "0 of them" is "any of them", and a string that is not defined does not *)
(* occur.                                                                  *)
ScanMeansRules ==
    LET rules == RulesOf(tokens)
        fires(k, data) == \E e \in Derivations(ConditionOf(rules[k]), Operand) :
                              Meaning(e, StringsOf(rules[k]), data)
    IN
    Compile.ok =>
        /\ \A k \in DOMAIN rules : Cardinality(Derivations(ConditionOf(rules[k]), Operand)) = 1
        /\ \A content \in Contents \ {<< >>} :
              Scan(content) = SelectSeq(Compile.tree, LAMBDA rule :
                                  \E k \in DOMAIN rules :
                                      Compile.tree[k] = rule /\ fires(k, Beginning(content)))
=============================================================================
