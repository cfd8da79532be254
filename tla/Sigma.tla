-------------------------------- MODULE Sigma -------------------------------
(***************************************************************************)
(* The Sigma importer: argus sigma (cmd/argus/sigma.go) converts one file  *)
(* after the other (internal/sigma) and collects the rules in a bundle.    *)
(* The file being read is state; its condition is typed token by token.    *)
(*                                                                         *)
(* A value or a field's text is a sequence of characters.  A detection     *)
(* maps names to selections: the maps of a list (one, if it is no list),   *)
(* each a sequence of entries [field, modifiers, values].                  *)
(***************************************************************************)
EXTENDS Descent, FiniteSets, TLC

CONSTANTS
    Words,          \* tokens of conditions
    Headers,        \* what a file says beside its detection: [product, category, title, id]
    Detections,     \* detections, without the condition
    Events,         \* events to try a rule on: [action, fields]
    MaxTokens,      \* bound: tokens typed, over all files
    MaxFiles        \* bound: files converted

VARIABLES
    doc,        \* the file being read, without its condition
    bundle,     \* rules converted so far: [id, match]
    files       \* files read so far

vars == <<tokens, doc, bundle, files>>

Absent == <<"absent">>              \* no such field in the event

-----------------------------------------------------------------------------
(* mapping.go; other fields and categories are mapped the same way.        *)
categoryActions(category) ==
    CASE category = "process_creation" -> "exec"
      [] category \in {"network_connection", "dns_query"} -> "connect"
      [] category = "file_event" -> "open"
      [] OTHER -> "unsupported"

argusField(name) ==
    CASE name = "Image" -> "process.executable"
      [] name = "DestinationIp" -> "destination.ip"
      [] name = "QueryName" -> "dns.question.name"
      [] name = "TargetFilename" -> "file.path"
      [] OTHER -> "unsupported"

(* condDoc: a leaf, or a group of a kind; a group of one is its child.     *)
Leaf(field, op, value) == [kind |-> "leaf", field |-> field, rel |-> op, value |-> value]
Group(kind, kids) == [kind |-> kind, kids |-> kids]
Collapse(kind, kids) == IF Len(kids) = 1 THEN kids[1] ELSE Group(kind, kids)
allOf(kids) == Collapse("all", kids)
anyOf(kids) == Collapse("any", kids)

-----------------------------------------------------------------------------
(* detection.go: from the values up to the selections.                     *)
Stars(value) == {i \in DOMAIN value : value[i] = "*"}
Leading(value) == value # << >> /\ Head(value) = "*"
Trailing(value) == value # << >> /\ Last(value) = "*"

(* strings.Trim(value, "*").                                               *)
Trim(value) ==
    LET kept == DOMAIN value \ Stars(value) IN
    IF kept = {} THEN << >>
    ELSE SubSeq(value, CHOOSE i \in kept : \A j \in kept : i <= j,
                       CHOOSE i \in kept : \A j \in kept : i >= j)

(* A faulty inference that looks for wildcards in the whole value.         *)
inferStringOpWhole(value) ==
    IF {"*", "?"} \cap ToSet(value) # {} /\ ~Trailing(value) THEN [op |-> "wildcard", text |-> value]
    ELSE IF Trailing(value) THEN [op |-> "startswith", text |-> Trim(value)]
    ELSE [op |-> "eq", text |-> value]

(* An interior wildcard becomes an anchored regular expression.            *)
inferStringOp(value) ==
    LET core == Trim(value) IN
    CASE {"*", "?"} \cap ToSet(core) # {} -> [op |-> "wildcard", text |-> value]
      [] Leading(value) /\ Trailing(value) -> [op |-> "contains", text |-> core]
      [] Leading(value) /\ ~Trailing(value) -> [op |-> "endswith", text |-> core]
      [] ~Leading(value) /\ Trailing(value) -> [op |-> "startswith", text |-> core]
      [] OTHER -> [op |-> "eq", text |-> value]

(* modifierOp: the last operator named; others are translated alike.       *)
Operators == {"contains", "startswith", "endswith"}

modifierOp(modifiers) ==
    LET ops == SelectSeq(modifiers, LAMBDA m : m \in Operators) IN
    [ok |-> ToSet(modifiers) \subseteq Operators \cup {"all"},
     op |-> IF ops = << >> THEN "" ELSE Last(ops),
     requireAll |-> "all" \in ToSet(modifiers)]

valueLeaf(field, op, value) ==
    IF op # "" THEN Leaf(field, op, value)
    ELSE LET inferred == inferStringOp(value) IN Leaf(field, inferred.op, inferred.text)

(* An entry is refused for its field, a modifier, or an absent value.      *)
Supported(entry) ==
    /\ argusField(entry.field) # "unsupported"
    /\ modifierOp(entry.modifiers).ok
    /\ entry.values # << >>

fieldCondition(entry) ==
    LET mod == modifierOp(entry.modifiers)
        leaves == [i \in DOMAIN entry.values |->
                     valueLeaf(argusField(entry.field), mod.op, entry.values[i])]
    IN IF mod.requireAll THEN allOf(leaves) ELSE anyOf(leaves)

selectionMap(map) == allOf([i \in DOMAIN map |-> fieldCondition(map[i])])

compileSelection(maps) == anyOf([i \in DOMAIN maps |-> selectionMap(maps[i])])

Selections == doc.detection

(* Every selection compiles, whether the condition uses it or not.  A      *)
(* keyword is refused like a field that is not mapped.                     *)
Compiles ==
    /\ DOMAIN Selections # {}
    /\ \A name \in DOMAIN Selections :
        \A i \in DOMAIN Selections[name] :
          /\ Selections[name][i] # << >>
          /\ \A k \in DOMAIN Selections[name][i] : Supported(Selections[name][i][k])

-----------------------------------------------------------------------------
(* condition.go: the parser, which resolves names as it goes.  "sel*"      *)
(* stands for any prefix pattern, here of the names that begin with sel.   *)
selectionsMatching(names, pattern) ==
    CASE pattern = "them" -> names
      [] pattern = "sel*" -> names \cap {"sel1", "sel2"}
      [] OTHER -> names \cap {pattern}

isQuantifier(token) == token \in {"all", "any", "1", "2"}

parseQuantifier(p) ==
    LET matched == selectionsMatching(DOMAIN Selections, peek(p + 2))
        trees == SetToSeq({compileSelection(Selections[name]) : name \in matched})
    IN
    CASE peek(p + 1) # "of" -> Refuse(p + 1)
      [] peek(p + 1) = "of" /\ matched = {} -> Refuse(p + 2)
      [] peek(p + 1) = "of" /\ matched # {} /\ peek(p) = "2" -> Refuse(p + 2)
      [] OTHER -> Done(p + 3, IF peek(p) = "all" THEN allOf(trees) ELSE anyOf(trees))

RECURSIVE parseOr(_)

parseAtom(p) ==
    CASE peek(p) = "(" ->
           Then(parseOr(p + 1), LAMBDA q, inner : Skip(q, ")", LAMBDA end : Done(end, inner)))
      [] isQuantifier(peek(p)) -> parseQuantifier(p)
      [] peek(p) \in DOMAIN Selections -> Done(p + 1, compileSelection(Selections[peek(p)]))
      [] OTHER -> Refuse(p)

RECURSIVE parseNot(_)
parseNot(p) ==
    IF peek(p) = "not"
    THEN Then(parseNot(p + 1), LAMBDA q, inner : Done(q, Group("not", <<inner>>)))
    ELSE parseAtom(p)

(* collectTerms: the operands between the keyword.                         *)
RECURSIVE MoreAnd(_, _)
MoreAnd(p, terms) ==
    Then(parseNot(p), LAMBDA q, next :
        IF peek(q) = "and" THEN MoreAnd(q + 1, Append(terms, next))
        ELSE Done(q, allOf(Append(terms, next))))

RECURSIVE MoreOr(_, _)
MoreOr(p, terms) ==
    Then(MoreAnd(p, << >>), LAMBDA q, next :
        IF peek(q) = "or" THEN MoreOr(q + 1, Append(terms, next))
        ELSE Done(q, anyOf(Append(terms, next))))

parseOr(p) == MoreOr(p, << >>)

parseCondition ==
    Then(parseOr(1), LAMBDA end, tree :
        IF peek(end) = EOF THEN Done(end, tree) ELSE Refuse(end))

-----------------------------------------------------------------------------
(* sigma.go.  An and group takes the guard in.                             *)
anchorToAction(action, detection) ==
    LET guard == Leaf("event.action", "eq", action) IN
    IF detection.kind = "all" THEN Group("all", <<guard>> \o detection.kids)
    ELSE Group("all", <<guard, detection>>)

ruleID == IF doc.id # "" THEN <<"id", doc.id>> ELSE <<"hash of the title", doc.title>>

Convertible ==
    /\ doc.title # ""
    /\ doc.product \in {"", "linux"}
    /\ categoryActions(doc.category) # "unsupported"
    /\ Compiles
    /\ parseCondition.ok

Convert ==
    [id |-> ruleID,
     match |-> anchorToAction(categoryActions(doc.category), parseCondition.tree)]

Documents == {header @@ [detection |-> d] : header \in Headers, d \in Detections}

Fresh ==
    /\ doc \in Documents
    /\ bundle = << >>
    /\ files = 0

Init == tokens = << >> /\ Fresh

Type(word) ==
    /\ files < MaxFiles
    /\ Len(tokens) < MaxTokens
    /\ parseCondition.pos >= Len(tokens)
    /\ tokens' = Append(tokens, word)
    /\ UNCHANGED <<doc, bundle, files>>

(* A faulty loop that does not look for duplicate ids.                     *)
convertSigmaFileAgain ==
    /\ files < MaxFiles
    /\ files' = files + 1
    /\ bundle' = IF Convertible THEN Append(bundle, Convert) ELSE bundle
    /\ tokens' = << >>
    /\ doc' \in Documents

(* convertSigmaFiles, one file: converted, or skipped because it cannot be *)
(* converted or its id is in the bundle.                                   *)
convertSigmaFile ==
    /\ files < MaxFiles
    /\ files' = files + 1
    /\ bundle' = IF Convertible /\ \A i \in DOMAIN bundle : bundle[i].id # ruleID
                 THEN Append(bundle, Convert) ELSE bundle
    /\ tokens' = << >>
    /\ doc' \in Documents

Next == convertSigmaFile \/ \E word \in Words : Type(word)

Spec == Init /\ [][Next]_vars

-----------------------------------------------------------------------------
(* What the loader and the engine make of a converted rule.                *)
Starts(text, prefix) == Len(prefix) <= Len(text) /\ SubSeq(text, 1, Len(prefix)) = prefix
Ends(text, suffix) == Starts(Reverse(text), Reverse(suffix))
Holding(text, part) == \E i \in 0..Len(text) : Starts(SubSeq(text, i + 1, Len(text)), part)

(* What a Sigma value means: * is any text, ? any character.               *)
RECURSIVE Glob(_, _)
Glob(value, text) ==
    IF value = << >> THEN text = << >>
    ELSE \/ Head(value) = "*" /\ Glob(Tail(value), text)
         \/ Head(value) = "*" /\ text # << >> /\ Glob(value, Tail(text))
         \/ text # << >> /\ Head(value) \in {"?", Head(text)} /\ Glob(Tail(value), Tail(text))

Matches(op, value, text) ==
    CASE op = "eq" -> text = value
      [] op = "contains" -> Holding(text, value)
      [] op = "startswith" -> Starts(text, value)
      [] op = "endswith" -> Ends(text, value)
      [] OTHER -> Glob(value, text)

FieldOf(event, field) ==
    CASE field = "event.action" -> event.action
      [] field \in DOMAIN event.fields -> event.fields[field]
      [] OTHER -> Absent

RECURSIVE Eval(_, _)
Eval(tree, event) ==
    CASE tree.kind = "all" -> \A i \in DOMAIN tree.kids : Eval(tree.kids[i], event)
      [] tree.kind = "any" -> \E i \in DOMAIN tree.kids : Eval(tree.kids[i], event)
      [] tree.kind = "not" -> ~Eval(tree.kids[1], event)
      [] tree.field = "event.action" -> event.action = tree.value
      [] OTHER -> /\ FieldOf(event, tree.field) # Absent
                  /\ Matches(tree.rel, tree.value, FieldOf(event, tree.field))

(* Condition.Compile refuses an empty group.                               *)
RECURSIVE Loads(_)
Loads(tree) ==
    \/ tree.kind = "leaf"
    \/ tree.kids # << >> /\ \A i \in DOMAIN tree.kids : Loads(tree.kids[i])

-----------------------------------------------------------------------------
(* What the detection means, read off the file.                            *)
ValueHolds(op, value, text) ==
    text # Absent /\ IF op = "" THEN Glob(value, text) ELSE Matches(op, value, text)

EntryHolds(entry, event) ==
    LET op == modifierOp(entry.modifiers).op
        held == {i \in DOMAIN entry.values :
                   ValueHolds(op, entry.values[i], FieldOf(event, argusField(entry.field)))}
    IN IF "all" \in ToSet(entry.modifiers) THEN held = DOMAIN entry.values ELSE held # {}

Holds(name, event) ==
    \E i \in DOMAIN Selections[name] : \A k \in DOMAIN Selections[name][i] :
        EntryHolds(Selections[name][i][k], event)

(* Every detection of an instance has the same names.                      *)
Names == UNION {DOMAIN detection : detection \in Detections}

Operand(s) ==
    CASE Len(s) = 1 /\ s[1] \in Names -> {[op |-> "atom", all |-> TRUE, names |-> {s[1]}]}
      [] Len(s) = 3 /\ s[1] \in {"all", "any", "1"} /\ s[2] = "of" ->
           {[op |-> "atom", all |-> s[1] = "all", names |-> names] :
               names \in {selectionsMatching(Names, s[3])} \ {{}}}
      [] OTHER -> {}

RECURSIVE Meaning(_, _)
Meaning(e, event) ==
    CASE e.op = "and" -> Meaning(e.l, event) /\ Meaning(e.r, event)
      [] e.op = "or" -> Meaning(e.l, event) \/ Meaning(e.r, event)
      [] e.op = "not" -> ~Meaning(e.inner, event)
      [] OTHER -> IF e.all THEN \A name \in e.names : Holds(name, event)
                  ELSE \E name \in e.names : Holds(name, event)

(* The importer converts exactly the conditions of the grammar, and the    *)
(* converted rule fires on the events of its category that satisfy the     *)
(* detection: groups that were merged or collapsed, quantifiers, the |all  *)
(* modifier and inferred wildcards mean what they mean in Sigma.           *)
ConvertedMeansSigma ==
    LET trees == Derivations(tokens, Operand) IN
    Compiles =>
        /\ parseCondition.ok <=> trees # {}
        /\ Convertible =>
              \A e \in trees, event \in Events :
                  Eval(Convert.match, event) <=>
                      event.action = categoryActions(doc.category) /\ Meaning(e, event)

(* "an imported file is a first-class rule file" (docs/SIGMA.md): the      *)
(* loader accepts the bundle, as long as no selection is an empty list.    *)
BundleLoads ==
    /\ \A i, j \in DOMAIN bundle : i # j => bundle[i].id # bundle[j].id
    /\ \A i \in DOMAIN bundle : Loads(bundle[i].match)

(* The fields the sensors fill for an action (decode/wire.go).             *)
Carried(action) ==
    {"process.executable"}
    \cup (IF action \in {"connect", "dns"} THEN {"destination.ip"} ELSE {})
    \cup (IF action = "dns" THEN {"dns.question.name"} ELSE {})
    \cup (IF action = "open" THEN {"file.path"} ELSE {})

Emitted == {event \in Events : DOMAIN event.fields = Carried(event.action)}

(* docs/SIGMA.md: the importer skips what it cannot map "rather than       *)
(* emitting a rule that would never (or wrongly) match".  A detection that *)
(* some emitted event satisfies gives a rule that fires on one.            *)
ConvertedCanFire ==
    Convertible /\ (\E event \in Emitted : Eval(parseCondition.tree, event)) =>
        \E event \in Emitted : Eval(Convert.match, event)
=============================================================================
