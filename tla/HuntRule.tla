------------------------------ MODULE HuntRule ------------------------------
(***************************************************************************)
(* A simple hunt and the rule it is promoted to (internal/hunt/torule.go), *)
(* the rule as the detection engine compiles and evaluates it              *)
(* (internal/detect/condition.go).  An analyst refines the query step by   *)
(* step; at any point it can be run, and saved as a rule.                  *)
(***************************************************************************)
EXTENDS Comparison, SequencesExt

CONSTANTS
    Events,     \* [event.type and other fields -> Raws]
    Leaves,     \* comparisons: [op |-> "cmp", field, rel, values]
    Classes,    \* what event.type may be, and "any"
    ActionText(_),  \* the text of an event class
    MaxLeaves   \* bound: comparisons in a query

VARIABLE query  \* [class, filters]: the where clause and the pipes' filters

And(l, r) == [op |-> "and", l |-> l, r |-> r]
Or(l, r) == [op |-> "or", l |-> l, r |-> r]
Not(e) == [op |-> "not", inner |-> e]

RECURSIVE LeavesOf(_)
LeavesOf(e) ==
    CASE e.op = "cmp" -> <<e>>
      [] e.op = "not" -> LeavesOf(e.inner)
      [] OTHER -> LeavesOf(e.l) \o LeavesOf(e.r)

QueryLeaves == FlattenSeq([i \in DOMAIN query.filters |-> LeavesOf(query.filters[i])])

-----------------------------------------------------------------------------
(* The query.                                                              *)
Init == \E class \in Classes : query = [class |-> class, filters |-> << >>]

Extend(filters) ==
    /\ Len(QueryLeaves) < MaxLeaves
    /\ query' = [query EXCEPT !.filters = filters]

(* "where", or "| where" after an earlier one.                             *)
Where(leaf) == Extend(Append(query.filters, leaf))

(* Refine the last filter.                                                 *)
Conjoin(leaf) ==
    /\ query.filters # << >>
    /\ Extend(Front(query.filters) \o <<And(Last(query.filters), leaf)>>)

Disjoin(leaf) ==
    /\ query.filters # << >>
    /\ Extend(Front(query.filters) \o <<Or(leaf, Last(query.filters))>>)

Negate ==
    /\ query.filters # << >>
    /\ Last(query.filters).op # "not"
    /\ query' = [query EXCEPT !.filters = Front(@) \o <<Not(Last(@))>>]

Next == Negate \/ \E leaf \in Leaves : Where(leaf) \/ Conjoin(leaf) \/ Disjoin(leaf)

Spec == Init /\ [][Next]_query

-----------------------------------------------------------------------------
(* The hunt.                                                               *)
RECURSIVE eval(_, _)
eval(e, event) ==
    CASE e.op = "and" -> eval(e.l, event) /\ eval(e.r, event)
      [] e.op = "or" -> eval(e.l, event) \/ eval(e.r, event)
      [] e.op = "not" -> ~eval(e.inner, event)
      [] OTHER -> HuntMatches(event[e.field], e.rel, e.values)

(* runSimple: the class, then every filter.  event.type and event.action   *)
(* both read the action.                                                   *)
Found(event) ==
    /\ query.class = "any" \/ event["event.type"].text = ActionText(query.class)
    /\ \A i \in DOMAIN query.filters : eval(query.filters[i], event)

-----------------------------------------------------------------------------
(* The rule.                                                               *)
RECURSIVE flatten(_, _)
RECURSIVE toCond(_)

(* A faulty flatten that goes through every operator.                      *)
flattenMixed(e, op) ==
    IF e.op \in {"and", "or"} THEN flatten(e.l, op) \o flatten(e.r, op) ELSE <<toCond(e)>>

(* a and b and c becomes one group of three.                               *)
flatten(e, op) ==
    IF e.op = op THEN flatten(e.l, op) \o flatten(e.r, op) ELSE <<toCond(e)>>

toCond(e) ==
    CASE e.op = "and" -> [kind |-> "all", kids |-> flatten(e, "and")]
      [] e.op = "or" -> [kind |-> "any", kids |-> flatten(e, "or")]
      [] e.op = "not" -> [kind |-> "not", kids |-> <<toCond(e.inner)>>]
      [] OTHER -> [kind |-> "leaf", field |-> e.field, rel |-> e.rel, values |-> e.values]

ClassGuard ==
    [kind |-> "leaf", field |-> "event.type", rel |-> "==",
     values |-> <<[isNum |-> FALSE, half |-> 0, str |-> ActionText(query.class)]>>]

matchTree ==
    LET conds == (IF query.class = "any" THEN << >> ELSE <<ClassGuard>>)
                 \o [i \in DOMAIN query.filters |-> toCond(query.filters[i])]
    IN
    CASE Len(conds) = 0 -> [kind |-> "exists", field |-> "event.type"]
      [] Len(conds) = 1 -> conds[1]
      [] OTHER -> [kind |-> "all", kids |-> conds]

(* Condition.Compile; groups are never empty, so classify accepts.         *)
RECURSIVE Compile(_)
Compile(c) ==
    CASE c.kind = "leaf" -> compileLeaf(c.rel, c.values)
      [] c.kind = "exists" -> TRUE
      [] OTHER -> \A i \in DOMAIN c.kids : Compile(c.kids[i])

RECURSIVE Eval(_, _)
Eval(c, event) ==
    CASE c.kind = "all" -> \A i \in DOMAIN c.kids : Eval(c.kids[i], event)
      [] c.kind = "any" -> \E i \in DOMAIN c.kids : Eval(c.kids[i], event)
      [] c.kind = "not" -> ~Eval(c.kids[1], event)
      [] c.kind = "exists" -> event[c.field].kind # "absent"
      [] OTHER -> RuleMatches(event[c.field], c.rel, c.values)

Fires(event) == Compile(matchTree) /\ Eval(matchTree, event)

-----------------------------------------------------------------------------
(* The kind a field has when it is there.                                  *)
KindOf(field) == CHOOSE kind \in Kinds : \E event \in Events : event[field].kind = kind

Typed ==
    \A i \in DOMAIN QueryLeaves :
        LET leaf == QueryLeaves[i] IN WellTyped(KindOf(leaf.field), leaf.rel, leaf.values)

Settled(event) ==
    \A i \in DOMAIN QueryLeaves :
        QueryLeaves[i].rel = "!=" => event[QueryLeaves[i].field].kind # "absent"

(* A query whose literals have the types of their fields gives a rule that *)
(* loads and fires on exactly the events the hunt finds (torule.go), as    *)
(* long as fields tested with != are there: the flattened groups, the      *)
(* class guard and the translated operators mean the same.                 *)
RuleMatchesHunt ==
    Typed => /\ Compile(matchTree)
             /\ \A event \in Events : Settled(event) => (Fires(event) <=> Found(event))

(* "The match tree is derived from the query itself, so the rule fires on  *)
(* exactly what the hunt found" (torule.go): for any query that compiles.  *)
RuleFiresOnFound == \A event \in Events : Fires(event) <=> Found(event)
=============================================================================
