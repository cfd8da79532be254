----------------------------- MODULE Comparison -----------------------------
(***************************************************************************)
(* One comparison, twice: as a hunt evaluates it (internal/hunt/eval.go),  *)
(* and as a detection rule does after the hunt was promoted to one         *)
(* (torule.go toCond, internal/detect/operators.go compileLeaf).           *)
(*                                                                         *)
(* A text is known by what the parsers of the standard library make of it: *)
(* its form and a value.  Numbers are counted in halves, so that fractions *)
(* and integers both occur; the lexer knows no negative ones.              *)
(***************************************************************************)
EXTENDS Naturals, Sequences

CONSTANT TextMatch(_, _, _)  \* TextMatch(op, text, pattern): contains, =~, ...

Forms ==
    {"plain",       \* digits as FormatInt and Sprint write them: 80, 80.5
     "padded",      \* the same with leading zeros: 080
     "exponent",    \* as FormatFloat writes numbers from a million: 8e+06
     "bool",        \* false (value 0) or true (value 1)
     "word"}        \* anything else

Numerals == {"plain", "padded", "exponent"}

Text(form, val) == [form |-> form, val |-> val]
Texts == [form : Forms, val : Nat]

Whole(half) == half % 2 = 0

(* strconv.FormatFloat(x, 'g', -1, 64) changes to an exponent at 10^6,     *)
(* fmt.Sprint only for floats of 10^21 and more.                           *)
FormatFloat(half) == Text(IF half < 2 * 1000000 THEN "plain" ELSE "exponent", half)
Sprint(half) == Text("plain", half)
FormatBool(b) == Text("bool", b)

-----------------------------------------------------------------------------
(* Field values: a number and a text, of which the kind says the one used. *)
Kinds == {"int64", "bool", "string"}
Raws == [kind : Kinds \cup {"absent"}, num : Nat, text : Texts]

(* A literal of a query: the text as written, and the number if it is one. *)
Literals ==
    [isNum : {FALSE}, half : {0}, str : Texts]
    \cup {v \in [isNum : {TRUE}, half : Nat, str : Texts] :
            v.str.form \in {"plain", "padded"} /\ v.str.val = v.half}

TextOps == {"contains", "startswith", "endswith", "=~"}
OrderOps == {">", "<", ">=", "<="}
EqualityOps == {"==", "!=", "in"}

Ordered(op, left, right) ==
    \/ op = ">" /\ left > right
    \/ op = "<" /\ left < right
    \/ op = ">=" /\ left >= right
    \/ op = "<=" /\ left <= right

-----------------------------------------------------------------------------
(* The hunt.                                                               *)
ValueString(v) == IF v.isNum THEN FormatFloat(v.half) ELSE v.str

IsNumber(v) == v.isNum \/ v.str.form \in Numerals
asNumber(v) == IF v.isNum THEN v.half ELSE v.str.val

toString(raw) ==
    IF raw.kind = "string" THEN raw.text
    ELSE IF raw.kind = "bool" THEN FormatBool(raw.num)
    ELSE Sprint(2 * raw.num)

valueEquals(raw, v) ==
    \/ raw.kind = "int64" /\ IsNumber(v) /\ 2 * raw.num = asNumber(v)
    \/ raw.kind = "bool" /\ v.str = FormatBool(raw.num)
    \/ raw.kind = "string" /\ raw.text = ValueString(v)

numericCompare(raw, op, v) ==
    /\ IsNumber(v)
    /\ \/ raw.kind = "int64" /\ Ordered(op, 2 * raw.num, asNumber(v))
       \/ /\ raw.kind = "string" /\ raw.text.form \in Numerals
          /\ Ordered(op, raw.text.val, asNumber(v))

(* comparison.eval: a field that is absent never matches.                  *)
HuntMatches(raw, op, values) ==
    /\ raw.kind # "absent"
    /\ \/ op = "==" /\ valueEquals(raw, values[1])
       \/ op = "!=" /\ ~valueEquals(raw, values[1])
       \/ op = "in" /\ \E i \in DOMAIN values : valueEquals(raw, values[i])
       \/ op \in TextOps /\ TextMatch(op, toString(raw), values[1].str)
       \/ op \in OrderOps /\ numericCompare(raw, op, values[1])

-----------------------------------------------------------------------------
(* The rule.  Its value is a number (an int or, with a fraction, a float)  *)
(* or a string; YAML keeps the difference.                                 *)
literal(v) ==
    [kind |-> IF v.isNum THEN "number" ELSE "string", half |-> v.half, str |-> v.str]

LiteralString(want) == IF want.kind = "string" THEN want.str ELSE Sprint(want.half)

(* ParseInt takes no fraction and no exponent; a float is truncated.       *)
IsInt64(want) ==
    \/ want.kind = "number"
    \/ want.str.form \in {"plain", "padded"} /\ Whole(want.str.val)
toInt64(want) == (IF want.kind = "number" THEN want.half ELSE want.str.val) \div 2

(* ParseBool also takes 0 and 1.                                           *)
toBool(want, b) ==
    /\ want.kind = "string"
    /\ \/ want.str = FormatBool(b)
       \/ want.str = Text("plain", 2 * b)

valuesEqual(raw, want) ==
    \/ raw.kind = "string" /\ raw.text = LiteralString(want)
    \/ raw.kind = "bool" /\ toBool(want, raw.num)
    \/ raw.kind = "int64" /\ IsInt64(want) /\ raw.num = toInt64(want)

(* compileLeaf refuses an order on a value that is not a number.           *)
compileLeaf(op, values) == op \in OrderOps => IsInt64(literal(values[1]))

(* equality, membership, stringMatch, regexMatch and numberCompare: a      *)
(* field that is absent satisfies ne.                                      *)
RuleMatches(raw, op, values) ==
    \/ /\ op = "=="
       /\ raw.kind # "absent" /\ valuesEqual(raw, literal(values[1]))
    \/ /\ op = "!="
       /\ raw.kind = "absent" \/ ~valuesEqual(raw, literal(values[1]))
    \/ /\ op = "in" /\ raw.kind # "absent"
       /\ \E i \in DOMAIN values : valuesEqual(raw, literal(values[i]))
    \/ /\ op \in TextOps /\ raw.kind = "string"
       /\ TextMatch(op, raw.text, LiteralString(literal(values[1])))
    \/ /\ op \in OrderOps /\ raw.kind = "int64"
       /\ Ordered(op, raw.num, toInt64(literal(values[1])))

-----------------------------------------------------------------------------
(* The literals have the type of the field: what an analyst means to       *)
(* write, and what the two evaluations agree on.                           *)
TypedLiteral(kind, v) ==
    \/ kind = "string" /\ ~v.isNum
    \/ kind = "int64" /\ v.isNum /\ Whole(v.half)
    \/ kind = "bool" /\ ~v.isNum /\ v.str.form = "bool"

TypedOp(kind, op) ==
    \/ op \in EqualityOps
    \/ kind = "string" /\ op \in TextOps
    \/ kind = "int64" /\ op \in OrderOps

WellTyped(kind, op, values) ==
    TypedOp(kind, op) /\ \A i \in DOMAIN values : TypedLiteral(kind, values[i])
=============================================================================
