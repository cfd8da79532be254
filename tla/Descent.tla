------------------------------ MODULE Descent -------------------------------
(***************************************************************************)
(* What the repository's recursive-descent parsers have in common: a       *)
(* cursor over tokens, and a parse that is done, with the next position    *)
(* and a tree, or refused; and the grammar of boolean expressions that     *)
(* they are checked against.                                               *)
(***************************************************************************)
EXTENDS Naturals, Sequences, SequencesExt

VARIABLE tokens     \* what is parsed

EOF == "end of input"

peek(p) == IF p <= Len(tokens) THEN tokens[p] ELSE EOF

None == [op |-> "none"]
And(l, r) == [op |-> "and", l |-> l, r |-> r]
Or(l, r) == [op |-> "or", l |-> l, r |-> r]
Not(e) == [op |-> "not", inner |-> e]

Done(p, tree) == [ok |-> TRUE, pos |-> p, tree |-> tree]
Refuse(p) == [ok |-> FALSE, pos |-> p, tree |-> None]
Then(r, Rest(_, _)) == IF r.ok THEN Rest(r.pos, r.tree) ELSE r
One(p, accepted) == IF accepted THEN Done(p + 1, peek(p)) ELSE Refuse(p)
Skip(p, text, Rest(_)) == IF peek(p) = text THEN Rest(p + 1) ELSE Refuse(p)

(* Splitting a sequence at a word.                                         *)
At(s, word) == {i \in DOMAIN s : s[i] = word}
Before(s, i) == SubSeq(s, 1, i - 1)
After(s, i) == SubSeq(s, i + 1, Len(s))

-----------------------------------------------------------------------------
(* The grammar of boolean expressions, as a reference for the parsers: the *)
(* trees that derive a sequence of tokens, found by splitting it wherever  *)
(* a production may; atom[s] are those that derive s as an operand.  or    *)
(* binds loosest, not tightest, and both operators associate to the left.  *)
RECURSIVE GrammarOr(_, _)

RECURSIVE GrammarUnary(_, _)
GrammarUnary(s, atom) ==
    {Not(e) : e \in IF s # << >> /\ s[1] = "not" THEN GrammarUnary(Tail(s), atom) ELSE {}}
    \cup (IF Len(s) > 2 /\ s[1] = "(" /\ Last(s) = ")" THEN GrammarOr(Tail(Front(s)), atom) ELSE {})
    \cup atom[s]

RECURSIVE GrammarAnd(_, _)
GrammarAnd(s, atom) ==
    GrammarUnary(s, atom) \cup
    UNION {{And(l, r) : l \in GrammarAnd(Before(s, i), atom), r \in GrammarUnary(After(s, i), atom)} :
             i \in At(s, "and")}

GrammarOr(s, atom) ==
    GrammarAnd(s, atom) \cup
    UNION {{Or(l, r) : l \in GrammarOr(Before(s, i), atom), r \in GrammarAnd(After(s, i), atom)} :
             i \in At(s, "or")}

Derivations(s, Atom(_)) == GrammarOr(s, [piece \in SubSeqs(s) |-> Atom(piece)])
=============================================================================
