------------------------------ MODULE Expressions ------------------------------
(***************************************************************************)
(* The language of rule conditions, packages/rules/expression_parser.py:   *)
(* tokens, the recursive descent parser, and evaluation, beside a grammar  *)
(* and a meaning defined without a parser, to which they are compared.     *)
(*                                                                         *)
(* An expression is a sequence of lexemes, the strings the tokeniser's     *)
(* patterns match one after the other.  A value is a record of its type,   *)
(* its place in the order of its type, and the number float() makes of it, *)
(* a set of at most one; the place is 0 for 0, False, the empty string     *)
(* and None, the values that count as false.  What may raise returns the   *)
(* set of its results: empty when it raises.                               *)
(***************************************************************************)
EXTENDS Integers, Sequences, FiniteSets

CONSTANTS
    Lexemes,    \* the lexemes expressions are written with: records of a kind (a TokenType,
                \*   or "MINUS" for a number written with a sign, "JUNK" for anything else)
                \*   and the value a literal has, a set of at most one
    Contexts    \* contexts: functions from the names of some fields to their values

ASSUME ExpressionsAssumption ==
    \A l \in Lexemes : /\ DOMAIN l = {"kind", "text", "value"}
                       /\ (l.value # {}) <=> (l.kind \in {"STRING", "NUMBER", "MINUS", "BOOLEAN"})

Number(n) == [type |-> "number", place |-> n, float |-> {n}]
Boolean(b) == [type |-> "bool", place |-> IF b THEN 1 ELSE 0, float |-> {IF b THEN 1 ELSE 0}]
None == [type |-> "none", place |-> 0, float |-> {}]

Literals == {"STRING", "NUMBER", "BOOLEAN"}
Comparisons == {"==", "!=", "<", ">", "<=", ">="}

------------------------------------------------------------------------------
(* tokenize *)

\* The tokens whose successor cannot be a signed number: after one of them the sign is
\* taken for an operator, and there is no such operator.
Operands == Literals \cup {"FIELD", "RPAREN"}

Token(l) == IF l.kind = "MINUS" THEN [l EXCEPT !.kind = "NUMBER"] ELSE l

EOF == [kind |-> "EOF", text |-> "", value |-> {}]

Tokens(s) ==
    LET toks == [i \in 1 .. Len(s) |-> Token(s[i])] IN
    IF \/ s = <<>>
       \/ \E i \in 1 .. Len(s) : s[i].kind = "JUNK"
       \/ \E i \in 2 .. Len(s) : s[i].kind = "MINUS" /\ toks[i - 1].kind \in Operands
      THEN {}
      ELSE {Append(toks, EOF)}

------------------------------------------------------------------------------
(* _Parser: each rule returns the node it has built and the token it stopped at. *)

Node(n, p) == [node |-> n, at |-> p]

RECURSIVE OrExpr(_, _), OrRest(_, _, _), AndExpr(_, _), AndRest(_, _, _), NotExpr(_, _)

Primary(t, p) ==
    CASE t[p].kind = "LPAREN" ->
            {Node(r.node, r.at + 1) : r \in {q \in OrExpr(t, p + 1) : t[q.at].kind = "RPAREN"}}
      [] t[p].kind \in Literals -> {Node(<<"value", v>>, p + 1) : v \in t[p].value}
      [] t[p].kind = "FIELD" -> {Node(<<"field", t[p].text>>, p + 1)}
      [] OTHER -> {}

\* One comparison at most: a == b == c is an error.
Comparison(t, p) ==
    UNION {IF t[l.at].kind \in Comparisons
             THEN {Node(<<t[l.at].kind, l.node, r.node>>, r.at) : r \in Primary(t, l.at + 1)}
             ELSE {l} : l \in Primary(t, p)}

NotExpr(t, p) ==
    IF t[p].kind = "NOT" THEN {Node(<<"NOT", r.node>>, r.at) : r \in NotExpr(t, p + 1)}
                         ELSE Comparison(t, p)

AndRest(t, left, p) ==
    IF t[p].kind = "AND"
      THEN UNION {AndRest(t, <<"AND", left, r.node>>, r.at) : r \in NotExpr(t, p + 1)}
      ELSE {Node(left, p)}

AndExpr(t, p) == UNION {AndRest(t, l.node, l.at) : l \in NotExpr(t, p)}

OrRest(t, left, p) ==
    IF t[p].kind = "OR"
      THEN UNION {OrRest(t, <<"OR", left, r.node>>, r.at) : r \in AndExpr(t, p + 1)}
      ELSE {Node(left, p)}

OrExpr(t, p) == UNION {OrRest(t, l.node, l.at) : l \in AndExpr(t, p)}

Parse(t) == {r.node : r \in {q \in OrExpr(t, 1) : t[q.at].kind = "EOF"}}

Validates(s) == UNION {Parse(t) : t \in Tokens(s)} # {}

------------------------------------------------------------------------------
(* evaluate *)

Truthy(v) == v.place # 0

\* _coerce_for_comparison: values of one type are compared as they are, of two types as
\* numbers if both can be numbers; otherwise they are unequal and have no order.
Compare(op, l, r) ==
    LET same == l.type = r.type
        numbers == l.float # {} /\ r.float # {}
        a == IF same THEN l.place ELSE CHOOSE n \in l.float : TRUE
        b == IF same THEN r.place ELSE CHOOSE n \in r.float : TRUE
    IN
    IF same \/ numbers
      THEN CASE op = "==" -> {Boolean(a = b)}
             [] op = "!=" -> {Boolean(a # b)}
             [] l = None /\ r = None -> {}
             [] op = "<" -> {Boolean(a < b)}
             [] op = ">" -> {Boolean(a > b)}
             [] op = "<=" -> {Boolean(a <= b)}
             [] op = ">=" -> {Boolean(a >= b)}
      ELSE CASE op = "==" -> {Boolean(FALSE)}
             [] op = "!=" -> {Boolean(TRUE)}
             [] OTHER -> {}

\* The right side is evaluated only if the left one does not decide.
ShortCut(op, left, right) ==
    IF Truthy(left) = (op = "OR") THEN {Boolean(op = "OR")} ELSE {Boolean(Truthy(v)) : v \in right}

BothSides(op, left, right) ==
    {Boolean(IF op = "OR" THEN Truthy(left) \/ Truthy(v) ELSE Truthy(left) /\ Truthy(v)) : v \in right}

Connect(op, left, right) == ShortCut(op, left, right)

RECURSIVE EvalNode(_, _)
EvalNode(n, ctx) ==
    CASE n[1] = "value" -> {n[2]}
      [] n[1] = "field" -> IF n[2] \in DOMAIN ctx THEN {ctx[n[2]]} ELSE {}
      [] n[1] = "NOT" -> {Boolean(~Truthy(v)) : v \in EvalNode(n[2], ctx)}
      [] n[1] \in {"AND", "OR"} ->
            UNION {Connect(n[1], v, EvalNode(n[3], ctx)) : v \in EvalNode(n[2], ctx)}
      [] n[1] \in Comparisons ->
            UNION {UNION {Compare(n[1], v, w) : w \in EvalNode(n[3], ctx)} : v \in EvalNode(n[2], ctx)}

Evaluate(s, ctx) ==
    {Truthy(v) : v \in UNION {EvalNode(n, ctx) : n \in UNION {Parse(t) : t \in Tokens(s)}}}

------------------------------------------------------------------------------
(* The grammar of the module's docstring, as a relation between a string of  *)
(* token kinds and the nonterminals it can be derived from.                  *)

Before(s, i) == SubSeq(s, 1, i - 1)
After(s, i) == SubSeq(s, i + 1, Len(s))

Places(s, kinds) == {i \in 1 .. Len(s) : s[i].kind \in kinds}

RECURSIVE IsExpression(_), IsConjunction(_), IsNegation(_)

IsPrimary(s) ==
    \/ Len(s) = 1 /\ s[1].kind \in Literals \cup {"FIELD"}
    \/ /\ Len(s) > 2 /\ s[1].kind = "LPAREN" /\ s[Len(s)].kind = "RPAREN"
       /\ IsExpression(SubSeq(s, 2, Len(s) - 1))

IsComparison(s) ==
    \/ IsPrimary(s)
    \/ \E i \in Places(s, Comparisons) : IsPrimary(Before(s, i)) /\ IsPrimary(After(s, i))

IsNegation(s) ==
    \/ s # <<>> /\ s[1].kind = "NOT" /\ IsNegation(Tail(s))
    \/ IsComparison(s)

IsConjunction(s) ==
    \/ IsNegation(s)
    \/ \E i \in Places(s, {"AND"}) : IsConjunction(Before(s, i)) /\ IsNegation(After(s, i))

IsExpression(s) ==
    \/ IsConjunction(s)
    \/ \E i \in Places(s, {"OR"}) : IsExpression(Before(s, i)) /\ IsConjunction(After(s, i))

\* Its meaning, from the outside in: the connectives outside all parentheses are cut at the
\* first one, where the parser groups at the last one.
Depth(s, i) ==
    Cardinality(Places(SubSeq(s, 1, i), {"LPAREN"})) - Cardinality(Places(SubSeq(s, 1, i), {"RPAREN"}))

Cuts(s, kinds) == {i \in Places(s, kinds) : Depth(s, i) = 0}

First(cuts) == CHOOSE i \in cuts : \A j \in cuts : i <= j

RECURSIVE Meaning(_, _)
Meaning(s, ctx) ==
    LET cut(kinds) == First(Cuts(s, kinds))
        left(kinds) == Meaning(Before(s, cut(kinds)), ctx)
        right(kinds) == Meaning(After(s, cut(kinds)), ctx)
    IN
    CASE Cuts(s, {"OR"}) # {} ->
            UNION {IF Truthy(v) THEN {Boolean(TRUE)} ELSE {Boolean(Truthy(w)) : w \in right({"OR"})}
                     : v \in left({"OR"})}
      [] Cuts(s, {"OR"}) = {} /\ Cuts(s, {"AND"}) # {} ->
            UNION {IF Truthy(v) THEN {Boolean(Truthy(w)) : w \in right({"AND"})} ELSE {Boolean(FALSE)}
                     : v \in left({"AND"})}
      [] Cuts(s, {"OR", "AND"}) = {} /\ s[1].kind = "NOT" ->
            {Boolean(~Truthy(v)) : v \in Meaning(Tail(s), ctx)}
      [] Cuts(s, {"OR", "AND", "NOT"}) = {} /\ Cuts(s, Comparisons) # {} ->
            UNION {Compare(s[cut(Comparisons)].kind, v, w)
                     : v \in left(Comparisons), w \in right(Comparisons)}
      [] Len(s) = 1 -> IF s[1].kind = "FIELD" THEN {ctx[f] : f \in DOMAIN ctx \cap {s[1].text}}
                                              ELSE s[1].value
      [] OTHER -> Meaning(SubSeq(s, 2, Len(s) - 1), ctx)

------------------------------------------------------------------------------
(* Properties, of one expression s. *)

\* ExpressionParser.validate accepts exactly the strings of the documented grammar: nothing
\* is left over after the expression, no comparison is chained, NOT binds less than a
\* comparison and is not an operand of one.
FollowsGrammar(s) ==
    Validates(s) <=> \E t \in Tokens(s) : IsExpression(SubSeq(t, 1, Len(t) - 1))

\* An expression means what the grouping of its connectives says, in every context: AND and
\* OR stop at the part that decides, so that a field missing from the context raises only
\* if it is reached, and operands of different types compare as numbers or not at all.
MeansWhatItSays(s) ==
    Validates(s) =>
        \A ctx \in Contexts :
            Evaluate(s, ctx) = {Truthy(v) : v \in UNION {Meaning(SubSeq(t, 1, Len(t) - 1), ctx) : t \in Tokens(s)}}
================================================================================
