---------------------------- MODULE FormulaParser -----------------------------
(***************************************************************************)
(* The formulas of computed fields (packages/core-objects/src/fields/      *)
(* formula): the recursive descent of parser.ts over the tokens of a       *)
(* formula, and evaluator.ts, checked against the grammar that             *)
(* parser.test.ts documents.  A behaviour types a formula token by token,  *)
(* as long as it may still become one.  A reference to a field is one      *)
(* token, one operator stands for all of its level, and a value is a       *)
(* number, a boolean or an error.                                          *)
(***************************************************************************)
EXTENDS Integers, SequencesExt

CONSTANTS
  Type,        \* fields, with the type of their values
  MaxTokens,   \* bound: length of a formula
  MaxDepth     \* MAX_NESTING_DEPTH

VARIABLE tokens

Field == DOMAIN Type
Literal == {"1", "TRUE"}
Function == {"NOT", "ABS", "AND"}
Token == Field \union Literal \union Function \union {"(", ")", ",", "-", "*", "=="}

\* validateArity.
ArityOf(f) == IF f = "AND" THEN 2..MaxTokens ELSE {1}

\* The operators of multiplicative and additive.
Operator == <<{"*"}, {"-"}>>

Node(op, args) == [op |-> op, args |-> args]

-------------------------------------------------------------------------------
\* The token at p, where a formula's end is no token, and what parsing returns:
\* the position after what was parsed, or 0 and the one that does not fit.
At(p) == IF p <= Len(tokens) THEN tokens[p] ELSE "eof"
Parsed(p, tree) == [p |-> p, tree |-> tree]
Unexpected(p) == [p |-> 0, tree |-> p]
Ok(r) == r.p # 0

\* expectPunct, after r.
Expect(r, token) ==
  IF ~Ok(r) THEN r
  ELSE IF At(r.p) = token THEN Parsed(r.p + 1, r.tree) ELSE Unexpected(r.p)

\* A loop over tokens, from what its first round returns.
Repeat(first, Round(_)) ==
  LET after[i \in 0..Len(tokens)] == IF i = 0 THEN first ELSE Round(after[i - 1])
  IN  after[Len(tokens)]

\* Each takes, as f, the function Descent, of what it parses inside.

\* parseCallArguments from the second on: one, and another after each comma.
Arguments(f, p, d) ==
  LET list(r, s) == IF Ok(s) THEN Parsed(s.p, Append(r, s.tree)) ELSE s
      more(r) == IF Ok(r) /\ At(r.p) = "," THEN list(r.tree, f[3, r.p + 1, d]) ELSE r
  IN Repeat(list(<< >>, f[3, p, d]), more)

Primary(f, p, d) ==
  LET inner(q) == IF d = MaxDepth THEN Unexpected(q - 1) ELSE f[3, q, d + 1]
      args(q) == IF d = MaxDepth THEN Unexpected(q - 1)
                 ELSE IF At(q) = ")" THEN Parsed(q, << >>) ELSE Arguments(f, q, d + 1)
      call == IF At(p + 1) # "(" THEN Unexpected(p + 1)
              ELSE LET r == Expect(args(p + 2), ")")
                   IN IF ~Ok(r) THEN r
                      ELSE IF Len(r.tree) \in ArityOf(At(p)) THEN Parsed(r.p, Node(At(p), r.tree))
                      ELSE Unexpected(p)
  IN CASE At(p) \in Literal \union Field -> Parsed(p + 1, Node(At(p), << >>))
       [] At(p) \in Function -> call
       [] At(p) = "(" -> Expect(inner(p + 1), ")")
       [] OTHER -> Unexpected(p)

Unary(f, p, d) ==
  IF At(p) # "-" THEN Primary(f, p, d)
  ELSE LET r == f[0, p + 1, d] IN IF Ok(r) THEN Parsed(r.p, Node("neg", <<r.tree>>)) ELSE r

\* What r and an operand of level k after it, with the operator between them, make.
Joined(f, k, r, d) ==
  LET s == f[k, r.p + 1, d] IN
  IF Ok(s) THEN Parsed(s.p, Node(At(r.p), <<r.tree, s.tree>>)) ELSE s

\* parseMultiplicative (1) and parseAdditive (2).
Left(f, k, p, d) ==
  LET more(r) == IF Ok(r) /\ At(r.p) \in Operator[k] THEN Joined(f, k - 1, r, d) ELSE r
  IN Repeat(f[k - 1, p, d], more)

\* parseComparison, which is parseExpression.
Expression(f, p, d) ==
  LET r == f[2, p, d] IN IF Ok(r) /\ At(r.p) = "==" THEN Joined(f, 2, r, d) ELSE r

\* What is parsed from p inside d pairs of parentheses: an operand (0), a product
\* (1), a sum (2) or an expression (3).
Descent[k \in 0..3, p \in 1..MaxTokens + 2, d \in 0..MaxDepth] ==
  CASE k = 0 -> Unary(Descent, p, d)
    [] k \in {1, 2} -> Left(Descent, k, p, d)
    [] k = 3 -> Expression(Descent, p, d)

\* parseFormula.
Formula ==
  LET r == Descent[3, 1, 0] IN
  IF Ok(r) /\ r.p <= Len(tokens) THEN Unexpected(r.p) ELSE r

\* t and all below it.
Nodes(t) ==
  LET down[i \in 0..MaxTokens] ==
        IF i = 0 THEN {t} ELSE down[i - 1] \union UNION {Range(s.args) : s \in down[i - 1]}
  IN  down[MaxTokens]

\* collectFieldRefs.
DependsOn(t) == {s.op : s \in Nodes(t)} \intersect Field

\* evaluateNode, where only the fields in set have a value: operands first, from
\* left to right, then the operator.
Value(t, set) ==
  LET value[s \in Nodes(t)] ==
        LET args == [i \in DOMAIN s.args |-> value[s.args[i]]]
            all(type) == \A i \in DOMAIN args : args[i] = type
        IN IF \E i \in DOMAIN args : args[i] = "error" THEN "error"
           ELSE CASE s.op = "1" -> "number"
                [] s.op = "TRUE" -> "boolean"
                [] s.op \in Field -> IF s.op \in set THEN Type[s.op] ELSE "error"
                [] s.op \in {"neg", "-", "*", "ABS"} -> IF all("number") THEN "number" ELSE "error"
                [] s.op = "==" -> IF args[1] = args[2] THEN "boolean" ELSE "error"
                [] s.op \in {"NOT", "AND"} -> IF all("boolean") THEN "boolean" ELSE "error"
  IN value[t]

-------------------------------------------------------------------------------
Init == tokens = << >>

\* The formula so far is one, or ends too early.
Viable == IF Ok(Formula) THEN TRUE ELSE Formula.tree > Len(tokens)

Next ==
  /\ Len(tokens) < MaxTokens
  /\ Viable
  /\ \E t \in Token : tokens' = Append(tokens, t)

Spec == Init /\ [][Next]_tokens

-------------------------------------------------------------------------------
TypeOK == tokens \in Seq(Token)

Splits(f, ops, k, l, i, j, d) ==
  UNION {{Node(tokens[m], <<t, u>>) : t \in f[k, i, m - 1, d], u \in f[l, m + 1, j, d]} :
           m \in {m \in i + 1..j - 1 : tokens[m] \in ops}}

\* The grammar: the trees of the tokens from i to j as an operand (0), a product
\* (1), a sum (2) or an expression (3), inside d pairs of parentheses, and (4) the
\* lists of them that are arguments.
Trees[k \in 0..4, i \in 1..MaxTokens + 1, j \in 0..MaxTokens, d \in 0..MaxDepth + 1] ==
  IF i > j THEN IF k = 4 THEN {<< >>} ELSE {}
  ELSE IF d > MaxDepth THEN {}
  ELSE CASE k = 4 ->
              {<<t>> : t \in Trees[3, i, j, d]}
              \union UNION {{<<t>> \o l : t \in Trees[3, i, m - 1, d], l \in Trees[4, m + 1, j, d] \ {<< >>}} :
                              m \in {m \in i + 1..j - 1 : tokens[m] = ","}}
         [] k = 3 -> Trees[2, i, j, d] \union Splits(Trees, {"=="}, 2, 2, i, j, d)
         [] k \in {1, 2} -> Trees[k - 1, i, j, d] \union Splits(Trees, Operator[k], k, k - 1, i, j, d)
         [] k = 0 ->
              (IF i = j /\ tokens[i] \in Literal \union Field THEN {Node(tokens[i], << >>)} ELSE {})
              \union (IF tokens[i] = "-" THEN {Node("neg", <<t>>) : t \in Trees[0, i + 1, j, d]} ELSE {})
              \union (IF tokens[i] = "(" /\ tokens[j] = ")" THEN Trees[3, i + 1, j - 1, d + 1] ELSE {})
              \union (IF tokens[i] \in Function /\ i + 2 <= j /\ tokens[i + 1] = "(" /\ tokens[j] = ")"
                        THEN {Node(tokens[i], l) :
                                l \in {l \in Trees[4, i + 2, j - 1, d + 1] : Len(l) \in ArityOf(tokens[i])}}
                        ELSE {})

\* The descent accepts exactly what the grammar derives, and returns the only
\* tree it has: one operator at a time, from the left, one comparison at most
\* (parser.test.ts 14-21), and nothing deeper than the bound.
ParsesTheGrammar ==
  Trees[3, 1, Len(tokens), 0] = IF Ok(Formula) THEN {Formula.tree} ELSE {}

\* What a formula is said to depend on is what its value depends on: it is an
\* error as soon as one of those fields has no value, and no other field matters.
\* The order in which computed fields are computed rests on that.
DependsOnWhatItReads ==
  Ok(Formula) =>
    \A set \in SUBSET Field :
      Value(Formula.tree, set) =
        IF DependsOn(Formula.tree) \subseteq set THEN Value(Formula.tree, Field) ELSE "error"
===============================================================================
