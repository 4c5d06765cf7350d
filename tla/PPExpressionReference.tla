------------------------ MODULE PPExpressionReference ------------------------
(* What an #if expression means in C, told from its shape and not by reading *)
(* it from left to right: the operator that binds least is its main operator,*)
(* and the number a part has is defined or not, whether or not it is needed. *)
EXTENDS Integers, Sequences, FiniteSetsExt, Bitwise

CONSTANT Width
VARIABLE tokens

-----------------------------------------------------------------------------
(* Numbers are integers, in the range of their type.                         *)

Wrap(n, u) == LET m == n % 2 ^ Width
              IN  IF u \/ m < 2 ^ (Width - 1) THEN m ELSE m - 2 ^ Width

Def(n, u) == [defined |-> TRUE, formed |-> TRUE, number |-> Wrap(n, u), u |-> u]
Undef(u)  == [defined |-> FALSE, formed |-> TRUE, number |-> 0, u |-> u]
Malformed == [defined |-> FALSE, formed |-> FALSE, number |-> 0, u |-> FALSE]

Abs(n) == IF n < 0 THEN -n ELSE n
Chop(a, b) == LET q == Abs(a) \div Abs(b) IN IF (a < 0) = (b < 0) THEN q ELSE -q
Bits(n) == n % 2 ^ Width
Bool(b) == Def(IF b THEN 1 ELSE 0, FALSE)

\* An operator whose operands are both needed, on numbers of one type.
Common(op, a, b, u) ==
  CASE op = "==" -> Bool(a = b)  [] op = "!=" -> Bool(a # b)
    [] op = "<"  -> Bool(a < b)  [] op = "<=" -> Bool(a <= b)
    [] op = ">"  -> Bool(a > b)  [] op = ">=" -> Bool(a >= b)
    [] op = "+"  -> Def(a + b, u) [] op = "-" -> Def(a - b, u) [] op = "*" -> Def(a * b, u)
    [] op = "&"  -> Def(Bits(a) & Bits(b), u)
    [] op = "|"  -> Def(Bits(a) | Bits(b), u)
    [] op = "^"  -> Def(Bits(a) ^^ Bits(b), u)
    [] op \in {"/", "%"} ->
         IF b = 0 \/ Chop(a, b) # Wrap(Chop(a, b), u) THEN Undef(u)
         ELSE IF op = "/" THEN Def(Chop(a, b), u) ELSE Def(a - b * Chop(a, b), u)

Shift(op, x, y) ==
  IF y.number \notin 0..(Width - 1) THEN Undef(x.u)
  ELSE IF op = "<<" THEN Def(x.number * 2 ^ y.number, x.u)
                    ELSE Def(x.number \div 2 ^ y.number, x.u)

Compares == {"==", "!=", "<", "<=", ">", ">="}

Binary(op, x, y) ==
  LET u == (x.u \/ y.u) IN
  IF ~x.formed \/ ~y.formed THEN Malformed ELSE
  CASE op = "&&" -> IF ~x.defined THEN Undef(FALSE)
                    ELSE IF x.number = 0 THEN Bool(FALSE)
                    ELSE IF ~y.defined THEN Undef(FALSE) ELSE Bool(y.number # 0)
    [] op = "||" -> IF ~x.defined THEN Undef(FALSE)
                    ELSE IF x.number # 0 THEN Bool(TRUE)
                    ELSE IF ~y.defined THEN Undef(FALSE) ELSE Bool(y.number # 0)
    [] op \in {"<<", ">>"} -> IF x.defined /\ y.defined THEN Shift(op, x, y) ELSE Undef(x.u)
    [] OTHER -> IF x.defined /\ y.defined
                THEN Common(op, Wrap(x.number, u), Wrap(y.number, u), u)
                ELSE Undef(op \notin Compares /\ u)

Conditional(c, x, y) ==
  IF ~(c.formed /\ x.formed /\ y.formed) THEN Malformed
  ELSE LET u == (x.u \/ y.u)
           z == IF c.number # 0 THEN x ELSE y
       IN  IF c.defined /\ z.defined THEN Def(z.number, u) ELSE Undef(u)

Unary(op, x) ==
  IF ~x.formed THEN Malformed
  ELSE IF ~x.defined THEN Undef(op # "!" /\ x.u)
  ELSE CASE op = "!" -> Bool(x.number = 0)
         [] op = "-" -> Def(-x.number, x.u)
         [] op = "~" -> Def(-x.number - 1, x.u)
         [] OTHER    -> x

Constant(t) ==
  IF t.kind = "number" /\ ~t.u /\ t.value >= 2 ^ (Width - 1)
  THEN IF t.decimal THEN Malformed ELSE Def(t.value, TRUE)
  ELSE Def(t.value, t.u)

-----------------------------------------------------------------------------
(* The shape of the tokens from i up to but not including j.                 *)

Count(text, i, j) == Cardinality({k \in i..(j - 1) : tokens[k].text = text})

\* Outside all parentheses.
Outside(i, j) == {k \in i..(j - 1) : Count("(", i, k) = Count(")", i, k)}

Levels == <<{"||"}, {"&&"}, {"|"}, {"^"}, {"&"}, {"==", "!="}, {"<", "<=", ">", ">="},
            {"<<", ">>"}, {"+", "-"}, {"*", "/", "%"}>>
Level(op) == CHOOSE l \in DOMAIN Levels : op \in Levels[l]

\* Operators with an operand before them.
Operators(i, j) == {k \in Outside(i, j) \ {i} :
                      /\ \E l \in DOMAIN Levels : tokens[k].text \in Levels[l]
                      /\ tokens[k - 1].text = ")" \/ tokens[k - 1].kind # "punct"}

\* The last of those that bind least.
Main(ops) == Max({k \in ops : \A m \in ops : Level(tokens[k].text) <= Level(tokens[m].text)})

\* The colons that may belong to the question mark q.
Colons(q, i, j) == {k \in Outside(i, j) : k > q /\ tokens[k].text = ":"
                      /\ Count("?", q, k) = Count(":", q, k) + 1}

RECURSIVE Meaning(_, _)
Meaning(i, j) ==
  LET marks == {k \in Outside(i, j) : tokens[k].text = "?"}
      ops   == Operators(i, j)
  IN  CASE i >= j -> Malformed
        [] marks # {} ->
             LET q == Min(marks) IN
             IF Colons(q, i, j) = {} THEN Malformed
             ELSE LET c == Min(Colons(q, i, j))
                  IN  Conditional(Meaning(i, q), Meaning(q + 1, c), Meaning(c + 1, j))
        [] marks = {} /\ ops # {} ->
             LET k == Main(ops) IN Binary(tokens[k].text, Meaning(i, k), Meaning(k + 1, j))
        [] marks = {} /\ ops = {} /\ i < j ->
             CASE tokens[i].text \in {"+", "-", "!", "~"} ->
                    Unary(tokens[i].text, Meaning(i + 1, j))
               [] tokens[i].text = "(" /\ j > i + 2 /\ tokens[j - 1].text = ")" ->
                    Meaning(i + 1, j - 1)
               [] j = i + 1 /\ tokens[i].kind # "punct" -> Constant(tokens[i])
               [] OTHER -> Malformed
=============================================================================
