---------------------------- MODULE PPExpression -----------------------------
(* The evaluation of the expression of an #if or #elif, after macros are     *)
(* expanded (class Expression of PPExpression.cpp): a recursive descent that *)
(* computes as it parses, with a flag saying whether the operand at hand is  *)
(* evaluated.  Numbers are `Width` bits wide instead of 64.                  *)
(*                                                                           *)
(* Only the first error is reported, and it makes the directive fail whatever*)
(* is parsed after it; here nothing is parsed after it.  The expression is   *)
(* built token by token: `tokens` goes on growing while it is all right or   *)
(* only misses its end.                                                      *)
EXTENDS Integers, Sequences, Bitwise

CONSTANTS Width,      \* bits of a number, 64 in the code
          MaxNesting, \* nested operands, 256 in the code
          Families    \* bounds: tokens an expression is made of, and how many

VARIABLES tokens,
          family  \* the member of Families the expression belongs to

-----------------------------------------------------------------------------
(* Tokens: numbers with a value, a radix and a suffix; identifiers, which    *)
(* are 0; characters; operators and punctuation.                             *)

Number(value, decimal, u) ==
  [kind |-> "number", text |-> "", value |-> value, decimal |-> decimal, u |-> u]
Identifier == [Number(0, TRUE, FALSE) EXCEPT !.kind = "identifier"]
Character(value) == [Number(value, TRUE, FALSE) EXCEPT !.kind = "character"]
Punct(text) == [Number(0, TRUE, FALSE) EXCEPT !.kind = "punct", !.text = text]

Modulus == 2 ^ Width
SignBit == 2 ^ (Width - 1)

precedence == [op \in {"||", "&&", "|", "^", "&", "==", "!=", "<", "<=", ">", ">=",
                       "<<", ">>", "+", "-", "*", "/", "%"} |->
  CASE op = "||" -> 1 [] op = "&&" -> 2 [] op = "|" -> 3 [] op = "^" -> 4 [] op = "&" -> 5
    [] op \in {"==", "!="} -> 6 [] op \in {"<", "<=", ">", ">="} -> 7
    [] op \in {"<<", ">>"} -> 8 [] op \in {"+", "-"} -> 9 [] OTHER -> 10]

-----------------------------------------------------------------------------
(* Values and the state of the parser: the next position, the value and the  *)
(* first error: "none", "end" for a missing token, or "error".               *)

Value(bits, u) == [bits |-> bits % Modulus, u |-> u]
Truth(b) == Value(IF b THEN 1 ELSE 0, FALSE)
Zero == Value(0, FALSE)
Signed(v) == IF v.bits >= SignBit THEN v.bits - Modulus ELSE v.bits

At(pos, value)  == [pos |-> pos, value |-> value, err |-> "none"]
Error(pos)      == [pos |-> pos, value |-> Zero,
                    err |-> IF pos > Len(tokens) THEN "end" ELSE "error"]
Failed(r) == r.err # "none"

\* C++ divides towards zero.
Sign(n) == IF n < 0 THEN -1 ELSE 1
Magnitude(n) == Sign(n) * n
Quotient(a, b)  == Sign(a) * Sign(b) * (Magnitude(a) \div Magnitude(b))
Remainder(a, b) == Sign(a) * (Magnitude(a) % Magnitude(b))

\* The type of the operands, and of the result unless it is a truth value.
IsUnsigned(op, left, right) ==
  IF op \in {"<<", ">>"} THEN left.u ELSE left.u \/ right.u

Logical == {"&&", "||", "==", "!=", "<", "<=", ">", ">="}

Invalid(op, left, right) ==
  \/ op \in {"<<", ">>"} /\ right.bits >= Width
  \/ op \in {"/", "%"} /\ right.bits = 0
  \/ /\ op \in {"/", "%"} /\ ~IsUnsigned(op, left, right)
     /\ left.bits = SignBit /\ right.bits = Modulus - 1

\* apply, for operands that are evaluated and not Invalid.
Result(op, left, right) ==
  LET u == IsUnsigned(op, left, right)
      less == IF u THEN left.bits < right.bits ELSE Signed(left) < Signed(right)
      l == IF u THEN left.bits ELSE Signed(left)
      r == IF u THEN right.bits ELSE Signed(right)
  IN  CASE op = "&&" -> Truth(left.bits # 0 /\ right.bits # 0)
        [] op = "||" -> Truth(left.bits # 0 \/ right.bits # 0)
        [] op = "==" -> Truth(left.bits = right.bits)
        [] op = "!=" -> Truth(left.bits # right.bits)
        [] op = "<"  -> Truth(less)
        [] op = "<=" -> Truth(less \/ left.bits = right.bits)
        [] op = ">"  -> Truth(~less /\ left.bits # right.bits)
        [] op = ">=" -> Truth(~less)
        [] op = "+"  -> Value(left.bits + right.bits, u)
        [] op = "-"  -> Value(left.bits - right.bits, u)
        [] op = "*"  -> Value(left.bits * right.bits, u)
        [] op = "&"  -> Value(left.bits & right.bits, u)
        [] op = "|"  -> Value(left.bits | right.bits, u)
        [] op = "^"  -> Value(left.bits ^^ right.bits, u)
        [] op = "<<" -> Value(left.bits * 2 ^ right.bits, u)
        [] op = ">>" -> Value(l \div 2 ^ right.bits, u)
        [] op = "/"  -> Value(Quotient(l, r), u)
        [] op = "%"  -> Value(Remainder(l, r), u)

\* The operator is at position pos, and the parser at next.
apply(op, left, right, evaluate, pos, next) ==
  IF ~evaluate THEN At(next, Value(0, op \notin Logical /\ IsUnsigned(op, left, right)))
  ELSE IF Invalid(op, left, right) THEN Error(pos)
  ELSE At(next, Result(op, left, right))

\* A decimal constant without u has to fit the signed type.
number(token, pos) ==
  IF ~token.u /\ token.value >= SignBit
  THEN IF token.decimal THEN Error(pos) ELSE At(pos + 1, Value(token.value, TRUE))
  ELSE At(pos + 1, Value(token.value, token.u))

Negated(op, v, evaluate) ==
  IF op = "!" THEN Truth(evaluate /\ v.bits = 0)
  ELSE IF ~evaluate THEN Value(0, v.u)
  ELSE CASE op = "-" -> Value(0 - v.bits, v.u)
         [] op = "~" -> Value(Modulus - 1 - v.bits, v.u)
         [] OTHER    -> v

SameLevel(prec) == prec

\* The right operand takes only operators that bind tighter.
RightMinimum(prec) == prec + 1

AlwaysActive(op, left, evaluate) == evaluate

\* Whether the right operand is evaluated.
RightActive(op, left, evaluate) ==
  evaluate /\ ~(op = "&&" /\ left.bits = 0) /\ ~(op = "||" /\ left.bits # 0)

Text(pos) == IF pos <= Len(tokens) /\ tokens[pos].kind = "punct" THEN tokens[pos].text ELSE ""

RECURSIVE conditional(_, _, _), binary(_, _, _, _), operators(_, _, _, _), unary(_, _, _)

unary(pos, evaluate, depth) ==
  IF depth = MaxNesting \/ pos > Len(tokens) THEN Error(pos)
  ELSE CASE Text(pos) \in {"+", "-", "!", "~"} ->
              LET r == unary(pos + 1, evaluate, depth + 1)
              IN  IF Failed(r) THEN r ELSE At(r.pos, Negated(Text(pos), r.value, evaluate))
         [] Text(pos) = "(" ->
              LET r == conditional(pos + 1, evaluate, depth + 1)
              IN  IF Failed(r) THEN r
                  ELSE IF Text(r.pos) = ")" THEN At(r.pos + 1, r.value) ELSE Error(r.pos)
         [] tokens[pos].kind = "number"     -> number(tokens[pos], pos)
         [] tokens[pos].kind = "identifier" -> At(pos + 1, Zero)
         [] tokens[pos].kind = "character"  -> At(pos + 1, Value(tokens[pos].value, FALSE))
         [] OTHER -> Error(pos)

\* The loop of binary, with left parsed.
operators(left, minimum, evaluate, depth) ==
  LET op == Text(left.pos) IN
  IF Failed(left) \/ op \notin DOMAIN precedence THEN left
  ELSE IF precedence[op] < minimum THEN left
  ELSE LET right == binary(left.pos + 1, RightMinimum(precedence[op]),
                           RightActive(op, left.value, evaluate), depth)
       IN  IF Failed(right) THEN right
           ELSE operators(apply(op, left.value, right.value, evaluate, left.pos, right.pos),
                          minimum, evaluate, depth)

binary(pos, minimum, evaluate, depth) ==
  operators(unary(pos, evaluate, depth), minimum, evaluate, depth)

conditional(pos, evaluate, depth) ==
  IF depth = MaxNesting THEN Error(pos)
  ELSE LET test == binary(pos, 1, evaluate, depth + 1) IN
       IF Failed(test) \/ Text(test.pos) # "?" THEN test
       ELSE LET taken == test.value.bits # 0
                then  == conditional(test.pos + 1, evaluate /\ taken, depth + 1)
            IN  IF Failed(then) THEN then
                ELSE IF Text(then.pos) # ":" THEN Error(then.pos)
                ELSE LET else == conditional(then.pos + 1, evaluate /\ ~taken, depth + 1)
                     IN  IF Failed(else) THEN else
                         ELSE At(else.pos,
                                 Value(IF taken THEN then.value.bits ELSE else.value.bits,
                                       then.value.u \/ else.value.u))

\* evaluate: what is left over is an error.
Evaluated == LET r == conditional(1, TRUE, 0)
             IN  IF ~Failed(r) /\ r.pos <= Len(tokens) THEN Error(r.pos) ELSE r

-----------------------------------------------------------------------------
Init == tokens = <<>> /\ family \in Families

\* More of the expression.
Extend == /\ Len(tokens) < family.length
          /\ Evaluated.err \in {"none", "end"}
          /\ \E t \in family.alphabet : tokens' = Append(tokens, t)
          /\ UNCHANGED family

Next == Extend
Spec == Init /\ [][Next]_<<tokens, family>>

-----------------------------------------------------------------------------
\* The expression means what C says: it is refused if it is malformed or the
\* operation that decides it is undefined, and otherwise has C's value and
\* type, whatever stands in the operands that are not evaluated.
Reference == INSTANCE PPExpressionReference
Agrees ==
  LET meaning == Reference!Meaning(1, Len(tokens) + 1)
  IN  IF meaning.defined
      THEN /\ ~Failed(Evaluated)
           /\ Evaluated.value = Value(meaning.number, meaning.u)
      ELSE Failed(Evaluated)
=============================================================================
