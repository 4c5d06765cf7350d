-------------------------- MODULE IntegerExpressions --------------------------
(* An arithmetic expression on its way through Sema (analyzeExpr and what it  *)
(* calls) and MLIRGen (emitExpr, emitBinary): Sema gives every node a type    *)
(* and inserts conversions, MLIRGen picks operations from those types.  Both  *)
(* go over a tree from its leaves to its root, so the stack holds the trees   *)
(* not yet used as operands: their type, the bits their code yields, and what *)
(* C says of them (history).                                                  *)
(*                                                                            *)
(* Operands are objects, results of calls and literals, of arithmetic type.   *)
(* An object that is const is like the result of a call: it is read and       *)
(* cannot be assigned.  Pointers are in PointerExpressions; enumerations and   *)
(* records have no part here.                                                  *)
EXTENDS ArithmeticTypes, Sequences, FiniteSets

CONSTANTS Kinds,     \* the types objects have
          Calls,     \* the types of them that results of calls have, too
          Literals,  \* the values of integer literals
          Operators, \* [op, compound] of binary operators
          MaxStack   \* bound: operands waiting

VARIABLES stack,
          accepted,  \* FALSE once Sema reported an error
          allowed    \* history: FALSE once C's constraints are violated
vars == <<target, stack, accepted, allowed>>

C == INSTANCE ArithmeticReference WITH width <- [k \in Integral |-> Width(k)]

-----------------------------------------------------------------------------
(* Sema.                                                                     *)

\* What Sema makes of an operator: its type and the types its operands are
\* converted to (Sema::convert inserts no cast between equal types).
Typed(result, left, right) == [ok |-> TRUE, result |-> result, left |-> left, right |-> right]
Rejected == [ok |-> FALSE, result |-> "INT", left |-> "INT", right |-> "INT"]

Arithmetic(a, b) == LET c == UsualArithmetic(a, b) IN Typed(c, c, c)

Comparisons  == {"EQ", "NEQ", "LT", "GT", "LEQ", "GEQ"}
IntegralOnly == {"MOD", "BITAND", "BITOR", "BITXOR"}
BinaryOperators == {"COMMA", "AND", "OR", "ADD", "SUB", "MUL", "DIV", "LSHIFT", "RSHIFT"}
                     \cup Comparisons \cup IntegralOnly

ASSUME ArithmeticOperands ==
  /\ Kinds \subseteq ArithmeticKinds /\ Calls \subseteq ArithmeticKinds
  /\ Literals \subseteq Nat
  /\ Operators \subseteq [op : BinaryOperators, compound : BOOLEAN]

BinaryType(op, a, b) ==
  CASE op = "COMMA"               -> Typed(b, a, b)
    [] op \in {"AND", "OR"}       -> Typed("INT", a, b)
    [] op \in Comparisons         -> [Arithmetic(a, b) EXCEPT !.result = "INT"]
    [] op \in {"ADD", "SUB"}      -> Arithmetic(a, b)
    [] op \in {"LSHIFT", "RSHIFT"} ->
         IF {a, b} \subseteq Integral THEN Typed(Promoted(a), Promoted(a), Promoted(b))
         ELSE Rejected
    [] op \in {"MUL", "DIV"} \cup IntegralOnly ->
         IF op \in IntegralOnly /\ ~({a, b} \subseteq Integral) THEN Rejected
         ELSE Arithmetic(a, b)

\* Candidates for the type of an integer literal, by suffix and base.
Candidates(suffix, decimal) ==
  CASE suffix = ""    -> IF decimal THEN <<"INT", "LONG", "LONGLONG">>
                         ELSE <<"INT", "UINT", "LONG", "ULONG", "LONGLONG", "ULONGLONG">>
    [] suffix = "u"   -> <<"UINT", "ULONG", "ULONGLONG">>
    [] suffix = "l"   -> IF decimal THEN <<"LONG", "LONGLONG">>
                         ELSE <<"LONG", "ULONG", "LONGLONG", "ULONGLONG">>
    [] suffix = "ul"  -> <<"ULONG", "ULONGLONG">>
    [] suffix = "ll"  -> IF decimal THEN <<"LONGLONG">> ELSE <<"LONGLONG", "ULONGLONG">>
    [] suffix = "ull" -> <<"ULONGLONG">>
Suffixes == {"", "u", "l", "ul", "ll", "ull"}

\* A literal is lexed as a long long, and no candidate is asked for more.
Maximum(k) == LET w == Width(k)
              IN  IF w >= target.sizeofLonglong THEN 2 ^ (target.sizeofLonglong - 1) - 1
                  ELSE 2 ^ (w - (IF k \in Unsigned THEN 0 ELSE 1)) - 1

IntegerLiteralType(v, suffix, decimal) ==
  LET c  == Candidates(suffix, decimal)
      is == {i \in DOMAIN c : v <= Maximum(c[i])}
  IN  c[CHOOSE i \in is : \A j \in is : i <= j]

-----------------------------------------------------------------------------
(* MLIRGen.  What emitExpr yields is the bits of its value, or the reason it *)
(* yields none.                                                              *)

Unsupported == -1   \* "does not support ... yet", "require integer operands"
Disagrees   == -2   \* "types do not match the AST"

Lower(k) == CASE k \in Integral -> Width(k)
              [] k = "FLOAT"    -> 32
              [] k = "DOUBLE"   -> 64
              [] OTHER          -> Unsupported

AsSigned(bits, w) == IF bits >= 2 ^ (w - 1) THEN bits - 2 ^ w ELSE bits

\* The conversions Sema inserts; there is none between equal types.
ImplicitCast(bits, from, to) ==
  IF bits < 0 \/ from = to THEN bits
  ELSE IF ~({from, to} \subseteq Integral) THEN Unsupported
  ELSE IF to = "BOOL" THEN IF bits = 0 THEN 0 ELSE 1
  ELSE LET w == Width(from)
       IN  CASE w = Width(to) -> bits
             [] w > Width(to) -> bits % 2 ^ Width(to)
             [] w < Width(to) -> IF from \in Signed THEN AsSigned(bits, w) % 2 ^ Width(to)
                                 ELSE bits

Predicate(op, signed, w, a, b) ==
  LET x == IF signed THEN AsSigned(a, w) ELSE a
      y == IF signed THEN AsSigned(b, w) ELSE b
  IN  CASE op = "EQ" -> a = b   [] op = "NEQ" -> a # b
        [] op = "LT" -> x < y   [] op = "GT" -> x > y
        [] op = "LEQ" -> x <= y [] op = "GEQ" -> x >= y

\* x and y are the operands as Sema converted them to the types k and l.
EmitSignedComparison(op, x, k, y, l) ==
  IF x < 0 \/ y < 0 \/ ~({k, l} \subseteq Integral) THEN Unsupported
  ELSE IF Predicate(op, TRUE, Width(k), x, y) THEN 1 ELSE 0

EmitComparison(op, x, k, y, l) ==
  IF ~({k, l} \subseteq Integral) \/ x < 0 \/ y < 0 THEN Unsupported
  ELSE IF Lower(k) # Lower(l) THEN Disagrees
  ELSE IF Predicate(op, k \in Signed, Width(k), x, y) THEN 1 ELSE 0

EmitArithmetic(op, x, k, y, l, result) ==
  IF result \notin Integral \/ x < 0 \/ y < 0 THEN Unsupported
  ELSE IF Lower(k) # Lower(l) \/ Lower(k) # Lower(result) THEN Disagrees
  ELSE (CASE op = "ADD" -> x + y [] op = "SUB" -> x - y [] op = "MUL" -> x * y)
         % 2 ^ Width(result)

EmitBinary(op, x, k, y, l, result) ==
  CASE op \in Comparisons            -> EmitComparison(op, x, k, y, l)
    [] op \in {"ADD", "SUB", "MUL"}  -> EmitArithmetic(op, x, k, y, l, result)
    [] OTHER                         -> Unsupported

\* emitBinary stores y, converted to the type k of the object.
EmitAssign(x, k, y, l) == IF x < 0 \/ y < 0 THEN Unsupported
                          ELSE IF Lower(k) # Lower(l) THEN Disagrees ELSE y

-----------------------------------------------------------------------------
(* Steps.                                                                    *)

Tree(kind, lvalue, bits, c) ==
  [kind |-> kind, lvalue |-> lvalue, bits |-> bits,
   c |-> IF bits < 0 THEN C!Unknown(c.kind) ELSE c]

Init == /\ target \in Targets /\ stack = <<>> /\ accepted = TRUE /\ allowed = TRUE

CanPush == accepted /\ Len(stack) < MaxStack
Push(t) == stack' = Append(stack, t) /\ UNCHANGED <<target, accepted, allowed>>

\* A parameter, a variable or a call: any value of its type.  One whose type
\* cannot be lowered is not emitted.
Operand(k, lvalue) ==
  /\ CanPush
  /\ IF k \in Integral
     THEN \E b \in 0..(2 ^ Width(k) - 1) :
            Push(Tree(k, lvalue, b,
                      C!Value(k, IF k \in Signed THEN AsSigned(b, Width(k)) ELSE b)))
     ELSE Push(Tree(k, lvalue, IF Lower(k) < 0 THEN Unsupported ELSE 0, C!Unknown(k)))

Literal(v, suffix, decimal) ==
  /\ CanPush /\ v < 2 ^ (target.sizeofLonglong - 1)
  /\ LET k == IntegerLiteralType(v, suffix, decimal)
     IN  Push(Tree(k, FALSE, v % 2 ^ Width(k), C!Value(C!LiteralType(v, decimal, suffix), v)))

\* An integer literal with a suffix that is none, such as 1lul or 1f.
InvalidSuffix == /\ CanPush
                 /\ accepted' = FALSE /\ allowed' = FALSE /\ stack' = <<>>
                 /\ UNCHANGED target

\* Literals that emitExpr has no case for; a character has type int.
OtherLiteral(k) == CanPush /\ Push(Tree(k, FALSE, Unsupported, C!Unknown(k)))

\* Sema's verdict on an operator, and the tree it makes if that is favourable.
Reduce(n, ok, okInC, t) ==
  /\ accepted' = ok /\ allowed' = okInC
  /\ stack' = IF ok THEN Append(SubSeq(stack, 1, Len(stack) - n), t) ELSE <<>>
  /\ UNCHANGED target

Left  == stack[Len(stack) - 1]
Right == stack[Len(stack)]

\* analyzeBinary and emitBinary for operators that do not assign.
Binary(op) ==
  /\ accepted /\ Len(stack) >= 2
  /\ LET s == BinaryType(op, Left.kind, Right.kind)
         x == ImplicitCast(Left.bits, Left.kind, s.left)
         y == ImplicitCast(Right.bits, Right.kind, s.right)
     IN  Reduce(2, s.ok, C!Allowed(op, Left.c, Right.c),
                Tree(s.result, FALSE, EmitBinary(op, x, s.left, y, s.right, s.result),
                     C!Binary(op, Left.c, Right.c)))

\* Ordinary assignment.
Assign ==
  /\ accepted /\ Len(stack) >= 2
  /\ LET k == Left.kind
         y == ImplicitCast(Right.bits, Right.kind, k)
     IN  Reduce(2, Left.lvalue, Left.lvalue,
                Tree(k, FALSE, EmitAssign(Left.bits, k, y, k),
                     C!Converted(Right.c, Left.c.kind)))

\* Compound assignment, which MLIRGen has no case for.
CompoundAssign(op) ==
  /\ accepted /\ Len(stack) >= 2
  /\ Reduce(2, Left.lvalue /\ BinaryType(op, Left.kind, Right.kind).ok,
            Left.lvalue /\ C!Allowed(op, Left.c, Right.c),
            Tree(Left.kind, FALSE, Unsupported, C!Unknown(Left.c.kind)))

\* Unary operators, none of which MLIRGen has a case for.
Unary(op) ==
  /\ accepted /\ Len(stack) >= 1
  /\ LET ok == op = "BITNOT" => Right.kind \in Integral
     IN  Reduce(1, ok, op = "BITNOT" => Right.c.kind \notin C!Floating,
                Tree(IF op = "NOT" THEN "INT" ELSE Promoted(Right.kind), FALSE, Unsupported,
                     C!Unknown(IF op = "NOT" THEN "INT" ELSE C!Promotion(Right.c.kind))))

IncDec ==
  /\ accepted /\ Len(stack) >= 1
  /\ Reduce(1, Right.lvalue, Right.lvalue,
            Tree(Right.kind, FALSE, Unsupported, C!Unknown(Right.c.kind)))

\* The arms of ?:, whose condition may be anything of arithmetic type.
Conditional ==
  /\ accepted /\ Len(stack) >= 2
  /\ Reduce(2, TRUE, TRUE,
            Tree(UsualArithmetic(Left.kind, Right.kind), FALSE, Unsupported,
                 C!Unknown(C!CommonType(Left.c.kind, Right.c.kind))))

Next == \/ \E k \in Kinds : Operand(k, TRUE)
        \/ \E k \in Calls : Operand(k, FALSE)
        \/ \E v \in Literals, suffix \in Suffixes, decimal \in BOOLEAN :
             Literal(v, suffix, decimal)
        \/ InvalidSuffix
        \/ \E k \in {"INT"} \cup Floating : OtherLiteral(k)
        \/ \E o \in Operators : IF o.compound THEN CompoundAssign(o.op) ELSE Binary(o.op)
        \/ Assign
        \/ \E op \in {"POS", "NEG", "BITNOT", "NOT"} : Unary(op)
        \/ IncDec
        \/ Conditional

Spec == Init /\ [][Next]_vars

-----------------------------------------------------------------------------
(* Properties.                                                               *)

\* Sema gives every expression the type C gives it, whatever the target, and
\* rejects one exactly when C does (promoted, usualArithmetic, integerLiteralType,
\* binaryType, analyzeUnary, analyzeConditional).
TypedAsC == /\ accepted = allowed
            /\ \A i \in DOMAIN stack : stack[i].kind = stack[i].c.kind

\* The operations MLIRGen picks compute the value C gives the expression wherever
\* C gives it one: extensions, truncations and predicates follow the types Sema
\* left on the tree (emitExpr, emitBinary).  And MLIRGen never finds operands whose
\* types Sema should have made equal ("types do not match the AST").
ComputesAsC ==
  \A i \in DOMAIN stack :
    LET t == stack[i]
    IN  /\ t.bits # Disagrees
        /\ t.bits >= 0 /\ t.c.known
             => t.c.number = IF t.kind \in Signed THEN AsSigned(t.bits, Width(t.kind)) ELSE t.bits
=============================================================================
