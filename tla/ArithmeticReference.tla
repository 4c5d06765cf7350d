-------------------------- MODULE ArithmeticReference --------------------------
(* What C99 says of arithmetic types (6.3.1, 6.4.4.1, 6.5), told with the      *)
(* values a type has and one order of the types, in place of ranks and cases.  *)
EXTENDS Integers, Sequences, FiniteSetsExt

VARIABLE width   \* the bits of each integer type, on the target of the moment

Order == <<"INT", "UINT", "LONG", "ULONG", "LONGLONG", "ULONGLONG",
           "FLOAT", "DOUBLE", "LONGDOUBLE">>
Position(k)  == CHOOSE i \in DOMAIN Order : Order[i] = k
First(P(_))  == Order[Min({i \in DOMAIN Order : P(Order[i])})]

Unsigned == {"BOOL", "UCHAR", "USHORT", "UINT", "ULONG", "ULONGLONG"}
Floating == {"FLOAT", "DOUBLE", "LONGDOUBLE"}
Values(k) == IF k = "BOOL" THEN 0..1
             ELSE IF k \in Unsigned THEN 0..(2 ^ width[k] - 1)
             ELSE -(2 ^ (width[k] - 1))..(2 ^ (width[k] - 1) - 1)

-----------------------------------------------------------------------------
(* Types.                                                                    *)

\* 6.3.1.1: a type before int becomes int, or unsigned int if int lacks a value.
Promotion(k) == IF \E i \in DOMAIN Order : Order[i] = k THEN k
                ELSE IF Values(k) \subseteq Values("INT") THEN "INT" ELSE "UINT"

\* 6.3.1.8: the first type that is not before either and that is unsigned,
\* floating, or has all the values of both.
CommonType(a, b) ==
  LET x == Promotion(a)
      y == Promotion(b)
      later == Max({Position(x), Position(y)})
      Suits(k) == \/ k \in Unsigned \/ k \in Floating
                  \/ Values(x) \subseteq Values(k) /\ Values(y) \subseteq Values(k)
  IN  Order[Min({i \in later..Len(Order) : Suits(Order[i])})]

\* 6.4.4.1: the first type that has the value, among those the spelling allows.
LiteralType(v, decimal, suffix) ==
  LET hasU == suffix \in {"u", "ul", "ull"}
      Allowed(k) == /\ k \notin Floating
                    /\ hasU => k \in Unsigned
                    /\ ~hasU /\ decimal => k \notin Unsigned
                    /\ suffix \in {"l", "ul"} => Position(k) >= Position("LONG")
                    /\ suffix \in {"ll", "ull"} => Position(k) >= Position("LONGLONG")
                    /\ v \in Values(k)
  IN  First(Allowed)

-----------------------------------------------------------------------------
(* Values.  A value is [kind, known, number]; it is not known when C leaves  *)
(* it undefined or when it is a floating one.                                *)

Value(k, n) == [kind |-> k, known |-> TRUE, number |-> n]
Unknown(k)  == [kind |-> k, known |-> FALSE, number |-> 0]

\* 6.3.1.3; a signed type that lacks the value takes the one with equal low bits.
Representative(n, k) == CHOOSE m \in Values(k) : (m - n) % 2 ^ width[k] = 0
Converted(x, k) ==
  IF ~x.known \/ k \in Floating THEN Unknown(k)
  ELSE IF k = "BOOL" THEN Value(k, IF x.number = 0 THEN 0 ELSE 1)
  ELSE Value(k, IF x.number \in Values(k) THEN x.number ELSE Representative(x.number, k))

Exact(op, a, b) == CASE op = "ADD" -> a + b [] op = "SUB" -> a - b [] op = "MUL" -> a * b
Holds(op, a, b) == CASE op = "EQ" -> a = b   [] op = "NEQ" -> a # b
                     [] op = "LT" -> a < b   [] op = "GT" -> a > b
                     [] op = "LEQ" -> a <= b [] op = "GEQ" -> a >= b

Calculation == {"ADD", "SUB", "MUL"}
Comparison  == {"EQ", "NEQ", "LT", "GT", "LEQ", "GEQ"}

\* 6.5p5: a signed result that its type lacks is undefined.
Calculated(op, x, y) ==
  LET k == CommonType(x.kind, y.kind)
      a == Converted(x, k)
      b == Converted(y, k)
      n == Exact(op, a.number, b.number)
  IN  IF ~(a.known /\ b.known) THEN Unknown(k)
      ELSE IF n \in Values(k) THEN Value(k, n)
      ELSE IF k \in Unsigned THEN Value(k, Representative(n, k)) ELSE Unknown(k)

Compared(op, x, y) ==
  LET k == CommonType(x.kind, y.kind)
      a == Converted(x, k)
      b == Converted(y, k)
  IN  IF ~(a.known /\ b.known) THEN Unknown("INT")
      ELSE Value("INT", IF Holds(op, a.number, b.number) THEN 1 ELSE 0)

\* The operators whose value no code is generated for are told by their type.
Binary(op, x, y) ==
  CASE op \in Calculation                      -> Calculated(op, x, y)
    [] op \in Comparison                       -> Compared(op, x, y)
    [] op \in {"AND", "OR"}                    -> Unknown("INT")
    [] op \in {"LSHIFT", "RSHIFT"}             -> Unknown(Promotion(x.kind))
    [] op = "COMMA"                            -> Unknown(y.kind)
    [] op \in {"DIV", "MOD", "BITAND", "BITOR", "BITXOR"} ->
         Unknown(CommonType(x.kind, y.kind))

\* 6.5.5, 6.5.7, 6.5.10 to 6.5.12: these want operands of integer type.
Allowed(op, x, y) ==
  op \in {"MOD", "BITAND", "BITOR", "BITXOR", "LSHIFT", "RSHIFT"}
    => x.kind \notin Floating /\ y.kind \notin Floating
=============================================================================
