--------------------------- MODULE PointerExpressions ---------------------------
(* An expression with pointers on its way through Sema (analyzeExpr and what it *)
(* calls) and MLIRGen (emitExpr, emitLValue, emitCall), built from its leaves   *)
(* like those of IntegerExpressions: the stack holds the trees not yet used as  *)
(* operands, and a step takes an operand or applies an operator.  Each step     *)
(* compares Sema's answer with those C admits (PointerReference): the type, the *)
(* value category and what the operands are converted to.                       *)
(*                                                                              *)
(* Left out are objects of incomplete array type and the composite types of     *)
(* functions without a prototype, which Declarations treats, and casts, for     *)
(* which the parser has no syntax.                                              *)
EXTENDS ArithmeticTypes, PointerTypes, FiniteSets

CONSTANTS Operands,    \* identifiers and literals: their type, value category and form
          Conditions,  \* those of them that are taken as the condition of ?:
          Further,     \* those that are taken as a second argument
          Operators,   \* binary operators, [op, compound]
          MaxLevels    \* bound: how long a type gets by taking addresses

VARIABLES exprs,
          sound        \* history: Sema has answered as C does so far
vars == <<target, exprs, sound>>

R == INSTANCE PointerReference WITH width <- [k \in Integral |-> Width(k)]

-----------------------------------------------------------------------------
(* Sema.  Its answer to an operator is the type, the value category and the    *)
(* types the operands have after the casts it inserts.                         *)

Said(type, lvalue, operands) == [type |-> type, lvalue |-> lvalue, operands |-> operands]
Refused == Said(NoType, FALSE, <<>>)

Basic(k) == <<Level(k, {})>>
IntTy == Basic("INT")

IsIntegral(t)   == Kind(t) \in Integral
IsArithmetic(t) == Kind(t) \in ArithmeticKinds
IsScalar(t)     == IsArithmetic(t) \/ IsPointer(t)
ObjectPointer(t) == IsPointer(t) /\ Complete(Inner(t))
PromotedType(t) == IF IsIntegral(t) THEN Basic(Promoted(Kind(t))) ELSE Unqualified(t)
CommonArithmetic(a, b) == Basic(UsualArithmetic(Kind(a), Kind(b)))

\* Pointers are as long as long on every target.
SizeType(isSigned) == Basic(IF isSigned THEN "LONG" ELSE "ULONG")

Modifiable(x) == /\ x.lvalue /\ "const" \notin Quals(x.type)
                 /\ ~IsArray(x.type) /\ Complete(x.type)

Value(x) == CASE IsArray(x.type)    -> PtrTo(Inner(x.type))
              [] IsFunction(x.type) -> PtrTo(x.type)
              [] OTHER              -> IF x.lvalue THEN Unqualified(x.type) ELSE x.type

NullConstant(x) == x.form = "zero"

\* What convert makes of an operand, NoType if it reports an error.
Convert(x, type) ==
  LET to   == Unqualified(type)
      from == Value(x)
  IN  IF Compatible(to, from, TRUE) THEN from
      ELSE IF \/ IsArithmetic(to) /\ IsArithmetic(from)
              \/ IsPointer(to) /\ NullConstant(x)
              \/ PointerConvertible(to, from)
           THEN to
      ELSE NoType

DefaultPromote(x) ==
  LET t == Value(x)
  IN  IF Kind(t) = "FLOAT" THEN Basic("DOUBLE") ELSE PromotedType(t)

Meet(result, x, y, to) == Said(result, FALSE, <<Convert(x, to), Convert(y, to)>>)

Comparisons == {"EQ", "NEQ", "LT", "GT", "LEQ", "GEQ"}

CompareTypes(op, x, y) ==
  LET a == Value(x)
      b == Value(y)
      equality == op \in {"EQ", "NEQ"}
      common == IF /\ IsPointer(a) /\ IsPointer(b)
                   /\ equality \/ ~(IsFunction(Inner(a)) \/ IsVoid(Inner(a)))
                THEN CommonPointer(a, b, equality) ELSE NoType
  IN  CASE IsArithmetic(a) /\ IsArithmetic(b)        -> Meet(IntTy, x, y, CommonArithmetic(a, b))
        [] common # NoType                           -> Meet(IntTy, x, y, common)
        [] equality /\ IsPointer(a) /\ NullConstant(y) -> Said(IntTy, FALSE, <<a, Convert(y, a)>>)
        [] equality /\ IsPointer(b) /\ NullConstant(x) -> Said(IntTy, FALSE, <<Convert(x, b), b>>)
        [] OTHER                                     -> Refused

AdditiveTypes(op, x, y) ==
  LET a == Value(x)
      b == Value(y)
  IN  CASE IsArithmetic(a) /\ IsArithmetic(b) ->
             Meet(CommonArithmetic(a, b), x, y, CommonArithmetic(a, b))
        [] ObjectPointer(a) /\ IsIntegral(b) -> Said(a, FALSE, <<a, Convert(y, PromotedType(b))>>)
        [] op = "ADD" /\ IsIntegral(a) /\ ObjectPointer(b) ->
             Said(b, FALSE, <<Convert(x, PromotedType(a)), b>>)
        [] op = "SUB" /\ ObjectPointer(a) /\ ObjectPointer(b) /\ Compatible(Inner(a), Inner(b), TRUE) ->
             Said(SizeType(TRUE), FALSE, <<a, b>>)
        [] OTHER -> Refused

BinaryTypes(op, x, y) ==
  LET a == Value(x)
      b == Value(y)
      integral == IsIntegral(a) /\ IsIntegral(b)
  IN  CASE op = "COMMA"           -> Said(b, FALSE, <<a, b>>)
        [] op \in {"AND", "OR"}   -> IF IsScalar(a) /\ IsScalar(b)
                                     THEN Said(IntTy, FALSE, <<a, b>>) ELSE Refused
        [] op \in Comparisons     -> CompareTypes(op, x, y)
        [] op \in {"ADD", "SUB"}  -> AdditiveTypes(op, x, y)
        [] op = "LSHIFT"          -> IF ~integral THEN Refused
                                     ELSE Said(PromotedType(a), FALSE,
                                               <<Convert(x, PromotedType(a)), Convert(y, PromotedType(b))>>)
        [] op \in {"MUL", "MOD", "BITAND"} ->
             IF IsArithmetic(a) /\ IsArithmetic(b) /\ (op # "MUL" => integral)
             THEN Meet(CommonArithmetic(a, b), x, y, CommonArithmetic(a, b)) ELSE Refused

AssignTypes(x, y) ==
  IF ~Modifiable(x) \/ Convert(y, x.type) = NoType THEN Refused
  ELSE Said(Unqualified(x.type), FALSE, <<x.type, Convert(y, x.type)>>)

CompoundTypes(op, x, y) ==
  LET computed == BinaryTypes(op, x, y)
      fits == \/ IsArithmetic(x.type) /\ IsArithmetic(computed.type)
              \/ Compatible(x.type, computed.type, TRUE)
  IN  IF ~Modifiable(x) THEN Refused
      ELSE IF computed = Refused THEN Refused
      ELSE IF ~fits THEN Refused
      ELSE Said(Unqualified(x.type), FALSE, <<x.type, computed.operands[2]>>)

AddressTypes(x) ==
  IF (x.lvalue \/ IsFunction(x.type)) /\ x.form # "register"
  THEN Said(PtrTo(x.type), FALSE, <<x.type>>) ELSE Refused

DereferenceTypes(x) ==
  LET t == Value(x)
  IN  IF IsPointer(t) /\ ~IsVoid(Inner(t))
      THEN Said(Inner(t), ~IsFunction(Inner(t)), <<t>>) ELSE Refused

IncDecTypes(x) ==
  IF Modifiable(x) /\ (IsArithmetic(x.type) \/ ObjectPointer(x.type))
  THEN Said(Unqualified(x.type), FALSE, <<x.type>>) ELSE Refused

UnaryTypes(op, x) ==
  LET t == Value(x)
  IN  IF op = "NOT" THEN IF IsScalar(t) THEN Said(IntTy, FALSE, <<t>>) ELSE Refused
      ELSE IF IsArithmetic(t) /\ (op = "BITNOT" => IsIntegral(t))
      THEN Said(PromotedType(t), FALSE, <<PromotedType(t)>>) ELSE Refused

ConditionalTypes(c, x, y) ==
  LET a == Value(x)
      b == Value(y)
      common == CASE IsArithmetic(a) /\ IsArithmetic(b) -> CommonArithmetic(a, b)
                  [] IsVoid(a) /\ IsVoid(b)             -> a
                  [] IsPointer(a) /\ NullConstant(y)    -> a
                  [] IsPointer(b) /\ NullConstant(x)    -> b
                  [] IsPointer(a) /\ IsPointer(b)       -> CommonPointer(a, b, TRUE)
                  [] OTHER -> IF Compatible(a, b, TRUE) THEN Unqualified(a) ELSE NoType
  IN  IF ~IsScalar(Value(c)) \/ common = NoType THEN Refused ELSE Meet(common, x, y, common)

IndexTypes(x, y) ==
  LET a == Value(x)
      b == Value(y)
  IN  CASE ObjectPointer(a) /\ IsIntegral(b) ->
             Said(Inner(a), TRUE, <<a, Convert(y, PromotedType(b))>>)
        [] IsIntegral(a) /\ ObjectPointer(b) ->
             Said(Inner(b), TRUE, <<Convert(x, PromotedType(a)), b>>)
        [] OTHER -> Refused

CallTypes(x, args) ==
  LET callee == Value(x)
      f == Inner(callee)[1]
      returned == Inner(Inner(callee))
      Passed(i) == IF f.proto /\ i <= Len(f.params) THEN Convert(args[i], f.params[i])
                   ELSE DefaultPromote(args[i])
  IN  IF ~(IsPointer(callee) /\ IsFunction(Inner(callee))) THEN Refused
      ELSE IF f.proto /\ (Len(args) < Len(f.params) \/ (~f.variadic /\ Len(args) # Len(f.params)))
      THEN Refused
      ELSE IF \E i \in DOMAIN args : Passed(i) = NoType THEN Refused
      ELSE IF ~IsVoid(returned) /\ ~Complete(returned) THEN Refused
      ELSE Said(Unqualified(returned), FALSE, <<callee>> \o [i \in DOMAIN args |-> Passed(i)])

SizeofTypes(x) ==
  IF Complete(x.type) THEN Said(SizeType(FALSE), FALSE, <<x.type>>) ELSE Refused

-----------------------------------------------------------------------------
(* MLIRGen.  An expression is given a value, and an lvalue an address, of some *)
(* lowered type, or none and an error.                                         *)

NoCode == <<>>

\* lowerType: pointers are lowered to arithmetic objects only.
LowerArithmetic(t) == IF IsIntegral(t) THEN <<"i", Width(Kind(t))>>
                      ELSE IF Kind(t) = "LONGDOUBLE" THEN NoCode ELSE <<Kind(t)>>
Lower(t) ==
  CASE IsArithmetic(t) -> LowerArithmetic(t)
    [] IsPointer(t)    -> IF IsArithmetic(Inner(t)) /\ "volatile" \notin Quals(Inner(t))
                               /\ LowerArithmetic(Inner(t)) # NoCode
                          THEN <<"ptr">> \o LowerArithmetic(Inner(t)) ELSE NoCode
    [] OTHER           -> NoCode

\* A parameter's value, and the address of its slot if it is no pointer.
Named(t) == IF IsScalar(t) /\ "volatile" \notin Quals(t) THEN Lower(t) ELSE NoCode
Slot(t)  == IF IsPointer(t) THEN NoCode ELSE Named(t)

\* The code of x behind the cast that convert(x, type) inserts.
Cast(x, type) ==
  LET to   == Unqualified(type)
      from == Value(x)
  IN  IF IsArray(x.type) \/ IsFunction(x.type) THEN NoCode
      ELSE IF Compatible(to, from, TRUE) THEN x.code
      ELSE IF IsIntegral(to) /\ IsIntegral(from) /\ x.code # NoCode THEN Lower(to)
      ELSE IF PointerConvertible(to, from) /\ x.code = Lower(to) THEN x.code
      ELSE NoCode

\* emitLValue of *p, for the code of p.
Pointed(pointer, t) == IF pointer # NoCode /\ pointer = <<"ptr">> \o Lower(t) THEN Lower(t) ELSE NoCode

\* emitBinary, for operands converted to the types in `operands`.
EmitBinary(op, x, y, said) ==
  LET l == Cast(x, said.operands[1])
      r == Cast(y, said.operands[2])
      equal == l # NoCode /\ l = r /\ Head(l) = "i"
  IN  CASE op \in Comparisons /\ equal /\ IsIntegral(said.operands[1]) -> Lower(IntTy)
        [] op \in {"ADD", "SUB", "MUL"} /\ equal /\ IsIntegral(said.type)
             /\ l = Lower(said.type) -> l
        [] OTHER -> NoCode

EmitAssign(x, y) ==
  LET r == Cast(y, x.type) IN IF x.place # NoCode /\ r = x.place THEN r ELSE NoCode

\* Functions that declareFunction takes.
Declarable(f, returned) ==
  /\ ~f.variadic /\ Kind(returned) \in {"INT", "VOID"}
  /\ \A i \in DOMAIN f.params : /\ "volatile" \notin Quals(f.params[i])
                                /\ Lower(f.params[i]) # NoCode

EmitCall(x, args, said) ==
  LET f == x.type[1]
      params == f.params
  IN  IF /\ x.form = "name" /\ IsFunction(x.type) /\ Declarable(f, Inner(x.type))
         /\ Len(args) = Len(params)
         /\ \A i \in DOMAIN args : /\ Cast(args[i], said.operands[i + 1]) # NoCode
                                   /\ Cast(args[i], said.operands[i + 1]) = Lower(params[i])
      THEN Lower(said.type) ELSE NoCode

-----------------------------------------------------------------------------
(* Steps.                                                                    *)

Tree(said, form, code, place) ==
  [type |-> said.type, lvalue |-> said.lvalue, form |-> form, code |-> code, place |-> place]

Init == target \in Targets /\ exprs = <<>> /\ sound = TRUE

\* An identifier or a literal.  Characters, floating numbers and strings have no
\* code, nor has the name of a function.
Leaf(o) ==
  LET named == o.form \in {"name", "register"}
  IN  Tree(o, o.form, IF named THEN Named(o.type) ELSE IF o.form = "other" THEN NoCode ELSE Lower(o.type),
           IF named THEN Slot(o.type) ELSE NoCode)

Operand(o) == /\ sound /\ Len(exprs) < 2
              /\ exprs' = Append(exprs, Leaf(o))
              /\ UNCHANGED <<target, sound>>

\* The answer to an operator of n operands, beside those C admits, and the code.
\* An expression that is refused is the end of it.
Reduce(n, said, admitted, form, code, place) ==
  /\ sound' = IF admitted = {} THEN said = Refused ELSE said \in admitted
  /\ exprs' = IF said = Refused \/ ~sound' THEN <<>>
              ELSE Append(SubSeq(exprs, 1, Len(exprs) - n), Tree(said, form, code, place))
  /\ UNCHANGED target

Left  == exprs[1]
Right == exprs[Len(exprs)]
One == sound /\ Len(exprs) >= 1
Two == sound /\ Len(exprs) = 2

\* Using *p for a void *p and ordering two void * are refused although C has it.
Stricter(said, admitted) == IF said = Refused THEN {} ELSE admitted

AddressOf ==
  /\ One /\ Len(Right.type) < MaxLevels
  /\ Reduce(1, AddressTypes(Right), R!AddressOf(Right), "other",
            IF Right.lvalue /\ Right.place # NoCode THEN <<"ptr">> \o Right.place ELSE NoCode, NoCode)

Dereference ==
  /\ One
  /\ LET said == DereferenceTypes(Right)
         admitted == R!Dereference(Right)
         place == IF said = Refused THEN NoCode ELSE Pointed(Cast(Right, said.operands[1]), said.type)
     IN  Reduce(1, said, IF R!VoidPointer(Right) THEN Stricter(said, admitted) ELSE admitted,
                "other", place, place)

IncDec == One /\ Reduce(1, IncDecTypes(Right), R!IncDec(Right), "other", NoCode, NoCode)

Unary(op) ==
  One /\ Reduce(1, UnaryTypes(op, Right), R!Unary(op, Right),
                IF op \in {"POS", "NEG"} /\ NullConstant(Right) THEN "zero" ELSE "other", NoCode, NoCode)

Sizeof == One /\ Reduce(1, SizeofTypes(Right), R!Sizeof(Right, SizeType(FALSE)), "other", NoCode, NoCode)

\* Member access finds no complete record.
Member == One /\ Reduce(1, Refused, {}, "other", NoCode, NoCode)

Binary(op) ==
  /\ Two
  /\ LET said == BinaryTypes(op, Left, Right)
         admitted == R!BinaryAnswers(op, Left, Right, SizeType(TRUE))
         open == op \in {"LT", "GT", "LEQ", "GEQ"} /\ R!VoidPointer(Left) /\ R!VoidPointer(Right)
     IN  Reduce(2, said, IF open THEN Stricter(said, admitted) ELSE admitted, "other",
                IF said = Refused THEN NoCode ELSE EmitBinary(op, Left, Right, said), NoCode)

Assign ==
  /\ Two
  /\ LET said == AssignTypes(Left, Right)
     IN  Reduce(2, said, R!Assignment(Left, Right), "other",
                IF said = Refused THEN NoCode ELSE EmitAssign(Left, Right), NoCode)

CompoundAssign(op) ==
  Two /\ Reduce(2, CompoundTypes(op, Left, Right),
                R!CompoundAssignment(op, Left, Right, SizeType(TRUE)), "other", NoCode, NoCode)

Conditional(c) ==
  Two /\ Reduce(2, ConditionalTypes(Leaf(c), Left, Right), R!Conditional(c, Left, Right),
                "other", NoCode, NoCode)

Index == Two /\ Reduce(2, IndexTypes(Left, Right), R!Index(Left, Right), "other", NoCode, NoCode)

\* A call with the arguments that stand behind the callee, and one more.
Call(more) ==
  /\ One
  /\ LET args == Tail(exprs) \o [i \in DOMAIN more |-> Leaf(more[i])]
         said == CallTypes(Left, args)
     IN  Reduce(Len(exprs), said, R!Call(Left, args), "other",
                IF said = Refused THEN NoCode ELSE EmitCall(Left, args, said), NoCode)

Next == \/ \E o \in Operands : Operand(o)
        \/ AddressOf \/ Dereference \/ IncDec \/ Sizeof \/ Member
        \/ \E op \in {"POS", "NEG", "BITNOT", "NOT"} : Unary(op)
        \/ \E o \in Operators : IF o.compound THEN CompoundAssign(o.op) ELSE Binary(o.op)
        \/ Assign \/ Index
        \/ \E c \in Conditions : Conditional(c)
        \/ Call(<<>>)
        \/ \E o \in Further : Call(<<o>>)

Spec == Init /\ [][Next]_vars

-----------------------------------------------------------------------------
(* What is supposed of the operands: their types are made as C makes types, all *)
(* sizes are known, and functions that are compatible are of one type.          *)

IsSequence(s) == s \in Seq({s[i] : i \in DOMAIN s})

Qualifiers == {"const", "volatile", "restrict"}
Derived == {"POINTER", "ARRAY", "FUNCTION"}

ProperLevel(x) ==
  /\ x.quals \subseteq Qualifiers
  /\ \/ x.kind \in ArithmeticKinds \cup {"VOID", "POINTER"} /\ x = Level(x.kind, x.quals)
     \/ x.kind = "STRUCT" /\ x = [Level("STRUCT", x.quals) EXCEPT !.tag = x.tag]
     \/ x.kind = "ARRAY" /\ x = [Level("ARRAY", {}) EXCEPT !.size = x.size] /\ x.size \in Nat \ {0}
     \/ /\ x.kind = "FUNCTION"
        /\ x = [Level("FUNCTION", {}) EXCEPT !.proto = x.proto, !.variadic = x.variadic, !.params = x.params]
        /\ x.proto \in BOOLEAN /\ x.variadic \in BOOLEAN /\ IsSequence(x.params)

ProperType(t) ==
  /\ IsSequence(t) /\ t # <<>>
  /\ \A i \in DOMAIN t : /\ ProperLevel(t[i])
                         /\ t[i].kind \in Derived <=> i < Len(t)
  /\ \A i \in 1 .. Len(t) - 1 :
       /\ t[i].kind = "ARRAY" => t[i + 1].kind \notin {"VOID", "FUNCTION", "STRUCT"}
       /\ t[i].kind = "FUNCTION" => t[i + 1].kind \notin {"ARRAY", "FUNCTION"} /\ t[i + 1].quals = {}

FunctionTypes(types) ==
  UNION {{SubSeq(t, i, Len(t)) : i \in {j \in DOMAIN t : t[j].kind = "FUNCTION"}} : t \in types}

ProperOperand(o) ==
  /\ o.lvalue \in BOOLEAN
  /\ o.lvalue => Kind(o.type) \notin {"VOID", "FUNCTION"}
  /\ o.form = "register" => o.lvalue
  /\ ~o.lvalue => Kind(o.type) # "ARRAY" /\ Quals(o.type) = {}
  /\ NullConstant(o) => ~o.lvalue /\ IsIntegral(o.type)

Assignments == {"ADD", "SUB", "LSHIFT", "MUL", "MOD", "BITAND"}

\* With `types` for the types of operands and of functions' parameters.
Conventional(types) ==
  /\ \A t \in types : ProperType(t)
  /\ \A f, g \in FunctionTypes(types) : Compatible(f, g, TRUE) => f = g
  /\ \A f \in FunctionTypes(types) : \A i \in DOMAIN f[1].params :
       f[1].params[i] \in types /\ IsScalar(f[1].params[i])
  /\ \A o \in Operands \cup Conditions \cup Further : o.type \in types /\ ProperOperand(o)
  /\ \A o \in Operators : IF o.compound THEN o.op \in Assignments
                          ELSE o.op \in Assignments \cup Comparisons \cup {"COMMA", "AND", "OR"}

-----------------------------------------------------------------------------
\* Sema accepts an expression with pointers exactly when C does and gives it C's
\* type and value category; after the casts it inserts every operand has the type
\* the operator works on, as the generator relies on (docs/sema.md); and what the
\* generator makes of it has the type that is lowered from the AST's.
PointersAsC ==
  /\ sound
  /\ \A i \in DOMAIN exprs : /\ exprs[i].code \in {NoCode, Lower(exprs[i].type)}
                             /\ exprs[i].place \in {NoCode, Lower(exprs[i].type)}
=============================================================================
