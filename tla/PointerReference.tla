---------------------------- MODULE PointerReference ----------------------------
(* What C99 says of expressions with pointers (6.3.2, 6.5.2, 6.5.3, 6.5.6 to    *)
(* 6.5.9, 6.5.13 to 6.5.17): for each operator the answers it admits, none if a *)
(* constraint is violated.  An answer is the type of the result, whether it is  *)
(* an lvalue, and the types to which the operands are converted.  Types are     *)
(* written as in PointerTypes; all sizes are known and the one type without a   *)
(* prototype is like no other, so that compatible types are equal ones.         *)
EXTENDS ArithmeticReference, PointerTypes

Answer(type, lvalue, operands) == [type |-> type, lvalue |-> lvalue, operands |-> operands]
Value_(type, operands) == {Answer(type, FALSE, operands)}

Basic(k) == <<Level(k, {})>>
With(t, quals) == [t EXCEPT ![1].quals = quals]
Bare(t) == With(t, {})

\* 6.3.2.1: what an operand is converted to where it is not the operand of
\* &, sizeof, ++, -- or the left of an assignment.
Decayed(x) == CASE IsArray(x.type)    -> PtrTo(Inner(x.type))
                [] IsFunction(x.type) -> PtrTo(x.type)
                [] OTHER              -> Bare(x.type)

IsInteger(t)    == Kind(t) \in {"BOOL", "CHAR", "SCHAR", "UCHAR", "SHORT", "USHORT"}
                               \cup ({Order[i] : i \in DOMAIN Order} \ Floating)
IsArithmetic(t) == IsInteger(t) \/ Kind(t) \in Floating
IsScalar(t)     == IsArithmetic(t) \/ IsPointer(t)
IsIncomplete(t) == Kind(t) \in {"VOID", "STRUCT"}
ToObject(t)     == IsPointer(t) /\ ~IsIncomplete(Inner(t)) /\ ~IsFunction(Inner(t))
IsModifiable(x) == /\ x.lvalue /\ "const" \notin Quals(x.type)
                   /\ ~IsArray(x.type) /\ ~IsIncomplete(x.type)
IsZero(x)       == x.form = "zero"

Common(t, u) == Basic(CommonType(Kind(t), Kind(u)))
Promote(t)   == Basic(Promotion(Kind(t)))
\* 6.5.2.2p6.
DefaultPromote(t) == CASE Kind(t) = "FLOAT" -> Basic("DOUBLE")
                       [] IsInteger(t)      -> Promote(t)
                       [] OTHER             -> t

\* Pointers to versions of one type, which may be qualified differently; and
\* pointers one of which is to void, the other to no function.
ToVersions(t, u) == IsPointer(t) /\ IsPointer(u) /\ Bare(Inner(t)) = Bare(Inner(u))
ToVoid(t, u) == /\ IsPointer(t) /\ IsPointer(u)
                /\ IsVoid(Inner(t)) \/ IsVoid(Inner(u))
                /\ ~IsFunction(Inner(t)) /\ ~IsFunction(Inner(u))

\* 6.5.15p6: the pointer both become, with the qualifiers of both.
Joined(t, u) ==
  LET pointee == IF IsVoid(Inner(u)) THEN Inner(u) ELSE Inner(t)
  IN  PtrTo(With(pointee, Quals(Inner(t)) \cup Quals(Inner(u))))

\* 6.5.16.1p1, for the operand x and the unqualified type t it is assigned to.
Assignable(t, x) ==
  LET u == Decayed(x)
  IN  \/ IsArithmetic(t) /\ IsArithmetic(u)
      \/ /\ ToVersions(t, u) \/ ToVoid(t, u)
         /\ Quals(Inner(u)) \subseteq Quals(Inner(t))
      \/ IsPointer(t) /\ IsZero(x)

-----------------------------------------------------------------------------
\* 6.5.3.2; a void * may be dereferenced as far as the constraints go, of which
\* there is nothing to be had.
AddressOf(x) ==
  IF IsFunction(x.type) \/ (x.lvalue /\ x.form # "register")
  THEN Value_(PtrTo(x.type), <<x.type>>) ELSE {}

Dereference(x) ==
  LET t == Decayed(x)
  IN  IF IsPointer(t) THEN {Answer(Inner(t), ~IsFunction(Inner(t)), <<t>>)} ELSE {}

IncDec(x) ==
  IF IsModifiable(x) /\ (IsArithmetic(x.type) \/ ToObject(x.type))
  THEN Value_(Bare(x.type), <<x.type>>) ELSE {}

\* 6.5.3.3.
Unary(op, x) ==
  LET t == Decayed(x)
  IN  CASE op = "NOT" /\ IsScalar(t)                  -> Value_(Basic("INT"), <<t>>)
        [] op \in {"POS", "NEG", "BITNOT"} /\ IsInteger(t) -> Value_(Promote(t), <<Promote(t)>>)
        [] op \in {"POS", "NEG"} /\ Kind(t) \in Floating -> Value_(t, <<t>>)
        [] OTHER                                      -> {}

\* 6.5.3.4.
Sizeof(x, size) ==
  IF IsIncomplete(x.type) \/ IsFunction(x.type) THEN {} ELSE Value_(size, <<x.type>>)

\* 6.5.5, 6.5.7, 6.5.10 to 6.5.12.
OnNumbers(op, t, u) ==
  CASE op \in {"LSHIFT", "RSHIFT"} /\ IsInteger(t) /\ IsInteger(u) ->
         Value_(Promote(t), <<Promote(t), Promote(u)>>)
    [] \/ op = "MUL" /\ IsArithmetic(t) /\ IsArithmetic(u)
       \/ op \in {"MOD", "BITAND"} /\ IsInteger(t) /\ IsInteger(u) ->
         Value_(Common(t, u), <<Common(t, u), Common(t, u)>>)
    [] OTHER -> {}

\* 6.5.6.
Additive(op, t, u, difference) ==
  CASE IsArithmetic(t) /\ IsArithmetic(u) -> Value_(Common(t, u), <<Common(t, u), Common(t, u)>>)
    [] ToObject(t) /\ IsInteger(u)        -> Value_(t, <<t, Promote(u)>>)
    [] op = "ADD" /\ IsInteger(t) /\ ToObject(u) -> Value_(u, <<Promote(t), u>>)
    [] op = "SUB" /\ ToObject(t) /\ ToVersions(t, u) -> Value_(difference, <<t, u>>)
    [] OTHER                              -> {}

\* 6.5.8 and 6.5.9, which do not say how pointers that differ in qualifiers are
\* converted; they are converted as the arms of ?: are.
Comparison_(op, x, y) ==
  LET t == Decayed(x)
      u == Decayed(y)
      equality == op \in {"EQ", "NEQ"}
      At(to) == Value_(Basic("INT"), <<to, to>>)
  IN  CASE IsArithmetic(t) /\ IsArithmetic(u)          -> At(Common(t, u))
        [] ToVersions(t, u) /\ (equality \/ ~IsFunction(Inner(t))) -> At(Joined(t, u))
        [] equality /\ ToVoid(t, u) /\ ~ToVersions(t, u) -> At(Joined(t, u))
        [] equality /\ IsPointer(t) /\ IsZero(y)       -> At(t)
        [] equality /\ IsPointer(u) /\ IsZero(x)       -> At(u)
        [] OTHER                                       -> {}

BinaryAnswers(op, x, y, difference) ==
  LET t == Decayed(x)
      u == Decayed(y)
  IN  CASE op = "COMMA"          -> Value_(u, <<t, u>>)
        [] op \in {"AND", "OR"}  -> IF IsScalar(t) /\ IsScalar(u)
                                    THEN Value_(Basic("INT"), <<t, u>>) ELSE {}
        [] op \in Comparison     -> Comparison_(op, x, y)
        [] op \in {"ADD", "SUB"} -> Additive(op, t, u, difference)
        [] OTHER                 -> OnNumbers(op, t, u)

\* 6.5.16.
Assignment(x, y) ==
  LET t == Bare(x.type)
  IN  IF IsModifiable(x) /\ Assignable(t, y) THEN Value_(t, <<x.type, t>>) ELSE {}

\* What the right operand becomes is the operator's business.
CompoundAssignment(op, x, y, difference) ==
  LET t == Bare(x.type)
      u == Decayed(y)
  IN  IF /\ IsModifiable(x)
         /\ \/ IsArithmetic(t) /\ IsArithmetic(u)
            \/ op \in {"ADD", "SUB"} /\ ToObject(t) /\ IsInteger(u)
      THEN {Answer(t, FALSE, <<x.type, a.operands[2]>>) :
              a \in BinaryAnswers(op, x, y, difference)}
      ELSE {}

\* 6.5.15; arms of one record type may be of an incomplete one.
Conditional(c, x, y) ==
  LET t == Decayed(x)
      u == Decayed(y)
      At(to) == Value_(to, <<to, to>>)
  IN  CASE ~IsScalar(Decayed(c))                        -> {}
        [] IsScalar(Decayed(c)) /\ IsArithmetic(t) /\ IsArithmetic(u) -> At(Common(t, u))
        [] IsScalar(Decayed(c)) /\ ~IsScalar(t) /\ t = u -> At(t)
        [] IsScalar(Decayed(c)) /\ IsPointer(t) /\ IsZero(y) -> At(t)
        [] IsScalar(Decayed(c)) /\ IsPointer(u) /\ IsZero(x) -> At(u)
        [] IsScalar(Decayed(c)) /\ (ToVersions(t, u) \/ ToVoid(t, u)) -> At(Joined(t, u))
        [] OTHER                                        -> {}

\* 6.5.2.1.
Index(x, y) ==
  LET t == Decayed(x)
      u == Decayed(y)
  IN  CASE ToObject(t) /\ IsInteger(u) -> {Answer(Inner(t), TRUE, <<t, Promote(u)>>)}
        [] IsInteger(t) /\ ToObject(u) -> {Answer(Inner(u), TRUE, <<Promote(t), u>>)}
        [] OTHER                       -> {}

\* 6.5.2.2.
Call(x, args) ==
  LET t == Decayed(x)
      f == Inner(t)[1]
      returned == Inner(Inner(t))
      Meant(i) == IF f.proto /\ i <= Len(f.params) THEN Bare(f.params[i])
                  ELSE DefaultPromote(Decayed(args[i]))
  IN  IF /\ IsPointer(t) /\ IsFunction(Inner(t))
         /\ Kind(returned) # "STRUCT"
         /\ f.proto => /\ Len(args) >= Len(f.params)
                       /\ Len(args) > Len(f.params) => f.variadic
                       /\ \A i \in DOMAIN f.params : Assignable(Bare(f.params[i]), args[i])
      THEN Value_(Bare(returned), <<t>> \o [i \in DOMAIN args |-> Meant(i)])
      ELSE {}

\* The two things C99 admits and the program refuses: using *p for a void *p,
\* and ordering two void * (6.5.8p2, as incomplete types).
VoidPointer(x) == IsPointer(Decayed(x)) /\ IsVoid(Inner(Decayed(x)))
=============================================================================
