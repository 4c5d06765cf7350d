---------------------------- MODULE ConstantObjects ----------------------------
(* What the conversions of pointers are for: a program of arithmetic objects    *)
(* and pointers to objects runs, and every assignment and initializer in it is  *)
(* one that Sema accepts, on types it built itself from the declared ones.      *)
(* Operands are what the expressions analysed so far designate or are worth.    *)
(* There is no void: a conversion to void * and back loses qualifiers in C, too. *)
EXTENDS PointerTypes

CONSTANTS Objects,   \* names of objects
          Declared,  \* the type each is declared with
          Null

Levels == {Level(k, q) : k \in {"POINTER", "INT"}, q \in SUBSET {"const", "volatile"}}
ScalarTypes == {t \in Seq(Levels) : /\ Len(t) > 0
                                    /\ \A i \in DOMAIN t : t[i].kind = "INT" <=> i = Len(t)}

ASSUME ObjectTypes == Declared \in [Objects -> ScalarTypes] /\ Null \notin Objects

VARIABLES memory,    \* what each object points to, Null if to nothing or no pointer
          operands
objectVars == <<memory, operands>>

Result(type, lvalue, at) == [type |-> type, lvalue |-> lvalue, at |-> at, zero |-> FALSE]
Designated(o) == Result(Declared[o], TRUE, o)
Zero == [type |-> <<Level("INT", {})>>, lvalue |-> FALSE, at |-> Null, zero |-> TRUE]

\* Sema::value: an lvalue is read.
Value(x) == IF x.lvalue THEN Result(Unqualified(x.type), FALSE, memory[x.at]) ELSE x

Modifiable(x) == x.lvalue /\ "const" \notin Quals(x.type)

\* Sema::convert, between these types.
Converts(to, x) ==
  \/ Compatible(Unqualified(to), Value(x).type, TRUE)
  \/ IsPointer(to) /\ x.zero
  \/ PointerConvertible(Unqualified(to), Value(x).type)

\* analyzeConditional, for pointers and null constants.
CommonType(x, y) ==
  CASE IsPointer(x.type) /\ y.zero -> x.type
    [] IsPointer(y.type) /\ x.zero -> y.type
    [] IsPointer(x.type) /\ IsPointer(y.type) -> CommonPointer(x.type, y.type, TRUE)
    [] OTHER -> NoType

-----------------------------------------------------------------------------
ObjectInit == memory = [o \in Objects |-> Null] /\ operands = <<>>

Top == operands[Len(operands)]
Become(x) == /\ operands' = [operands EXCEPT ![Len(operands)] = x]
             /\ UNCHANGED memory

Take(x) == /\ Len(operands) < 2
           /\ operands' = Append(operands, x)
           /\ UNCHANGED memory

AddressOf == /\ operands # <<>> /\ Top.lvalue
             /\ Become(Result(PtrTo(Top.type), FALSE, Top.at))

\* Nothing is known of a program that dereferences a null pointer.
Dereference ==
  /\ operands # <<>> /\ IsPointer(Top.type) /\ Value(Top).at # Null
  /\ Become(Result(Inner(Top.type), TRUE, Value(Top).at))

\* ?: with the object o as its other arm; which one is worth it is open.
Choose(o) ==
  /\ operands # <<>>
  /\ LET x == Value(Top)
         y == Value(Designated(o))
     IN  /\ CommonType(x, y) # NoType
         /\ \E arm \in {x, y} : Become(Result(CommonType(x, y), FALSE, arm.at))

Store ==
  /\ Len(operands) = 2
  /\ LET left == operands[1]
     IN  /\ Modifiable(left) /\ Converts(left.type, Top)
         /\ memory' = [memory EXCEPT ![left.at] = Value(Top).at]
  /\ operands' = <<>>

\* A declaration of o with an initializer is reached.
Initialize(o) ==
  /\ Len(operands) = 1 /\ Converts(Declared[o], Top)
  /\ memory' = [memory EXCEPT ![o] = Value(Top).at]
  /\ operands' = <<>>

ObjectNext == \/ \E o \in Objects : Take(Designated(o)) \/ Choose(o) \/ Initialize(o)
        \/ Take(Zero)
        \/ AddressOf \/ Dereference \/ Store

ObjectSpec == ObjectInit /\ [][ObjectNext]_objectVars

-----------------------------------------------------------------------------
\* An lvalue Sema accepts has the declared type of the object it designates, and
\* at least its qualifiers: no object declared const is ever assigned, however
\* many assignments its address went through (convert, pointerConvertible,
\* commonPointer; docs/sema.md: "the rejection of unsafe T** -> const T**").
QualifiersAreKept ==
  \A i \in DOMAIN operands :
    LET x == operands[i]
    IN  x.lvalue => /\ x.type = Qualified(Declared[x.at], Quals(x.type))
                    /\ Quals(Declared[x.at]) \subseteq Quals(x.type)
=============================================================================
