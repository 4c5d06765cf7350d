---------------------------- MODULE MCExpressions -----------------------------
(* Expressions.  Of arithmetic ones: every operator on objects and literals,  *)
(* on targets with the relations between sizes that i386 (int as long as      *)
(* long) and x86_64 (long as long as long long) have, at few bits.  Of those   *)
(* with pointers: every operator on pointers that differ in what they point    *)
(* to and in its qualifiers, arrays, functions, records and null constants.    *)
(* And a program that assigns through pointers two levels deep.  `part_` tells *)
(* which of the three runs; the others stay as they are.                       *)
EXTENDS Expressions

VARIABLE part_

-----------------------------------------------------------------------------
\* One of the types or operators that are treated alike is enough.
SomeKinds == ArithmeticKinds \ {"SCHAR", "SHORT"}
SmallInts == 0 .. 3
SomeOperators ==
  [op : {"ADD", "SUB", "MUL", "MOD", "LSHIFT"}, compound : {FALSE}]
  \cup [op : {"ADD", "BITAND"}, compound : {TRUE}]
  \cup [op : {"COMMA", "AND", "EQ", "NEQ", "LT", "GT", "LEQ", "GEQ"}, compound : {FALSE}]

-----------------------------------------------------------------------------
Of(k)       == <<Level(k, {})>>
Const(t)    == Qualified(t, {"const"})
Volatile(t) == Qualified(t, {"volatile"})
ArrayOf(t, n) == <<[Level("ARRAY", {}) EXCEPT !.size = n]>> \o t
Returning(t, params, variadic) ==
  <<[Level("FUNCTION", {}) EXCEPT !.params = params, !.variadic = variadic]>> \o t
Unprototyped(t) == <<[Level("FUNCTION", {}) EXCEPT !.proto = FALSE]>> \o t
Struct(tag) == <<[Level("STRUCT", {}) EXCEPT !.tag = tag]>>
int == Of("INT")

Object(t)     == [type |-> t, lvalue |-> TRUE, form |-> "name"]
Function(t)   == [type |-> t, lvalue |-> FALSE, form |-> "name"]
Constant(f)   == [type |-> int, lvalue |-> FALSE, form |-> f]
Register      == [Object(int) EXCEPT !.form = "register"]
StringLiteral == [Object(ArrayOf(Of("CHAR"), 4)) EXCEPT !.form = "other"]

TakesPointer == Returning(int, <<PtrTo(int)>>, FALSE)
Variables ==
  {int, Const(int), Of("CHAR"), Of("FLOAT"), Of("DOUBLE"), ArrayOf(int, 2), ArrayOf(Const(int), 2),
   Struct("S"), Const(PtrTo(int)), PtrTo(TakesPointer)}
  \cup {PtrTo(t) : t \in {int, Const(int), Volatile(int), Of("DOUBLE"), Of("VOID"), Const(Of("VOID")),
                          PtrTo(int), PtrTo(Const(int)), Const(PtrTo(int)),
                          ArrayOf(Const(int), 2), Struct("S"), Struct("T")}}
Functions ==
  {TakesPointer, Returning(int, <<PtrTo(Const(int))>>, FALSE),
   Returning(int, <<PtrTo(Const(int)), int>>, TRUE),
   Unprototyped(Of("VOID")), Returning(Struct("S"), <<>>, FALSE)}
SomeLeaves == {Object(t) : t \in Variables} \cup {Function(t) : t \in Functions}
              \cup {Register, StringLiteral, Constant("zero"), Constant("number")}
SomePointerOperators ==
  [op : {"COMMA", "AND", "EQ", "LT", "ADD", "SUB", "LSHIFT", "MUL", "MOD"}, compound : {FALSE}]
  \cup [op : {"ADD", "SUB", "LSHIFT", "MUL"}, compound : {TRUE}]

SomeConditions == {Object(int), Object(ArrayOf(int, 2)), Object(Struct("S"))}
SomeFurther == {Constant("zero"), Object(PtrTo(int)), Object(Of("CHAR"))}

\* No other type is a parameter's.
SomeTypes == {o.type : o \in SomeLeaves} \cup {int, Of("CHAR"), PtrTo(int), PtrTo(Const(int))}

-----------------------------------------------------------------------------
Scaled == {[sizeofShort |-> 1, sizeofInt |-> 2, sizeofLong |-> 2, sizeofLonglong |-> 3],
           [sizeofShort |-> 1, sizeofInt |-> 2, sizeofLong |-> 3, sizeofLonglong |-> 3]}

Names == {"i", "c", "p", "q", "r", "pp", "qq", "rr"}
Types == [o \in Names |->
            CASE o = "i"  -> int             [] o = "c"  -> Const(int)
              [] o = "p"  -> PtrTo(int)      [] o = "q"  -> PtrTo(Const(int))
              [] o = "r"  -> Const(PtrTo(int))
              [] o = "pp" -> PtrTo(PtrTo(int))
              [] o = "qq" -> PtrTo(PtrTo(Const(int)))
              [] o = "rr" -> PtrTo(Const(PtrTo(int)))]

arithmetic == <<stack, accepted, allowed>>
pointers   == <<exprs, sound>>

MCInit == /\ Init /\ P!Init /\ ObjectInit
          /\ part_ \in {"arithmetic", "pointers", "objects"}
          /\ part_ = "objects" => target = CHOOSE t \in Targets : TRUE
MCNext == \/ part_ = "arithmetic" /\ Next /\ UNCHANGED <<pointers, objectVars, part_>>
          \/ part_ = "pointers" /\ P!Next /\ UNCHANGED <<arithmetic, objectVars, part_>>
          \/ part_ = "objects" /\ ObjectNext /\ UNCHANGED <<target, arithmetic, pointers, part_>>
MCSpec == MCInit /\ [][MCNext]_<<target, arithmetic, pointers, objectVars, part_>>
=============================================================================
