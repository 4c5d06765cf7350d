------------------------------ MODULE PointerTypes ------------------------------
(* Derived types, and what Sema asks of two of them before a value of one is   *)
(* used as the other.                                                           *)
(*                                                                              *)
(* A type is the sequence of its levels from the outside in: `const int *` is   *)
(* a POINTER level, then an INT level with the qualifier const.  A function's   *)
(* parameters are a sequence of types in its level, already adjusted            *)
(* (normalizeType); the parameters of a parameter that points to a function     *)
(* are not looked at.  Records are never defined, since the parser takes no     *)
(* body for them.                                                               *)
EXTENDS Integers, Sequences

Level(kind, quals) ==
  [kind |-> kind, quals |-> quals, size |-> -1, tag |-> "",
   proto |-> TRUE, variadic |-> FALSE, params |-> <<>>]

Kind(t)    == t[1].kind
Quals(t)   == t[1].quals
Inner(t)   == Tail(t)     \* what it points to, has for elements, or returns
PtrTo(t)   == <<Level("POINTER", {})>> \o t
NoType     == <<>>

IsPointer(t)  == Kind(t) = "POINTER"
IsArray(t)    == Kind(t) = "ARRAY"
IsFunction(t) == Kind(t) = "FUNCTION"
IsVoid(t)     == Kind(t) = "VOID"

\* Qualifiers of an array are those of its elements, too.
Qualified(t, quals) ==
  [i \in DOMAIN t |->
     IF i = 1 THEN [t[1] EXCEPT !.quals = quals]
     ELSE IF \A j \in 1 .. i - 1 : t[j].kind = "ARRAY" THEN [t[i] EXCEPT !.quals = @ \cup quals]
     ELSE t[i]]

Unqualified(t) == Qualified(t, {})

Complete(t) ==
  \A i \in DOMAIN t :
    (\A j \in 1 .. i - 1 : t[j].kind = "ARRAY")
      => CASE t[i].kind = "ARRAY" -> t[i].size > 0
           [] t[i].kind \in {"VOID", "FUNCTION", "STRUCT"} -> FALSE
           [] OTHER -> TRUE

\* Types that differ at most in qualifiers that do not count: the outermost if
\* they are ignored, and those of what a function returns.
SameLevel(x, y) ==
  /\ x.kind = y.kind /\ x.tag = y.tag
  /\ x.size < 0 \/ y.size < 0 \/ x.size = y.size

SameLevels(a, b, ignoreQuals) ==
  /\ Len(a) = Len(b)
  /\ \A i \in DOMAIN a :
       /\ SameLevel(a[i], b[i])
       /\ \/ i = 1 /\ ignoreQuals
          \/ i > 1 /\ a[i - 1].kind = "FUNCTION"
          \/ a[i].quals = b[i].quals

SubInt == {"BOOL", "CHAR", "SCHAR", "UCHAR", "SHORT", "USHORT"}

SameParameters(f, g) ==
  IF f.proto /\ g.proto
  THEN /\ f.variadic = g.variadic /\ Len(f.params) = Len(g.params)
       /\ \A i \in DOMAIN f.params : SameLevels(f.params[i], g.params[i], TRUE)
  ELSE \A h \in {f, g} :
         h.proto => /\ ~h.variadic
                    /\ \A i \in DOMAIN h.params : Kind(h.params[i]) \notin {"FLOAT"} \cup SubInt

Compatible(a, b, ignoreQuals) ==
  /\ SameLevels(a, b, ignoreQuals)
  /\ \A i \in DOMAIN a : a[i].kind = "FUNCTION" => SameParameters(a[i], b[i])

\* One of them is void and the other is no function.
VoidMeets(a, b) == \/ IsVoid(a) /\ ~IsFunction(b)
                   \/ IsVoid(b) /\ ~IsFunction(a)

PointerConvertibleThroughout(to, from) ==
  /\ IsPointer(to) /\ IsPointer(from) /\ Len(to) = Len(from)
  /\ \A i \in 2 .. Len(to) : SameLevel(to[i], from[i]) /\ from[i].quals \subseteq to[i].quals

PointerConvertible(to, from) ==
  /\ IsPointer(to) /\ IsPointer(from)
  /\ Quals(Inner(from)) \subseteq Quals(Inner(to))
  /\ \/ Compatible(Inner(to), Inner(from), TRUE)
     \/ VoidMeets(Inner(to), Inner(from))

CommonPointerOfLeft(a, b, allowVoid) ==
  IF Compatible(Inner(a), Inner(b), TRUE) \/ (allowVoid /\ VoidMeets(Inner(a), Inner(b)))
  THEN a ELSE NoType

CommonPointer(a, b, allowVoid) ==
  LET p == Inner(a)
      q == Inner(b)
      pointee == IF ~IsVoid(p) /\ IsVoid(q) THEN q ELSE p
  IN  IF Compatible(p, q, TRUE) \/ (allowVoid /\ VoidMeets(p, q))
      THEN PtrTo(Qualified(pointee, Quals(p) \cup Quals(q)))
      ELSE NoType
=============================================================================
