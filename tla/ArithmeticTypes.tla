---------------------------- MODULE ArithmeticTypes ----------------------------
(* Arithmetic types as Sema sees them: their ranks, their widths on the       *)
(* target, integer promotion and the usual arithmetic conversions.  Sizes are  *)
(* in bits and may be small.                                                   *)
EXTENDS Integers

CONSTANTS Targets,   \* sizes of integer types, a TargetInfo each
          CharBits

Sizes == [sizeofShort : Nat, sizeofInt : Nat, sizeofLong : Nat, sizeofLonglong : Nat]
ASSUME TargetSizes ==
  /\ Targets \subseteq Sizes /\ CharBits \in Nat \ {0}
  /\ \A t \in Targets : /\ CharBits <= t.sizeofShort /\ t.sizeofShort < t.sizeofInt
                        /\ t.sizeofInt <= t.sizeofLong
                        /\ t.sizeofLong <= t.sizeofLonglong

VARIABLE target

Signed   == {"CHAR", "SCHAR", "SHORT", "INT", "LONG", "LONGLONG"}
Unsigned == {"UCHAR", "USHORT", "UINT", "ULONG", "ULONGLONG"}
Integral == {"BOOL"} \cup Signed \cup Unsigned
Floating == {"FLOAT", "DOUBLE", "LONGDOUBLE"}
ArithmeticKinds == Integral \cup Floating

Rank(k) == CASE k = "BOOL" -> 0
             [] k \in {"CHAR", "SCHAR", "UCHAR"} -> 1
             [] k \in {"SHORT", "USHORT"} -> 2
             [] k \in {"INT", "UINT"} -> 3
             [] k \in {"LONG", "ULONG"} -> 4
             [] k \in {"LONGLONG", "ULONGLONG"} -> 5

Width(k) == CASE Rank(k) = 0 -> 1
              [] Rank(k) = 1 -> CharBits
              [] Rank(k) = 2 -> target.sizeofShort
              [] Rank(k) = 3 -> target.sizeofInt
              [] Rank(k) = 4 -> target.sizeofLong
              [] Rank(k) = 5 -> target.sizeofLonglong

-----------------------------------------------------------------------------
Promoted(k) == IF k \in Integral /\ Rank(k) < 3 THEN "INT" ELSE k

\* usualArithmetic for a signed and an unsigned type.
MixedWithoutWidth(u, s) == IF Rank(u) >= Rank(s) THEN u ELSE s

Mixed(u, s) == IF Rank(u) >= Rank(s) THEN u
               ELSE IF Width(s) > Width(u) THEN s
               ELSE IF s = "LONG" THEN "ULONG" ELSE "ULONGLONG"

UsualArithmetic(a, b) ==
  LET p == Promoted(a)
      q == Promoted(b)
      Either(k) == k \in {a, b}
  IN  IF Either("LONGDOUBLE") THEN "LONGDOUBLE"
      ELSE IF Either("DOUBLE") THEN "DOUBLE"
      ELSE IF Either("FLOAT") THEN "FLOAT"
      ELSE IF p = q THEN p
      ELSE IF (p \in Unsigned) = (q \in Unsigned) THEN IF Rank(p) >= Rank(q) THEN p ELSE q
      ELSE IF p \in Unsigned THEN Mixed(p, q) ELSE Mixed(q, p)
================================================================================
