-------------------------- MODULE Expressions_proofs --------------------------
(* Proofs about expressions, for all targets and for any objects.              *)
(*                                                                             *)
(* Of the arithmetic ones (IntegerExpressions): Sema types them as C does, and *)
(* MLIRGen computes the value C gives them, whatever the widths of the types.  *)
(* What carries it is said of every tree on the stack: where it has bits, they *)
(* are a pattern of its type, and what C calls its value is what the pattern   *)
(* stands for.  Operations on patterns are modulo a power of two and those on  *)
(* values are not, so the two are related by congruence.                       *)
(*                                                                             *)
(* Of those with pointers, arrays and functions (PointerExpressions): Sema's   *)
(* answers are C's, and the generator's values and addresses have the types    *)
(* that are lowered from the AST's.  C speaks of equal types where Sema looks  *)
(* for compatible ones; for operands of one program the two are the same, and  *)
(* the operators' answers follow one by one.  What carries it is said of the   *)
(* stack: every tree on it is one that an operand could be.                    *)
(*                                                                             *)
(* Of programs that assign through pointers (ConstantObjects): qualifiers are  *)
(* kept.  What carries it is said of values as well as of lvalues, and of the  *)
(* memory: a type in use fits the object it is used for if it is the declared  *)
(* one but for further qualifiers of its outermost level, and a pointer's type *)
(* fits what it points to one level down.                                      *)
EXTENDS Expressions, FiniteSetTheorems, SequenceTheorems, WellFoundedInduction, TLAPS

-----------------------------------------------------------------------------
(* Powers of two.                                                             *)

\* Powers of two, as the numbers of subsets.
LEMMA SubsetsOfInterval ==
  ASSUME NEW n \in Nat
  PROVE  IsFiniteSet(SUBSET (1 .. n)) /\ Cardinality(SUBSET (1 .. n)) = 2 ^ n
<1>1. IsFiniteSet(1 .. n) /\ Cardinality(1 .. n) = n
  <2>1. IsFiniteSet(1 .. n) /\ Cardinality(1 .. n) = IF 1 > n THEN 0 ELSE n - 1 + 1
      BY FS_Interval
  <2>2. QED
      BY <2>1
<1>2. QED
    BY <1>1, FS_SUBSET

LEMMA PowerType ==
  ASSUME NEW n \in Nat
  PROVE  2 ^ n \in Nat /\ 2 ^ n > 0
<1>1. IsFiniteSet(SUBSET (1 .. n)) /\ Cardinality(SUBSET (1 .. n)) = 2 ^ n
    BY SubsetsOfInterval
<1>2. 2 ^ n \in Nat
    BY <1>1, FS_CardinalityType
<1>3. 2 ^ n # 0
  <2>1. SUBSET (1 .. n) # {}
      OBVIOUS
  <2>2. QED
      BY <1>1, <2>1, FS_EmptySet
<1>4. QED
    BY <1>2, <1>3

LEMMA PowerGrows ==
  ASSUME NEW a \in Nat, NEW b \in Nat, a < b
  PROVE  2 ^ a < 2 ^ b
<1> DEFINE A == SUBSET (1 .. a)
           B == SUBSET (1 .. b)
<1>1. /\ IsFiniteSet(A) /\ Cardinality(A) = 2 ^ a
      /\ IsFiniteSet(B) /\ Cardinality(B) = 2 ^ b
    BY SubsetsOfInterval
<1>2. A \in SUBSET B /\ A # B
  <2>1. 1 .. a \subseteq 1 .. b /\ b \in 1 .. b /\ b \notin 1 .. a
      OBVIOUS
  <2>2. 1 .. b \in B /\ 1 .. b \notin A
      BY <2>1
  <2>3. QED
      BY <2>1, <2>2
<1> HIDE DEF A, B
<1>3. Cardinality(A) <= Cardinality(B) /\ Cardinality(A) # Cardinality(B)
    BY <1>1, <1>2, FS_Subset
<1>4. 2 ^ a \in Nat /\ 2 ^ b \in Nat
    BY PowerType
<1>5. QED
    BY <1>1, <1>3, <1>4

LEMMA PowerDoubles ==
  ASSUME NEW n \in Nat
  PROVE  2 ^ (n + 1) = 2 * 2 ^ n
<1> DEFINE A == SUBSET (1 .. n)
           C1 == SUBSET (1 .. n + 1)
           B == {T \union {n + 1} : T \in A}
<1>1. /\ IsFiniteSet(A) /\ Cardinality(A) = 2 ^ n
      /\ IsFiniteSet(C1) /\ Cardinality(C1) = 2 ^ (n + 1)
    BY SubsetsOfInterval
<1>2. 1 .. n + 1 = (1 .. n) \union {n + 1} /\ n + 1 \notin 1 .. n
    OBVIOUS
<1>3. C1 = A \union B
  <2>1. ASSUME NEW T \in C1 PROVE T \in A \union B
    <3>1. CASE n + 1 \in T
      <4>1. T \ {n + 1} \in A /\ T = (T \ {n + 1}) \union {n + 1}
          BY <1>2, <3>1
      <4>2. QED
          BY <4>1
    <3>2. CASE n + 1 \notin T
        BY <1>2, <3>2
    <3>3. QED
        BY <3>1, <3>2
  <2>2. ASSUME NEW T \in A \union B PROVE T \in C1
      BY <1>2
  <2>3. QED
      BY <2>1, <2>2
<1>4. A \intersect B = {}
    BY <1>2
<1>5. IsFiniteSet(B) /\ Cardinality(B) = Cardinality(A)
  <2> DEFINE f == [T \in A |-> T \union {n + 1}]
  <2>1. /\ f \in [A -> B]
        /\ \A T \in B : \E S \in A : f[S] = T
    <3>1. \A T \in A : T \union {n + 1} \in B /\ f[T] = T \union {n + 1}
        OBVIOUS
    <3>2. \A T \in B : \E S \in A : T = S \union {n + 1}
        OBVIOUS
    <3> HIDE DEF A, B
    <3>3. QED
        BY <3>1, <3>2
  <2>2. ASSUME NEW S \in A, NEW T \in A, f[S] = f[T] PROVE S = T
    <3>1. S \union {n + 1} = T \union {n + 1} /\ n + 1 \notin S /\ n + 1 \notin T
        BY <1>2, <2>2
    <3>2. S = (S \union {n + 1}) \ {n + 1} /\ T = (T \union {n + 1}) \ {n + 1}
        BY <3>1
    <3>3. QED
        BY <3>1, <3>2
  <2> HIDE DEF A, B, f
  <2>3. f \in Bijection(A, B)
      BY <2>1, <2>2 DEF Bijection, Injection, Surjection, IsInjective
  <2>4. ExistsBijection(A, B)
      BY <2>3 DEF ExistsBijection
  <2>5. QED
      BY <1>1, <2>4, FS_Bijection
<1> HIDE DEF A, B, C1
<1>6. Cardinality(C1) = Cardinality(A) + Cardinality(B) - Cardinality({})
    BY <1>1, <1>3, <1>4, <1>5, FS_Union
<1>7. Cardinality({}) = 0 /\ 2 ^ n \in Nat
    BY FS_EmptySet, PowerType
<1>8. QED
    BY <1>1, <1>5, <1>6, <1>7

LEMMA LeastOf ==
  ASSUME NEW S \in SUBSET Nat, NEW n \in S
  PROVE  \E i \in S : \A j \in S : i <= j
<1> DEFINE Less == {p \in Nat \X Nat : p[1] < p[2]}
<1>1. IsWellFoundedOn(Less, Nat)
    BY NatLessThanWellFounded DEF OpToRel
<1>2. \A i, j \in Nat : <<j, i>> \in Less <=> j < i
    OBVIOUS
<1> HIDE DEF Less
<1>3. PICK m \in S : \A j \in S : ~(<<j, m>> \in Less)
    BY <1>1, WFMin
<1>4. ASSUME NEW j \in S PROVE m <= j
  <2>1. m \in Nat /\ j \in Nat /\ ~(<<j, m>> \in Less)
      BY <1>3
  <2>2. ~(j < m)
      BY <1>2, <2>1
  <2>3. QED
      BY <2>1, <2>2
<1>5. QED
    BY <1>4

\* The powers of two below one divide it.
LEMMA PowerDivides ==
  ASSUME NEW a \in Nat, NEW d \in Nat
  PROVE  \E q \in Nat : 2 ^ (a + d) = q * 2 ^ a
<1> DEFINE Divides(e) == \E q \in Nat : 2 ^ (a + e) = q * 2 ^ a
           Missing == {e \in Nat : ~Divides(e)}
<1> SUFFICES ASSUME d \in Missing PROVE FALSE
    OBVIOUS
<1>1. PICK e \in Missing : \A j \in Missing : e <= j
  <2>1. Missing \in SUBSET Nat
      OBVIOUS
  <2> HIDE DEF Missing
  <2>2. QED
      BY <2>1, LeastOf
<1>2. 2 ^ a \in Nat /\ e \in Nat /\ ~Divides(e)
    BY PowerType
<1>3. CASE e = 0
  <2>1. a + e = a /\ 2 ^ a = 1 * 2 ^ a
      BY <1>2, <1>3
  <2>2. QED
      BY <1>2, <2>1
<1>4. CASE e # 0
  <2>1. e - 1 \in Nat /\ ~(e <= e - 1) /\ a + e = (a + (e - 1)) + 1 /\ a + (e - 1) \in Nat
      BY <1>2, <1>4
  <2>2. PICK q \in Nat : 2 ^ (a + (e - 1)) = q * 2 ^ a
      BY <1>1, <2>1
  <2>3. 2 ^ (a + e) = 2 * 2 ^ (a + (e - 1))
      BY <2>1, PowerDoubles
  <2>4. 2 ^ (a + e) = (2 * q) * 2 ^ a
    <3> DEFINE m == 2 ^ a
    <3>1. m \in Nat /\ 2 ^ (a + e) = 2 * (q * m)
        BY <1>2, <2>2, <2>3
    <3> HIDE DEF m
    <3>2. 2 * (q * m) = (2 * q) * m
        BY <3>1
    <3>3. QED
        BY <3>1, <3>2 DEF m
  <2>5. 2 * q \in Nat
      OBVIOUS
  <2>6. \E r \in Nat : 2 ^ (a + e) = r * 2 ^ a
      BY <2>4, <2>5
  <2>7. QED
      BY <1>2, <2>6
<1>5. QED
    BY <1>3, <1>4

-----------------------------------------------------------------------------
\* Types.  On every target the widths grow with the rank.
Target == target \in Targets

LEMMA Widths ==
  ASSUME Target
  PROVE  /\ Width("BOOL") = 1
         /\ Width("CHAR") = CharBits /\ Width("SCHAR") = CharBits /\ Width("UCHAR") = CharBits
         /\ Width("SHORT") = target.sizeofShort /\ Width("USHORT") = target.sizeofShort
         /\ Width("INT") = target.sizeofInt /\ Width("UINT") = target.sizeofInt
         /\ Width("LONG") = target.sizeofLong /\ Width("ULONG") = target.sizeofLong
         /\ Width("LONGLONG") = target.sizeofLonglong /\ Width("ULONGLONG") = target.sizeofLonglong
         /\ CharBits \in Nat \ {0} /\ target.sizeofShort \in Nat /\ target.sizeofInt \in Nat
         /\ target.sizeofLong \in Nat /\ target.sizeofLonglong \in Nat
         /\ CharBits <= target.sizeofShort /\ target.sizeofShort < target.sizeofInt
         /\ target.sizeofInt <= target.sizeofLong /\ target.sizeofLong <= target.sizeofLonglong
<1>1. /\ target \in Sizes /\ CharBits \in Nat \ {0}
      /\ CharBits <= target.sizeofShort /\ target.sizeofShort < target.sizeofInt
      /\ target.sizeofInt <= target.sizeofLong /\ target.sizeofLong <= target.sizeofLonglong
    BY TargetSizes DEF Target
<1>2. /\ target.sizeofShort \in Nat /\ target.sizeofInt \in Nat
      /\ target.sizeofLong \in Nat /\ target.sizeofLonglong \in Nat
    BY <1>1 DEF Sizes
<1>3. /\ Rank("BOOL") = 0 /\ Rank("CHAR") = 1 /\ Rank("SCHAR") = 1 /\ Rank("UCHAR") = 1
      /\ Rank("SHORT") = 2 /\ Rank("USHORT") = 2 /\ Rank("INT") = 3 /\ Rank("UINT") = 3
      /\ Rank("LONG") = 4 /\ Rank("ULONG") = 4 /\ Rank("LONGLONG") = 5 /\ Rank("ULONGLONG") = 5
    BY DEF Rank
<1>4. /\ Width("BOOL") = 1
      /\ Width("CHAR") = CharBits /\ Width("SCHAR") = CharBits /\ Width("UCHAR") = CharBits
      /\ Width("SHORT") = target.sizeofShort /\ Width("USHORT") = target.sizeofShort
      /\ Width("INT") = target.sizeofInt /\ Width("UINT") = target.sizeofInt
      /\ Width("LONG") = target.sizeofLong /\ Width("ULONG") = target.sizeofLong
      /\ Width("LONGLONG") = target.sizeofLonglong /\ Width("ULONGLONG") = target.sizeofLonglong
    BY <1>3 DEF Width
<1>5. QED
    BY <1>1, <1>2, <1>4

LEMMA WidthType ==
  ASSUME Target, NEW k \in Integral
  PROVE  Width(k) \in Nat /\ Width(k) >= 1
BY Widths DEF Integral, Signed, Unsigned

\* The values of a type are those between its least and its greatest.
Low(k)  == IF k \in Signed THEN -(2 ^ (Width(k) - 1)) ELSE 0
High(k) == IF k \in Signed THEN 2 ^ (Width(k) - 1) - 1 ELSE 2 ^ Width(k) - 1

LEMMA ValuesAre ==
  ASSUME Target, NEW k \in Integral
  PROVE  /\ C!Values(k) = Low(k) .. High(k)
         /\ Low(k) \in Int /\ High(k) \in Nat /\ Low(k) <= 0
<1>1. Width(k) \in Nat /\ Width(k) - 1 \in Nat
    BY WidthType
<1>2. 2 ^ Width(k) \in Nat /\ 2 ^ Width(k) > 0 /\ 2 ^ (Width(k) - 1) \in Nat /\ 2 ^ (Width(k) - 1) > 0
    BY <1>1, PowerType
<1>3. [j \in Integral |-> Width(j)][k] = Width(k)
    OBVIOUS
<1>4. CASE k \in Signed
  <2>1. k # "BOOL" /\ k \notin C!Unsigned
      BY <1>4 DEF Signed, C!Unsigned
  <2>2. C!Values(k) = -(2 ^ (Width(k) - 1))..(2 ^ (Width(k) - 1) - 1)
      BY <1>3, <2>1 DEF C!Values
  <2>3. QED
      BY <1>2, <1>4, <2>2 DEF Low, High
<1>5. CASE k = "BOOL"
  <2>1. Width(k) = 1 /\ 2 ^ 1 = 2 /\ k \notin Signed
      BY <1>5, Widths DEF Signed
  <2>2. C!Values(k) = 0 .. 1
      BY <1>5 DEF C!Values
  <2>3. QED
      BY <1>2, <2>1, <2>2 DEF Low, High
<1>6. CASE k \notin Signed /\ k # "BOOL"
  <2>1. k \in C!Unsigned
      BY <1>6 DEF Integral, Signed, Unsigned, C!Unsigned
  <2>2. C!Values(k) = 0 .. 2 ^ Width(k) - 1
      BY <1>3, <1>6, <2>1 DEF C!Values
  <2>3. QED
      BY <1>2, <1>6, <2>2 DEF Low, High
<1>7. QED
    BY <1>4, <1>5, <1>6

\* One type has all the values of another.
LEMMA PowersOrdered ==
  ASSUME NEW a \in Nat, NEW b \in Nat
  PROVE  2 ^ a <= 2 ^ b <=> a <= b
<1>1. 2 ^ a \in Nat /\ 2 ^ b \in Nat
    BY PowerType
<1>2. CASE a < b
    BY <1>1, <1>2, PowerGrows
<1>3. CASE b < a
    BY <1>1, <1>3, PowerGrows
<1>4. CASE a = b
    BY <1>1, <1>4
<1>5. QED
    BY <1>2, <1>3, <1>4

LEMMA Included ==
  ASSUME Target, NEW k \in Integral, NEW j \in Integral
  PROVE  C!Values(k) \subseteq C!Values(j) <=>
           IF k \in Signed THEN j \in Signed /\ Width(k) <= Width(j)
           ELSE IF j \in Signed THEN Width(k) < Width(j) ELSE Width(k) <= Width(j)
<1> DEFINE v == Width(k)
           w == Width(j)
<1>1. v \in Nat /\ w \in Nat /\ v - 1 \in Nat /\ w - 1 \in Nat
    BY WidthType
<1>2. /\ C!Values(k) = Low(k) .. High(k) /\ Low(k) \in Int /\ High(k) \in Nat /\ Low(k) <= 0
      /\ C!Values(j) = Low(j) .. High(j) /\ Low(j) \in Int /\ High(j) \in Nat /\ Low(j) <= 0
    BY ValuesAre
<1>3. C!Values(k) \subseteq C!Values(j) <=> Low(j) <= Low(k) /\ High(k) <= High(j)
  <2>1. Low(k) \in Low(k) .. High(k) /\ High(k) \in Low(k) .. High(k)
      BY <1>2
  <2>2. QED
      BY <1>2, <2>1
<1>4. /\ 2 ^ v \in Nat /\ 2 ^ w \in Nat /\ 2 ^ (v - 1) \in Nat /\ 2 ^ (w - 1) \in Nat
      /\ 2 ^ v > 0 /\ 2 ^ w > 0 /\ 2 ^ (v - 1) > 0 /\ 2 ^ (w - 1) > 0
    BY <1>1, PowerType
<1>5. /\ 2 ^ v <= 2 ^ w <=> v <= w
      /\ 2 ^ (v - 1) <= 2 ^ (w - 1) <=> v - 1 <= w - 1
      /\ 2 ^ v <= 2 ^ (w - 1) <=> v <= w - 1
    BY <1>1, PowersOrdered
<1>6. /\ v - 1 <= w - 1 <=> v <= w
      /\ v <= w - 1 <=> v < w
    BY <1>1
<1>7. CASE k \in Signed /\ j \in Signed
  <2>1. /\ Low(k) = -(2 ^ (v - 1)) /\ High(k) = 2 ^ (v - 1) - 1
        /\ Low(j) = -(2 ^ (w - 1)) /\ High(j) = 2 ^ (w - 1) - 1
      BY <1>7 DEF Low, High
  <2> HIDE DEF v, w
  <2>2. Low(j) <= Low(k) /\ High(k) <= High(j) <=> v <= w
      BY <1>4, <1>5, <1>6, <2>1
  <2>3. QED
      BY <1>3, <1>7, <2>2 DEF v, w
<1>8. CASE k \in Signed /\ j \notin Signed
  <2>1. Low(k) = -(2 ^ (v - 1)) /\ Low(j) = 0
      BY <1>8 DEF Low
  <2> HIDE DEF v, w
  <2>2. ~(Low(j) <= Low(k))
      BY <1>4, <2>1
  <2>3. QED
      BY <1>3, <1>8, <2>2
<1>9. CASE k \notin Signed /\ j \in Signed
  <2>1. /\ Low(k) = 0 /\ High(k) = 2 ^ v - 1
        /\ Low(j) = -(2 ^ (w - 1)) /\ High(j) = 2 ^ (w - 1) - 1
      BY <1>9 DEF Low, High
  <2> HIDE DEF v, w
  <2>2. Low(j) <= Low(k) /\ High(k) <= High(j) <=> v < w
      BY <1>4, <1>5, <1>6, <2>1
  <2>3. QED
      BY <1>3, <1>9, <2>2 DEF v, w
<1>10. CASE k \notin Signed /\ j \notin Signed
  <2>1. /\ Low(k) = 0 /\ High(k) = 2 ^ v - 1
        /\ Low(j) = 0 /\ High(j) = 2 ^ w - 1
      BY <1>10 DEF Low, High
  <2> HIDE DEF v, w
  <2>2. Low(j) <= Low(k) /\ High(k) <= High(j) <=> v <= w
      BY <1>4, <1>5, <1>6, <2>1
  <2>3. QED
      BY <1>3, <1>10, <2>2 DEF v, w
<1>11. QED
    BY <1>7, <1>8, <1>9, <1>10

\* The types conversions lead to, in their order.
Ordered == {"INT", "UINT", "LONG", "ULONG", "LONGLONG", "ULONGLONG",
            "FLOAT", "DOUBLE", "LONGDOUBLE"}
At(k) == CASE k = "INT" -> 1 [] k = "UINT" -> 2 [] k = "LONG" -> 3 [] k = "ULONG" -> 4
           [] k = "LONGLONG" -> 5 [] k = "ULONGLONG" -> 6
           [] k = "FLOAT" -> 7 [] k = "DOUBLE" -> 8 [] k = "LONGDOUBLE" -> 9

LEMMA OrderIs ==
  /\ DOMAIN C!Order = 1 .. 9 /\ Len(C!Order) = 9
  /\ C!Order[1] = "INT" /\ C!Order[2] = "UINT" /\ C!Order[3] = "LONG" /\ C!Order[4] = "ULONG"
  /\ C!Order[5] = "LONGLONG" /\ C!Order[6] = "ULONGLONG"
  /\ C!Order[7] = "FLOAT" /\ C!Order[8] = "DOUBLE" /\ C!Order[9] = "LONGDOUBLE"
BY DEF C!Order

LEMMA OneOfNine ==
  ASSUME NEW i \in 1 .. 9
  PROVE  i \in {1, 2, 3, 4, 5, 6, 7, 8, 9}
OBVIOUS

LEMMA Places ==
  /\ \A k \in Ordered : At(k) \in 1 .. 9 /\ C!Order[At(k)] = k
  /\ \A i \in 1 .. 9 : C!Order[i] \in Ordered /\ At(C!Order[i]) = i
  /\ \A k \in Ordered : C!Position(k) = At(k)
<1>1. /\ At("INT") = 1 /\ At("UINT") = 2 /\ At("LONG") = 3 /\ At("ULONG") = 4
      /\ At("LONGLONG") = 5 /\ At("ULONGLONG") = 6
      /\ At("FLOAT") = 7 /\ At("DOUBLE") = 8 /\ At("LONGDOUBLE") = 9
    BY DEF At
<1>2. \A k \in Ordered : At(k) \in 1 .. 9 /\ C!Order[At(k)] = k
    BY <1>1, OrderIs DEF Ordered
<1>3. \A i \in 1 .. 9 : C!Order[i] \in Ordered /\ At(C!Order[i]) = i
    BY <1>1, OrderIs, OneOfNine DEF Ordered
<1>4. ASSUME NEW k \in Ordered PROVE C!Position(k) = At(k)
  <2>1. At(k) \in DOMAIN C!Order /\ C!Order[At(k)] = k
      BY <1>2, OrderIs
  <2>2. \A i \in DOMAIN C!Order : C!Order[i] = k => i = At(k)
      BY <1>3, OrderIs
  <2> DEFINE p == CHOOSE i \in DOMAIN C!Order : C!Order[i] = k
  <2>3. p \in DOMAIN C!Order /\ C!Order[p] = k
      BY <2>1, Zenon
  <2>4. C!Position(k) = p
      BY DEF C!Position
  <2> HIDE DEF p
  <2>5. QED
      BY <2>2, <2>3, <2>4
<1>5. QED
    BY <1>2, <1>3, <1>4

LEMMA PromotionAgrees ==
  ASSUME Target, NEW k \in ArithmeticKinds
  PROVE  C!Promotion(k) = Promoted(k) /\ Promoted(k) \in Ordered /\ Promoted(k) \in ArithmeticKinds
<1>1. CASE k \in Ordered
  <2>1. \E i \in DOMAIN C!Order : C!Order[i] = k
      BY <1>1, Places, OrderIs
  <2>2. C!Promotion(k) = k
      BY <2>1 DEF C!Promotion
  <2>3. Promoted(k) = k
      BY <1>1 DEF Promoted, Ordered, Rank, Integral, Signed, Unsigned
  <2>4. QED
      BY <1>1, <2>2, <2>3
<1>2. CASE k \notin Ordered
  <2>1. ~ \E i \in DOMAIN C!Order : C!Order[i] = k
      BY <1>2, Places, OrderIs
  <2>2. k \in {"BOOL", "CHAR", "SCHAR", "UCHAR", "SHORT", "USHORT"}
      BY <1>2 DEF Ordered, ArithmeticKinds, Integral, Signed, Unsigned, Floating
  <2>3. Promoted(k) = "INT"
      BY <2>2 DEF Promoted, Rank, Integral, Signed, Unsigned
  <2>4. k \in Integral /\ "INT" \in Integral /\ "INT" \in Signed /\ Width(k) < Width("INT")
      BY <2>2, Widths DEF Integral, Signed, Unsigned
  <2>5. C!Values(k) \subseteq C!Values("INT")
    <3>1. Width(k) \in Nat /\ Width("INT") \in Nat
        BY <2>4, WidthType
    <3>2. Width(k) <= Width("INT")
        BY <2>4, <3>1
    <3>3. QED
        BY <2>4, <3>2, Included
  <2>6. QED
      BY <2>1, <2>3, <2>5 DEF C!Promotion, Ordered, ArithmeticKinds, Integral, Signed
<1>3. QED
    BY <1>1, <1>2

\* The type both operands are brought to.
Suits(x, y, k) == \/ k \in C!Unsigned \/ k \in C!Floating
                  \/ C!Values(x) \subseteq C!Values(k) /\ C!Values(y) \subseteq C!Values(k)
IsCommon(x, y, k) ==
  /\ At(x) <= At(k) /\ At(y) <= At(k) /\ Suits(x, y, k)
  /\ \A j \in Ordered : At(x) <= At(j) /\ At(y) <= At(j) /\ At(j) < At(k) => ~Suits(x, y, j)

LEMMA CommonIs ==
  ASSUME Target, NEW a \in ArithmeticKinds, NEW b \in ArithmeticKinds, NEW k \in Ordered,
         IsCommon(Promoted(a), Promoted(b), k)
  PROVE  C!CommonType(a, b) = k
<1> DEFINE x == Promoted(a)
           y == Promoted(b)
           later == C!Max({C!Position(x), C!Position(y)})
           places == {i \in later .. Len(C!Order) : Suits(x, y, C!Order[i])}
<1>1. /\ C!Promotion(a) = x /\ C!Promotion(b) = y /\ x \in Ordered /\ y \in Ordered
    BY PromotionAgrees
<1>2. C!CommonType(a, b) = C!Order[C!Min(places)]
    BY <1>1 DEF C!CommonType, Suits
<1> HIDE DEF x, y
<1>3. /\ C!Position(x) = At(x) /\ C!Position(y) = At(y)
      /\ At(x) \in 1 .. 9 /\ At(y) \in 1 .. 9 /\ At(k) \in 1 .. 9 /\ C!Order[At(k)] = k
    BY <1>1, Places
<1>4. later \in 1 .. 9 /\ (\A i \in 1 .. 9 : later <= i <=> At(x) <= i /\ At(y) <= i)
  <2> DEFINE m == IF At(x) <= At(y) THEN At(y) ELSE At(x)
  <2>1. m \in {At(x), At(y)} /\ \A i \in {At(x), At(y)} : m >= i
      BY <1>3
  <2>2. \A i \in {At(x), At(y)} : (\A j \in {At(x), At(y)} : i >= j) => i = m
      BY <1>3
  <2>3. later = CHOOSE i \in {At(x), At(y)} : \A j \in {At(x), At(y)} : i >= j
      BY <1>3 DEF C!Max
  <2>4. m \in 1 .. 9 /\ (\A i \in 1 .. 9 : m <= i <=> At(x) <= i /\ At(y) <= i)
      BY <1>3
  <2> HIDE DEF m, later
  <2>5. later = m
      BY <2>1, <2>2, <2>3
  <2>6. QED
      BY <2>4, <2>5
<1> HIDE DEF later
<1>5. /\ At(k) \in places /\ \A i \in places : At(k) <= i
  <2>1. At(x) <= At(k) /\ At(y) <= At(k) /\ Suits(x, y, k)
      BY DEF IsCommon, x, y
  <2>2. At(k) \in places
      BY <1>3, <1>4, <2>1, OrderIs
  <2>3. ASSUME NEW i \in places PROVE At(k) <= i
    <3>1. i \in 1 .. 9 /\ later <= i /\ Suits(x, y, C!Order[i])
        BY <1>4, OrderIs
    <3>2. C!Order[i] \in Ordered /\ At(C!Order[i]) = i
        BY <3>1, Places
    <3>3. ~(i < At(k))
        BY <1>4, <3>1, <3>2 DEF IsCommon, x, y
    <3>4. QED
        BY <1>3, <3>1, <3>3
  <2>4. QED
      BY <2>2, <2>3
<1>6. C!Min(places) = At(k)
  <2>1. \A i \in places : i \in Int
      BY <1>4, OrderIs
  <2> HIDE DEF places
  <2>2. \A i \in places : (\A j \in places : i <= j) => i = At(k)
      BY <1>3, <1>5, <2>1
  <2>3. QED
      BY <1>5, <2>2 DEF C!Min
<1>7. QED
    BY <1>2, <1>3, <1>6

OrderedInts == {"INT", "UINT", "LONG", "ULONG", "LONGLONG", "ULONGLONG"}

\* Ranks decide the place, and with the sign the inclusion, of the types in order.
LEMMA OrderedFacts ==
  ASSUME Target, NEW k \in OrderedInts
  PROVE  /\ k \in Integral /\ k \in Ordered /\ k \notin C!Floating /\ k \notin Floating
         /\ k \in Signed <=> k \notin Unsigned
         /\ k \in C!Unsigned <=> k \in Unsigned
         /\ Rank(k) \in 3 .. 5 /\ Width(k) \in Nat
         /\ At(k) = IF k \in Signed THEN 2 * Rank(k) - 5 ELSE 2 * Rank(k) - 4
<1>1. k \in Integral /\ k \in Ordered /\ k \notin C!Floating /\ k \notin Floating
    BY DEF OrderedInts, Integral, Signed, Unsigned, Ordered, C!Floating, Floating
<1>2. (k \in Signed <=> k \notin Unsigned) /\ (k \in C!Unsigned <=> k \in Unsigned)
    BY DEF OrderedInts, Signed, Unsigned, C!Unsigned
<1>3. Width(k) \in Nat
    BY <1>1, WidthType
<1>4. CASE k \in {"INT", "LONG", "LONGLONG"}
    BY <1>1, <1>2, <1>3, <1>4 DEF Rank, At, Signed
<1>5. CASE k \in {"UINT", "ULONG", "ULONGLONG"}
    BY <1>1, <1>2, <1>3, <1>5 DEF Rank, At, Signed
<1>6. QED
    BY <1>4, <1>5 DEF OrderedInts

LEMMA WidthsByRank ==
  ASSUME Target, NEW k \in OrderedInts, NEW j \in OrderedInts, Rank(k) <= Rank(j)
  PROVE  Width(k) <= Width(j)
<1>1. /\ target.sizeofInt \in Nat /\ target.sizeofLong \in Nat /\ target.sizeofLonglong \in Nat
      /\ target.sizeofInt <= target.sizeofLong /\ target.sizeofLong <= target.sizeofLonglong
    BY Widths
<1>2. Rank(k) \in 3 .. 5 /\ Rank(j) \in 3 .. 5
    BY OrderedFacts
<1>3. \A i \in OrderedInts : Width(i) = IF Rank(i) = 3 THEN target.sizeofInt
                                        ELSE IF Rank(i) = 4 THEN target.sizeofLong
                                        ELSE target.sizeofLonglong
  <2> SUFFICES ASSUME NEW i \in OrderedInts
               PROVE  Width(i) = IF Rank(i) = 3 THEN target.sizeofInt
                                 ELSE IF Rank(i) = 4 THEN target.sizeofLong
                                 ELSE target.sizeofLonglong
      OBVIOUS
  <2>1. Rank(i) \in 3 .. 5
      BY OrderedFacts
  <2>2. Rank(i) = 3 \/ Rank(i) = 4 \/ Rank(i) = 5
      BY <2>1
  <2>3. QED
      BY <2>2 DEF Width
<1>4. QED
    BY <1>1, <1>2, <1>3

\* A type and one of the other sign.
LEMMA MixedIsCommon ==
  ASSUME Target, NEW u \in OrderedInts, NEW s \in OrderedInts, u \in Unsigned, s \in Signed
  PROVE  Mixed(u, s) \in Ordered /\ IsCommon(u, s, Mixed(u, s))
<1>1. /\ u \in Integral /\ u \in Ordered /\ u \notin Signed /\ u \in C!Unsigned
      /\ Rank(u) \in 3 .. 5 /\ Width(u) \in Nat /\ At(u) = 2 * Rank(u) - 4
    BY OrderedFacts
<1>2. /\ s \in Integral /\ s \in Ordered /\ s \notin Unsigned /\ s \notin C!Unsigned /\ s \notin C!Floating
      /\ Rank(s) \in 3 .. 5 /\ Width(s) \in Nat /\ At(s) = 2 * Rank(s) - 5
    BY OrderedFacts
<1>3. \A j \in Ordered : At(j) \in 1 .. 9 /\ C!Order[At(j)] = j
    BY Places
<1>4. C!Values(u) \subseteq C!Values(s) <=> Width(u) < Width(s)
    BY <1>1, <1>2, Included
<1>5. CASE Rank(u) >= Rank(s)
  <2>1. Mixed(u, s) = u
      BY <1>5 DEF Mixed
  <2>2. At(u) >= At(s)
      BY <1>1, <1>2, <1>5
  <2>3. IsCommon(u, s, u)
      BY <1>1, <1>2, <1>3, <2>2 DEF IsCommon, Suits
  <2>4. QED
      BY <1>1, <2>1, <2>3
<1>6. CASE Rank(u) < Rank(s) /\ Width(s) > Width(u)
  <2>1. Mixed(u, s) = s
      BY <1>1, <1>2, <1>6 DEF Mixed
  <2>2. At(u) <= At(s)
      BY <1>1, <1>2, <1>6
  <2>3. C!Values(u) \subseteq C!Values(s)
      BY <1>1, <1>2, <1>4, <1>6
  <2>4. IsCommon(u, s, s)
      BY <1>1, <1>2, <1>3, <2>2, <2>3 DEF IsCommon, Suits
  <2>5. QED
      BY <1>2, <2>1, <2>4
<1>7. CASE Rank(u) < Rank(s) /\ ~(Width(s) > Width(u))
  <2> DEFINE k == IF s = "LONG" THEN "ULONG" ELSE "ULONGLONG"
  <2>1. Mixed(u, s) = k
      BY <1>1, <1>2, <1>7 DEF Mixed
  <2>2. Rank(s) # 3
      BY <1>1, <1>2, <1>7
  <2>3. s \in {"LONG", "LONGLONG"}
      BY <2>2 DEF OrderedInts, Signed, Rank
  <2>4. k \in Ordered /\ At(k) = At(s) + 1 /\ k \in C!Unsigned
      BY <2>3 DEF Ordered, At, C!Unsigned
  <2> HIDE DEF k
  <2>5. At(u) <= At(k) /\ At(s) <= At(k)
      BY <1>1, <1>2, <1>7, <2>4
  <2>6. ASSUME NEW j \in Ordered, At(s) <= At(j), At(j) < At(k) PROVE ~Suits(u, s, j)
    <3>1. At(j) = At(s)
        BY <1>2, <1>3, <2>4, <2>6
    <3>2. j = s
        BY <1>2, <1>3, <3>1
    <3>3. QED
        BY <1>1, <1>2, <1>4, <1>7, <3>2 DEF Suits
  <2>7. IsCommon(u, s, k)
      BY <2>4, <2>5, <2>6 DEF IsCommon, Suits
  <2>8. QED
      BY <2>1, <2>4, <2>7
<1>8. QED
    BY <1>1, <1>2, <1>5, <1>6, <1>7

LEMMA CommonIsSymmetric ==
  ASSUME NEW x, NEW y, NEW k, IsCommon(x, y, k)
  PROVE  IsCommon(y, x, k)
BY DEF IsCommon, Suits

\* The code's usual arithmetic conversions are C's.
LEMMA UsualIsCommon ==
  ASSUME Target, NEW a \in ArithmeticKinds, NEW b \in ArithmeticKinds
  PROVE  /\ C!CommonType(a, b) = UsualArithmetic(a, b)
         /\ UsualArithmetic(a, b) \in ArithmeticKinds
<1> DEFINE x == Promoted(a)
           y == Promoted(b)
           k == UsualArithmetic(a, b)
<1>1. x \in Ordered /\ y \in Ordered
    BY PromotionAgrees
<1>2. Ordered \subseteq ArithmeticKinds /\ Ordered = OrderedInts \union {"FLOAT", "DOUBLE", "LONGDOUBLE"}
    BY DEF Ordered, OrderedInts, ArithmeticKinds, Integral, Signed, Unsigned, Floating
<1>3. /\ x \in Floating <=> a \in Floating
      /\ y \in Floating <=> b \in Floating
      /\ x \in Floating => x = a
      /\ y \in Floating => y = b
    BY DEF Promoted, Floating, ArithmeticKinds, Integral, Signed, Unsigned
<1>4. /\ At("FLOAT") = 7 /\ At("DOUBLE") = 8 /\ At("LONGDOUBLE") = 9
      /\ \A j \in OrderedInts : At(j) < 7 /\ At(j) \in Nat
    BY DEF At, OrderedInts
<1>5. {"FLOAT", "DOUBLE", "LONGDOUBLE"} = Floating /\ C!Floating = Floating
    BY DEF Floating, C!Floating
<1>6. \A j \in Ordered : At(j) \in 1 .. 9 /\ C!Order[At(j)] = j
    BY Places
<1>7. CASE x \in Floating \/ y \in Floating
  <2>1. \/ k = "LONGDOUBLE" /\ (x = "LONGDOUBLE" \/ y = "LONGDOUBLE")
        \/ k = "DOUBLE" /\ (x = "DOUBLE" \/ y = "DOUBLE") /\ x # "LONGDOUBLE" /\ y # "LONGDOUBLE"
        \/ k = "FLOAT" /\ (x = "FLOAT" \/ y = "FLOAT") /\ x \notin {"DOUBLE", "LONGDOUBLE"} /\ y \notin {"DOUBLE", "LONGDOUBLE"}
    <3>1. \A f \in Floating : (a = f <=> x = f) /\ (b = f <=> y = f)
        BY <1>3
    <3> HIDE DEF x, y
    <3>2. QED
        BY <1>5, <1>7, <3>1 DEF UsualArithmetic
  <2> HIDE DEF x, y, k
  <2>2. k \in Floating /\ (k = x \/ k = y) /\ At(x) <= At(k) /\ At(y) <= At(k)
      BY <1>1, <1>2, <1>4, <1>5, <2>1
  <2>3. k \in Ordered /\ IsCommon(x, y, k)
    <3>1. k \in Ordered
        BY <1>1, <2>2
    <3>2. ASSUME NEW j \in Ordered, At(x) <= At(j), At(y) <= At(j) PROVE ~(At(j) < At(k))
        BY <1>1, <1>6, <2>2, <3>1, <3>2
    <3>3. QED
        BY <1>5, <2>2, <3>1, <3>2 DEF IsCommon, Suits
  <2>4. QED
      BY <1>2, <2>3, CommonIs DEF x, y, k
<1>8. CASE x \notin Floating /\ y \notin Floating
  <2>1. x \in OrderedInts /\ y \in OrderedInts
      BY <1>1, <1>2, <1>5, <1>8
  <2>2. k = IF x = y THEN x
            ELSE IF (x \in Unsigned) = (y \in Unsigned) THEN IF Rank(x) >= Rank(y) THEN x ELSE y
            ELSE IF x \in Unsigned THEN Mixed(x, y) ELSE Mixed(y, x)
    <3>1. \A f \in Floating : a # f /\ b # f
        BY <1>3, <1>8
    <3>2. QED
        BY <1>5, <3>1 DEF UsualArithmetic
  <2> HIDE DEF x, y, k
  <2>3. /\ x \in Integral /\ (x \in Signed <=> x \notin Unsigned) /\ (x \in C!Unsigned <=> x \in Unsigned)
        /\ Rank(x) \in 3 .. 5 /\ Width(x) \in Nat
        /\ At(x) = IF x \in Signed THEN 2 * Rank(x) - 5 ELSE 2 * Rank(x) - 4
      BY <2>1, OrderedFacts
  <2>4. /\ y \in Integral /\ (y \in Signed <=> y \notin Unsigned) /\ (y \in C!Unsigned <=> y \in Unsigned)
        /\ Rank(y) \in 3 .. 5 /\ Width(y) \in Nat
        /\ At(y) = IF y \in Signed THEN 2 * Rank(y) - 5 ELSE 2 * Rank(y) - 4
      BY <2>1, OrderedFacts
  <2>5. ASSUME NEW p \in OrderedInts, NEW q \in OrderedInts, p \in Unsigned <=> q \in Unsigned,
               Rank(p) >= Rank(q)
        PROVE  IsCommon(q, p, p)
    <3>1. /\ p \in Integral /\ (p \in Signed <=> p \notin Unsigned) /\ (p \in C!Unsigned <=> p \in Unsigned)
          /\ Rank(p) \in 3 .. 5 /\ Width(p) \in Nat /\ p \in Ordered
          /\ At(p) = IF p \in Signed THEN 2 * Rank(p) - 5 ELSE 2 * Rank(p) - 4
        BY OrderedFacts
    <3>2. /\ q \in Integral /\ (q \in Signed <=> q \notin Unsigned) /\ q \in Ordered
          /\ Rank(q) \in 3 .. 5 /\ Width(q) \in Nat
          /\ At(q) = IF q \in Signed THEN 2 * Rank(q) - 5 ELSE 2 * Rank(q) - 4
        BY OrderedFacts
    <3>3. At(q) <= At(p)
        BY <2>5, <3>1, <3>2
    <3>4. Width(q) <= Width(p)
        BY <2>5, <3>1, <3>2, WidthsByRank
    <3>5. C!Values(q) \subseteq C!Values(p)
        BY <2>5, <3>1, <3>2, <3>4, Included
    <3>6. ASSUME NEW j \in Ordered, At(p) <= At(j) PROVE ~(At(j) < At(p))
        BY <1>6, <3>1, <3>6
    <3>7. QED
        BY <1>6, <3>1, <3>3, <3>5, <3>6 DEF IsCommon, Suits
  <2>6. k \in Ordered /\ IsCommon(x, y, k)
    <3>1. CASE x = y
        BY <1>1, <2>1, <2>2, <2>3, <2>5, <3>1
    <3>2. CASE x # y /\ (x \in Unsigned <=> y \in Unsigned) /\ Rank(x) >= Rank(y)
      <4>1. k = x
          BY <2>2, <3>2
      <4>2. QED
          BY <1>1, <2>1, <2>5, <3>2, <4>1, CommonIsSymmetric
    <3>3. CASE x # y /\ (x \in Unsigned <=> y \in Unsigned) /\ ~(Rank(x) >= Rank(y))
      <4>1. k = y
          BY <2>2, <3>3
      <4>2. Rank(y) >= Rank(x)
          BY <2>3, <2>4, <3>3
      <4>3. QED
          BY <1>1, <2>1, <2>5, <3>3, <4>1, <4>2
    <3>4. CASE x \in Unsigned /\ y \notin Unsigned
      <4>1. k = Mixed(x, y)
          BY <2>2, <3>4
      <4>2. QED
          BY <2>1, <2>4, <3>4, <4>1, MixedIsCommon
    <3>5. CASE x \notin Unsigned /\ y \in Unsigned
      <4>1. k = Mixed(y, x)
          BY <2>2, <3>5
      <4>2. QED
          BY <2>1, <2>3, <3>5, <4>1, MixedIsCommon, CommonIsSymmetric
    <3>6. QED
        BY <3>1, <3>2, <3>3, <3>4, <3>5
  <2>7. QED
      BY <1>2, <2>6, CommonIs DEF x, y, k
<1>9. QED
    BY <1>7, <1>8

\* Literals: the candidates are the types a spelling allows, in their order.
Spelled(k, suffix, decimal) ==
  LET hasU == suffix \in {"u", "ul", "ull"}
  IN  /\ hasU => k \in C!Unsigned
      /\ ~hasU /\ decimal => k \notin C!Unsigned
      /\ suffix \in {"l", "ul"} => At(k) >= 3
      /\ suffix \in {"ll", "ull"} => At(k) >= 5

CandidatesFit(c, suffix, decimal) ==
  /\ DOMAIN c \in SUBSET Nat
  /\ \A i \in DOMAIN c : c[i] \in OrderedInts /\ Spelled(c[i], suffix, decimal)
  /\ \A k \in OrderedInts : Spelled(k, suffix, decimal) => \E i \in DOMAIN c : c[i] = k
  /\ \A i, j \in DOMAIN c : i <= j => At(c[i]) <= At(c[j])

LEMMA CandidatesAre ==
  ASSUME NEW suffix \in Suffixes, NEW decimal \in BOOLEAN
  PROVE  CandidatesFit(Candidates(suffix, decimal), suffix, decimal)
<1> DEFINE c == Candidates(suffix, decimal)
<1>1. /\ At("INT") = 1 /\ At("UINT") = 2 /\ At("LONG") = 3 /\ At("ULONG") = 4
      /\ At("LONGLONG") = 5 /\ At("ULONGLONG") = 6
    BY DEF At
<1>2. /\ \A k \in OrderedInts : k \in C!Unsigned <=> k \in {"UINT", "ULONG", "ULONGLONG"}
    BY DEF OrderedInts, C!Unsigned
<1>3. CASE suffix = "" /\ decimal
  <2>1. c = <<"INT", "LONG", "LONGLONG">>
      BY <1>3 DEF Candidates
  <2>2. \A k \in OrderedInts : Spelled(k, suffix, decimal) <=> k \in {"INT", "LONG", "LONGLONG"}
      BY <1>1, <1>2, <1>3 DEF Spelled, OrderedInts
  <2> HIDE DEF c
  <2>3. QED
      BY <1>1, <2>1, <2>2 DEF CandidatesFit, OrderedInts, c
<1>4. CASE suffix = "" /\ ~decimal
  <2>1. c = <<"INT", "UINT", "LONG", "ULONG", "LONGLONG", "ULONGLONG">>
      BY <1>4 DEF Candidates
  <2>2. \A k \in OrderedInts : Spelled(k, suffix, decimal)
      BY <1>1, <1>2, <1>4 DEF Spelled, OrderedInts
  <2> HIDE DEF c
  <2>3. QED
      BY <1>1, <2>1, <2>2 DEF CandidatesFit, OrderedInts, c
<1>5. CASE suffix = "u"
  <2>1. c = <<"UINT", "ULONG", "ULONGLONG">>
      BY <1>5 DEF Candidates
  <2>2. \A k \in OrderedInts : Spelled(k, suffix, decimal) <=> k \in {"UINT", "ULONG", "ULONGLONG"}
      BY <1>1, <1>2, <1>5 DEF Spelled, OrderedInts
  <2> HIDE DEF c
  <2>3. QED
      BY <1>1, <2>1, <2>2 DEF CandidatesFit, OrderedInts, c
<1>6. CASE suffix = "l" /\ decimal
  <2>1. c = <<"LONG", "LONGLONG">>
      BY <1>6 DEF Candidates
  <2>2. \A k \in OrderedInts : Spelled(k, suffix, decimal) <=> k \in {"LONG", "LONGLONG"}
      BY <1>1, <1>2, <1>6 DEF Spelled, OrderedInts
  <2> HIDE DEF c
  <2>3. QED
      BY <1>1, <2>1, <2>2 DEF CandidatesFit, OrderedInts, c
<1>7. CASE suffix = "l" /\ ~decimal
  <2>1. c = <<"LONG", "ULONG", "LONGLONG", "ULONGLONG">>
      BY <1>7 DEF Candidates
  <2>2. \A k \in OrderedInts : Spelled(k, suffix, decimal) <=> k \in {"LONG", "ULONG", "LONGLONG", "ULONGLONG"}
      BY <1>1, <1>2, <1>7 DEF Spelled, OrderedInts
  <2> HIDE DEF c
  <2>3. QED
      BY <1>1, <2>1, <2>2 DEF CandidatesFit, OrderedInts, c
<1>8. CASE suffix = "ul"
  <2>1. c = <<"ULONG", "ULONGLONG">>
      BY <1>8 DEF Candidates
  <2>2. \A k \in OrderedInts : Spelled(k, suffix, decimal) <=> k \in {"ULONG", "ULONGLONG"}
      BY <1>1, <1>2, <1>8 DEF Spelled, OrderedInts
  <2> HIDE DEF c
  <2>3. QED
      BY <1>1, <2>1, <2>2 DEF CandidatesFit, OrderedInts, c
<1>9. CASE suffix = "ll" /\ decimal
  <2>1. c = <<"LONGLONG">>
      BY <1>9 DEF Candidates
  <2>2. \A k \in OrderedInts : Spelled(k, suffix, decimal) <=> k = "LONGLONG"
      BY <1>1, <1>2, <1>9 DEF Spelled, OrderedInts
  <2> HIDE DEF c
  <2>3. QED
      BY <1>1, <2>1, <2>2 DEF CandidatesFit, OrderedInts, c
<1>10. CASE suffix = "ll" /\ ~decimal
  <2>1. c = <<"LONGLONG", "ULONGLONG">>
      BY <1>10 DEF Candidates
  <2>2. \A k \in OrderedInts : Spelled(k, suffix, decimal) <=> k \in {"LONGLONG", "ULONGLONG"}
      BY <1>1, <1>2, <1>10 DEF Spelled, OrderedInts
  <2> HIDE DEF c
  <2>3. QED
      BY <1>1, <2>1, <2>2 DEF CandidatesFit, OrderedInts, c
<1>11. CASE suffix = "ull"
  <2>1. c = <<"ULONGLONG">>
      BY <1>11 DEF Candidates
  <2>2. \A k \in OrderedInts : Spelled(k, suffix, decimal) <=> k = "ULONGLONG"
      BY <1>1, <1>2, <1>11 DEF Spelled, OrderedInts
  <2> HIDE DEF c
  <2>3. QED
      BY <1>1, <2>1, <2>2 DEF CandidatesFit, OrderedInts, c
<1>12. QED
    BY <1>3, <1>4, <1>5, <1>6, <1>7, <1>8, <1>9, <1>10, <1>11 DEF Suffixes

\* What the code compares a literal with is the greatest value of the type, or
\* one no literal exceeds.
LEMMA MaximumDecides ==
  ASSUME Target, NEW k \in OrderedInts, NEW v \in Nat, v < 2 ^ (target.sizeofLonglong - 1)
  PROVE  v <= Maximum(k) <=> v \in C!Values(k)
<1> DEFINE w  == Width(k)
           ll == target.sizeofLonglong
<1>1. /\ k \in Integral /\ (k \in Signed <=> k \notin Unsigned)
      /\ w \in Nat /\ w >= 1 /\ ll \in Nat /\ w <= ll
  <2>1. k \in Integral /\ (k \in Signed <=> k \notin Unsigned) /\ Rank(k) \in 3 .. 5
      BY OrderedFacts
  <2>2. "LONGLONG" \in OrderedInts /\ Rank("LONGLONG") = 5 /\ Width("LONGLONG") = ll
      BY Widths DEF OrderedInts, Rank
  <2>3. w <= Width("LONGLONG")
      BY <2>1, <2>2, WidthsByRank
  <2>4. QED
      BY <2>1, <2>2, <2>3, WidthType, Widths
<1>2. C!Values(k) = Low(k) .. High(k) /\ Low(k) \in Int /\ High(k) \in Nat /\ Low(k) <= 0
    BY <1>1, ValuesAre
<1>3. v \in C!Values(k) <=> v <= High(k)
    BY <1>2
<1>4. /\ 2 ^ (ll - 1) \in Nat /\ 2 ^ w \in Nat /\ 2 ^ (w - 1) \in Nat
      /\ ll - 1 \in Nat /\ w - 1 \in Nat
    BY <1>1, PowerType
<1>5. CASE w = ll
  <2>1. Maximum(k) = 2 ^ (ll - 1) - 1
      BY <1>1, <1>5 DEF Maximum
  <2>2. 2 ^ (ll - 1) <= 2 ^ w
      BY <1>1, <1>4, <1>5, PowersOrdered
  <2>3. High(k) = 2 ^ (ll - 1) - 1 \/ High(k) = 2 ^ w - 1
      BY <1>5 DEF High
  <2> HIDE DEF w, ll
  <2>4. v <= Maximum(k) /\ v <= High(k)
      BY <1>4, <2>1, <2>2, <2>3 DEF ll
  <2>5. QED
      BY <1>3, <2>4
<1>6. CASE w # ll
  <2>1. ~(w >= ll)
      BY <1>1, <1>6
  <2>2. Maximum(k) = 2 ^ (w - (IF k \in Unsigned THEN 0 ELSE 1)) - 1
      BY <2>1 DEF Maximum
  <2>3. CASE k \in Signed
    <3>1. Maximum(k) = 2 ^ (w - 1) - 1
        BY <1>1, <2>2, <2>3
    <3>2. QED
        BY <1>3, <2>3, <3>1 DEF High
  <2>4. CASE k \notin Signed
    <3>1. w - 0 = w
        BY <1>1
    <3>2. Maximum(k) = 2 ^ w - 1
        BY <1>1, <2>2, <2>4, <3>1
    <3>3. QED
        BY <1>3, <2>4, <3>2 DEF High
  <2>5. QED
      BY <2>3, <2>4
<1>7. QED
    BY <1>5, <1>6

LEMMA LiteralAgrees ==
  ASSUME Target, NEW v \in Nat, v < 2 ^ (target.sizeofLonglong - 1),
         NEW suffix \in Suffixes, NEW decimal \in BOOLEAN
  PROVE  /\ IntegerLiteralType(v, suffix, decimal) = C!LiteralType(v, decimal, suffix)
         /\ IntegerLiteralType(v, suffix, decimal) \in OrderedInts
         /\ v \in C!Values(IntegerLiteralType(v, suffix, decimal))
<1> DEFINE c  == Candidates(suffix, decimal)
           is == {i \in DOMAIN c : v <= Maximum(c[i])}
           m  == CHOOSE i \in is : \A j \in is : i <= j
           k  == c[m]
<1>1. IntegerLiteralType(v, suffix, decimal) = k
    BY DEF IntegerLiteralType
<1>2. CandidatesFit(c, suffix, decimal)
    BY CandidatesAre
<1>3. \A j \in OrderedInts : v <= Maximum(j) <=> v \in C!Values(j)
    BY MaximumDecides
<1>4. is # {}
  <2>1. \E j \in {"LONGLONG", "ULONGLONG"} : Spelled(j, suffix, decimal)
    <3>1. /\ At("LONGLONG") = 5 /\ At("ULONGLONG") = 6
          /\ "LONGLONG" \notin C!Unsigned /\ "ULONGLONG" \in C!Unsigned
        BY DEF At, C!Unsigned
    <3>2. CASE suffix \in {"u", "ul", "ull"}
      <4>1. Spelled("ULONGLONG", suffix, decimal)
          BY <3>1, <3>2 DEF Spelled
      <4>2. QED
          BY <4>1
    <3>3. CASE suffix \notin {"u", "ul", "ull"}
      <4>1. Spelled("LONGLONG", suffix, decimal)
          BY <3>1, <3>3 DEF Spelled
      <4>2. QED
          BY <4>1
    <3>4. QED
        BY <3>2, <3>3
  <2>2. PICK j \in {"LONGLONG", "ULONGLONG"} : Spelled(j, suffix, decimal)
      BY <2>1
  <2>3. j \in OrderedInts
      BY DEF OrderedInts
  <2>4. v <= Maximum(j)
    <3>1. Width(j) = target.sizeofLonglong /\ target.sizeofLonglong \in Nat
          /\ target.sizeofLonglong >= 1
      <4>1. Width(j) = target.sizeofLonglong
          BY Widths
      <4>2. j \in Integral
          BY DEF Integral, Signed, Unsigned
      <4>3. QED
          BY <4>1, <4>2, WidthType
    <3>2. Maximum(j) = 2 ^ (target.sizeofLonglong - 1) - 1
        BY <3>1 DEF Maximum
    <3>3. 2 ^ (target.sizeofLonglong - 1) \in Nat
        BY <3>1, PowerType
    <3>4. QED
        BY <3>2, <3>3
  <2>5. PICK i \in DOMAIN c : c[i] = j
      BY <1>2, <2>2, <2>3 DEF CandidatesFit
  <2>6. QED
      BY <2>4, <2>5
<1> HIDE DEF c
<1>5. m \in is /\ \A j \in is : m <= j
  <2>1. is \in SUBSET Nat
      BY <1>2 DEF CandidatesFit
  <2>2. \E i \in is : \A j \in is : i <= j
    <3> HIDE DEF is
    <3>1. QED
        BY <1>4, <2>1, LeastOf
  <2>3. QED
      BY <2>2, Zenon
<1> HIDE DEF m
<1>6. k \in OrderedInts /\ Spelled(k, suffix, decimal) /\ v \in C!Values(k)
    BY <1>2, <1>3, <1>5 DEF CandidatesFit
<1>7. \A j \in OrderedInts : At(j) < At(k) /\ Spelled(j, suffix, decimal) => v \notin C!Values(j)
  <2> SUFFICES ASSUME NEW j \in OrderedInts, At(j) < At(k), Spelled(j, suffix, decimal),
                      v \in C!Values(j)
               PROVE  FALSE
      OBVIOUS
  <2>1. PICK i \in DOMAIN c : c[i] = j
      BY <1>2 DEF CandidatesFit
  <2>2. i \in is
      BY <1>3, <2>1
  <2>3. m <= i /\ m \in DOMAIN c
      BY <1>5, <2>2
  <2>4. At(k) <= At(j)
      BY <1>2, <2>1, <2>3 DEF CandidatesFit
  <2>5. At(k) \in 1 .. 9 /\ At(j) \in 1 .. 9
      BY <1>6, Places DEF OrderedInts, Ordered
  <2>6. QED
      BY <2>4, <2>5
<1> HIDE DEF k, is
<1> DEFINE Allowed(j) == /\ j \notin C!Floating
                         /\ Spelled(j, suffix, decimal)
                         /\ v \in C!Values(j)
           places == {i \in DOMAIN C!Order : Allowed(C!Order[i])}
<1>8. C!LiteralType(v, decimal, suffix) = C!Order[C!Min(places)]
  <2>1. C!Position("LONG") = 3 /\ C!Position("LONGLONG") = 5
      BY Places DEF Ordered, At
  <2>2. \A i \in DOMAIN C!Order : C!Position(C!Order[i]) = At(C!Order[i])
      BY Places, OrderIs
  <2>3. QED
      BY <2>1, <2>2 DEF C!LiteralType, C!First, Spelled
<1>9. /\ k \in Ordered /\ At(k) \in 1 .. 9 /\ C!Order[At(k)] = k /\ k \notin C!Floating
  <2>1. k \in Ordered /\ k \notin C!Floating
      BY <1>6 DEF OrderedInts, Ordered, C!Floating
  <2>2. QED
      BY <2>1, Places
<1>10. At(k) \in places /\ \A i \in places : i \in 1 .. 9 /\ At(k) <= i
  <2>1. At(k) \in places
      BY <1>6, <1>9, OrderIs
  <2>2. ASSUME NEW i \in places PROVE i \in 1 .. 9 /\ At(k) <= i
    <3>1. i \in 1 .. 9 /\ C!Order[i] \in Ordered /\ At(C!Order[i]) = i
        BY Places, OrderIs
    <3>2. C!Order[i] \in OrderedInts
        BY <3>1 DEF Ordered, OrderedInts, C!Floating
    <3>3. ~(i < At(k))
        BY <1>7, <3>1, <3>2
    <3>4. QED
        BY <1>9, <3>1, <3>3
  <2>3. QED
      BY <2>1, <2>2
<1> HIDE DEF places
<1>11. C!Min(places) = At(k)
  <2>1. \A i \in places : (\A j \in places : i <= j) => i = At(k)
      BY <1>9, <1>10
  <2>2. QED
      BY <1>10, <2>1 DEF C!Min
<1>12. QED
    BY <1>1, <1>6, <1>8, <1>9, <1>11

-----------------------------------------------------------------------------
\* Values.  The bits of a value are congruent to it.
Congruent(a, b, m) == \E q \in Int : a = b + q * m

LEMMA Remainder ==
  ASSUME NEW n \in Int, NEW m \in Nat, m > 0
  PROVE  n % m \in 0 .. m - 1 /\ Congruent(n % m, n, m)
<1> DEFINE S == {r \in Nat : \E q \in Int : r = n + q * m}
<1>1. \E r \in S : TRUE
  <2>1. CASE n >= 0
    <3>1. n \in Nat /\ n = n + 0 * m
        BY <2>1
    <3>2. QED
        BY <3>1
  <2>2. CASE n < 0
    <3>1. n * m <= n /\ n * m \in Int
      <4>1. m >= 1 /\ -n \in Nat
          BY <2>2
      <4>2. (-n) * m >= -n
          BY <4>1
      <4>3. QED
          BY <4>2
    <3>2. n + (-n) * m \in Nat
      <4>1. n + (-n) * m = n - n * m
          OBVIOUS
      <4>2. QED
          BY <3>1, <4>1
    <3>3. -n \in Int
        OBVIOUS
    <3>4. QED
        BY <3>2, <3>3
  <2>3. QED
      BY <2>1, <2>2
<1>2. PICK r \in S : \A j \in S : r <= j
  <2>1. S \in SUBSET Nat
      OBVIOUS
  <2> HIDE DEF S
  <2>2. QED
      BY <1>1, <2>1, LeastOf
<1>3. PICK q \in Int : r = n + q * m
    OBVIOUS
<1>4. r \in Nat /\ r < m
  <2>1. SUFFICES ASSUME r >= m PROVE FALSE
      OBVIOUS
  <2>2. r - m \in Nat /\ ~(r <= r - m)
      BY <2>1
  <2>3. r - m = n + (q - 1) * m
      BY <1>3
  <2>4. r - m \in S
      BY <2>2, <2>3
  <2>5. QED
      BY <1>2, <2>2, <2>4
<1>5. n = (-q) * m + r
    BY <1>3
<1> HIDE DEF S
<1>6. ((-q) * m + r) % m = r
    BY <1>4
<1>7. n % m = r
    BY <1>5, <1>6
<1>8. QED
    BY <1>3, <1>4, <1>7 DEF Congruent

LEMMA CongruentIsSymmetric ==
  ASSUME NEW a \in Int, NEW b \in Int, NEW m \in Int, Congruent(a, b, m)
  PROVE  Congruent(b, a, m)
<1>1. PICK q \in Int : a = b + q * m
    BY DEF Congruent
<1>2. b = a + (-q) * m /\ -q \in Int
    BY <1>1
<1>3. QED
    BY <1>2 DEF Congruent

LEMMA CongruentIsTransitive ==
  ASSUME NEW a \in Int, NEW b \in Int, NEW c \in Int, NEW m \in Int,
         Congruent(a, b, m), Congruent(b, c, m)
  PROVE  Congruent(a, c, m)
<1>1. PICK q \in Int : a = b + q * m
    BY DEF Congruent
<1>2. PICK p \in Int : b = c + p * m
    BY DEF Congruent
<1>3. a = c + (p + q) * m /\ p + q \in Int
    BY <1>1, <1>2
<1>4. QED
    BY <1>3 DEF Congruent

\* Sums, differences and products of congruent numbers are congruent.
LEMMA CongruentResults ==
  ASSUME NEW a \in Int, NEW b \in Int, NEW x \in Int, NEW y \in Int, NEW m \in Int,
         Congruent(x, a, m), Congruent(y, b, m)
  PROVE  /\ Congruent(x + y, a + b, m)
         /\ Congruent(x - y, a - b, m)
         /\ Congruent(x * y, a * b, m)
<1>1. PICK p \in Int : x = a + p * m
    BY DEF Congruent
<1>2. PICK q \in Int : y = b + q * m
    BY DEF Congruent
<1>3. x + y = (a + b) + (p + q) * m /\ p + q \in Int
    BY <1>1, <1>2
<1>4. x - y = (a - b) + (p - q) * m /\ p - q \in Int
    BY <1>1, <1>2
<1>5. x * y = a * b + (a * q + p * y) * m /\ a * q + p * y \in Int
  <2>1. x * y = a * y + (p * m) * y
      BY <1>1
  <2>2. a * y = a * b + a * (q * m)
      BY <1>2
  <2>3. a * (q * m) = (a * q) * m /\ (p * m) * y = (p * y) * m
      OBVIOUS
  <2>4. (a * q) * m + (p * y) * m = (a * q + p * y) * m
      OBVIOUS
  <2>5. QED
      BY <2>1, <2>2, <2>3, <2>4
<1>6. QED
    BY <1>3, <1>4, <1>5 DEF Congruent

\* Congruent numbers less than the modulus apart are equal.
LEMMA CloseIsEqual ==
  ASSUME NEW a \in Int, NEW b \in Int, NEW m \in Nat, Congruent(a, b, m),
         a - b < m, b - a < m
  PROVE  a = b
<1>1. PICK q \in Int : a = b + q * m
    BY DEF Congruent
<1>2. q * m < m /\ -(q * m) < m
    BY <1>1
<1>3. ~(q >= 1)
  <2>1. q >= 1 => q * m >= m
      OBVIOUS
  <2>2. QED
      BY <1>2, <2>1
<1>4. ~(q <= -1)
  <2>1. q <= -1 => (-q) * m >= m
      OBVIOUS
  <2>2. (-q) * m = -(q * m)
      OBVIOUS
  <2>3. QED
      BY <1>2, <2>1, <2>2
<1>5. q = 0
    BY <1>3, <1>4
<1>6. QED
    BY <1>1, <1>5

LEMMA CongruentByDivisor ==
  ASSUME NEW a \in Int, NEW b \in Int, NEW v \in Nat, NEW w \in Nat, v <= w,
         Congruent(a, b, 2 ^ w)
  PROVE  Congruent(a, b, 2 ^ v)
<1>1. PICK q \in Int : a = b + q * 2 ^ w
    BY DEF Congruent
<1>2. PICK d \in Nat : v + d = w
  <2>1. w - v \in Nat /\ v + (w - v) = w
      OBVIOUS
  <2>2. QED
      BY <2>1
<1>3. PICK p \in Nat : 2 ^ w = p * 2 ^ v
  <2>1. \E p \in Nat : 2 ^ (v + d) = p * 2 ^ v
      BY PowerDivides
  <2>2. QED
      BY <1>2, <2>1
<1> DEFINE m == 2 ^ v
<1>4. m \in Int
    BY PowerType
<1>5. a = b + q * (p * m)
    BY <1>1, <1>3
<1> HIDE DEF m
<1>6. q * (p * m) = (q * p) * m /\ q * p \in Int
    BY <1>4
<1>7. a = b + (q * p) * m
    BY <1>5, <1>6
<1>8. QED
    BY <1>6, <1>7 DEF Congruent, m

\* The patterns of a type, and the value one stands for.
Bits(k)       == 0 .. 2 ^ Width(k) - 1
Decoded(b, k) == IF k \in Signed THEN AsSigned(b, Width(k)) ELSE b

LEMMA Halves ==
  ASSUME Target, NEW k \in Integral
  PROVE  /\ 2 ^ Width(k) \in Nat /\ 2 ^ (Width(k) - 1) \in Nat /\ 2 ^ (Width(k) - 1) > 0
         /\ 2 ^ Width(k) = 2 * 2 ^ (Width(k) - 1)
<1>1. Width(k) \in Nat /\ Width(k) - 1 \in Nat /\ (Width(k) - 1) + 1 = Width(k)
    BY WidthType
<1>2. 2 ^ ((Width(k) - 1) + 1) = 2 * 2 ^ (Width(k) - 1)
    BY <1>1, PowerDoubles
<1>3. QED
    BY <1>1, <1>2, PowerType

LEMMA BoolBits ==
  ASSUME Target
  PROVE  /\ Bits("BOOL") = {0, 1} /\ "BOOL" \notin Signed
         /\ \A b : Decoded(b, "BOOL") = b
<1>1. Width("BOOL") = 1 /\ "BOOL" \notin Signed
    BY Widths DEF Signed
<1>2. 2 ^ 1 - 1 = 1
    OBVIOUS
<1>3. Bits("BOOL") = 0 .. 2 ^ 1 - 1
    BY <1>1, Zenon DEF Bits
<1>4. 0 .. 2 ^ 1 - 1 = 0 .. 1
    BY <1>2
<1>5. 0 .. 1 = {0, 1}
    OBVIOUS
<1>6. QED
    BY <1>1, <1>3, <1>4, <1>5, Zenon DEF Decoded

LEMMA DecodedFacts ==
  ASSUME Target, NEW k \in Integral, NEW b \in Bits(k)
  PROVE  /\ b \in Nat
         /\ Decoded(b, k) \in Int /\ Decoded(b, k) \in C!Values(k)
         /\ Congruent(Decoded(b, k), b, 2 ^ Width(k))
         /\ Decoded(b, k) = 0 <=> b = 0
<1> DEFINE M == 2 ^ Width(k)
           H == 2 ^ (Width(k) - 1)
<1>1. M \in Nat /\ H \in Nat /\ H > 0 /\ M = 2 * H
    BY Halves
<1>2. /\ C!Values(k) = Low(k) .. High(k)
      /\ Low(k) = (IF k \in Signed THEN -H ELSE 0)
      /\ High(k) = (IF k \in Signed THEN H - 1 ELSE M - 1)
      /\ Low(k) \in Int /\ High(k) \in Nat
    BY ValuesAre DEF Low, High
<1>3. b \in 0 .. M - 1
    BY DEF Bits
<1>4. Decoded(b, k) = IF k \in Signed /\ b >= H THEN b - M ELSE b
    BY DEF Decoded, AsSigned
<1> HIDE DEF M, H
<1>5. b \in Nat /\ Decoded(b, k) \in Int
    BY <1>1, <1>3, <1>4
<1>6. Low(k) <= Decoded(b, k) /\ Decoded(b, k) <= High(k)
    BY <1>1, <1>2, <1>3, <1>4
<1>7. \E q \in Int : Decoded(b, k) = b + q * M
  <2>1. b = b + 0 * M /\ b - M = b + (-1) * M
      BY <1>1, <1>5
  <2>2. QED
      BY <1>4, <2>1
<1>8. Decoded(b, k) = 0 <=> b = 0
    BY <1>1, <1>3, <1>4
<1>9. QED
    BY <1>2, <1>5, <1>6, <1>7, <1>8 DEF Congruent, M

\* A type has one value of each class.
LEMMA OneValue ==
  ASSUME Target, NEW k \in Integral, NEW a \in C!Values(k), NEW b \in C!Values(k),
         Congruent(a, b, 2 ^ Width(k))
  PROVE  a = b
<1> DEFINE M == 2 ^ Width(k)
           H == 2 ^ (Width(k) - 1)
<1>1. M \in Nat /\ H \in Nat /\ H > 0 /\ M = 2 * H
    BY Halves
<1>2. /\ C!Values(k) = Low(k) .. High(k)
      /\ Low(k) = (IF k \in Signed THEN -H ELSE 0)
      /\ High(k) = (IF k \in Signed THEN H - 1 ELSE M - 1)
      /\ Low(k) \in Int /\ High(k) \in Nat
    BY ValuesAre DEF Low, High
<1> HIDE DEF M, H
<1>3. a \in Int /\ b \in Int /\ a - b < M /\ b - a < M
    BY <1>1, <1>2
<1>4. Congruent(a, b, M)
    BY DEF M
<1>5. QED
    BY <1>1, <1>3, <1>4, CloseIsEqual

LEMMA RepresentativeIs ==
  ASSUME Target, NEW k \in Integral, NEW n \in Int, NEW a \in C!Values(k),
         Congruent(a, n, 2 ^ Width(k))
  PROVE  C!Representative(n, k) = a
<1> DEFINE M == 2 ^ Width(k)
<1>1. M \in Nat /\ M > 0
    BY WidthType, PowerType
<1>2. C!Values(k) \subseteq Int
    BY ValuesAre
<1>3. C!Representative(n, k) = CHOOSE b \in C!Values(k) : (b - n) % M = 0
  <2>1. [j \in Integral |-> Width(j)][k] = Width(k)
      OBVIOUS
  <2>2. QED
      BY <2>1 DEF C!Representative
<1>4. Congruent(a, n, M)
    OBVIOUS
<1> HIDE DEF M
<1>5. (a - n) % M = 0
  <2>1. PICK q \in Int : a = n + q * M
      BY <1>4 DEF Congruent
  <2>2. a - n = q * M + 0
      BY <1>1, <1>2, <2>1
  <2>3. (q * M + 0) % M = 0
      BY <1>1
  <2>4. QED
      BY <2>2, <2>3
<1>6. ASSUME NEW b \in C!Values(k), (b - n) % M = 0 PROVE b = a
  <2>1. b \in Int /\ a \in Int /\ b - n \in Int
      BY <1>2
  <2>2. Congruent((b - n) % M, b - n, M)
      BY <1>1, <2>1, Remainder
  <2>3. PICK q \in Int : 0 = (b - n) + q * M
      BY <1>6, <2>2 DEF Congruent
  <2>4. b = n + (-q) * M /\ -q \in Int
      BY <1>1, <2>1, <2>3
  <2>5. Congruent(b, n, M) /\ Congruent(n, a, M)
    <3>1. Congruent(b, n, M)
        BY <2>4 DEF Congruent
    <3>2. M \in Int
        BY <1>1
    <3>3. Congruent(n, a, M)
        BY <1>4, <2>1, <3>2, CongruentIsSymmetric
    <3>4. QED
        BY <3>1, <3>3
  <2>6. Congruent(b, a, M)
      BY <1>1, <2>1, <2>5, CongruentIsTransitive
  <2>7. QED
      BY <2>6, OneValue DEF M
<1> DEFINE c == CHOOSE b \in C!Values(k) : (b - n) % M = 0
<1>7. c \in C!Values(k) /\ (c - n) % M = 0
    BY <1>5, Zenon
<1> HIDE DEF c
<1>8. c = a
    BY <1>6, <1>7
<1>9. QED
    BY <1>3, <1>8 DEF c

\* A number brought to a type, by the bits it is congruent to.
Brought(n, k) == IF k = "BOOL" THEN IF n = 0 THEN 0 ELSE 1
                 ELSE IF n \in C!Values(k) THEN n ELSE C!Representative(n, k)

LEMMA BroughtIsDecoded ==
  ASSUME Target, NEW k \in Integral, NEW n \in Int, NEW b \in Bits(k),
         Congruent(b, n, 2 ^ Width(k))
  PROVE  Decoded(b, k) = IF n \in C!Values(k) THEN n ELSE C!Representative(n, k)
<1> DEFINE M == 2 ^ Width(k)
           d == Decoded(b, k)
<1>1. /\ b \in Int /\ d \in Int /\ d \in C!Values(k) /\ Congruent(d, b, M)
    BY DecodedFacts
<1>2. M \in Int
    BY Halves
<1> HIDE DEF d
<1>3. Congruent(d, n, M)
  <2> HIDE DEF M
  <2>1. Congruent(b, n, M)
      BY DEF M
  <2>2. QED
      BY <1>1, <1>2, <2>1, CongruentIsTransitive
<1>4. n \in C!Values(k) => d = n
    BY <1>1, <1>3, OneValue
<1>5. C!Representative(n, k) = d
    BY <1>1, <1>3, RepresentativeIs
<1>6. QED
    BY <1>4, <1>5 DEF d

\* A cast brings the value to the other type.
LEMMA CastIsConversion ==
  ASSUME Target, NEW from \in Integral, NEW to \in Integral, NEW b \in Bits(from)
  PROVE  /\ ImplicitCast(b, from, to) \in Bits(to)
         /\ Decoded(ImplicitCast(b, from, to), to) = Brought(Decoded(b, from), to)
<1> DEFINE n == Decoded(b, from)
           v == Width(from)
           w == Width(to)
           y == ImplicitCast(b, from, to)
<1>1. /\ b \in Nat /\ n \in Int /\ n \in C!Values(from) /\ Congruent(n, b, 2 ^ v) /\ (n = 0 <=> b = 0)
    BY DecodedFacts
<1>2. v \in Nat /\ w \in Nat
    BY WidthType
<1>3. 2 ^ v \in Nat /\ 2 ^ w \in Nat /\ 2 ^ w > 0
    BY <1>2, PowerType
<1>4. ~(b < 0) /\ {from, to} \subseteq Integral
    BY <1>1
<1>5. CASE from = to
  <2>1. y = b
      BY <1>5 DEF ImplicitCast
  <2>2. Brought(n, to) = n
    <3>1. CASE to = "BOOL"
      <4>1. n = b /\ b \in {0, 1}
          BY <1>5, <3>1, BoolBits
      <4> HIDE DEF n
      <4>2. QED
          BY <3>1, <4>1 DEF Brought
    <3>2. CASE to # "BOOL"
        BY <1>1, <1>5, <3>2 DEF Brought
    <3>3. QED
        BY <3>1, <3>2
  <2>3. Decoded(b, to) = n
      BY <1>5
  <2>4. y \in Bits(to) /\ Decoded(y, to) = Brought(n, to)
    <3> HIDE DEF y, n
    <3>1. QED
        BY <1>5, <2>1, <2>2, <2>3
  <2>5. QED
      BY <2>4
<1>6. CASE from # to /\ to = "BOOL"
  <2>1. y = IF b = 0 THEN 0 ELSE 1
      BY <1>4, <1>6 DEF ImplicitCast
  <2> HIDE DEF y
  <2>2. y \in Bits(to) /\ Decoded(y, to) = y
      BY <1>6, <2>1, BoolBits
  <2>3. Brought(n, to) = y
      BY <1>1, <1>6, <2>1 DEF Brought
  <2>4. QED
      BY <2>2, <2>3 DEF y
<1>7. CASE from # to /\ to # "BOOL"
  <2>1. y = CASE v = w -> b
              [] v > w -> b % 2 ^ w
              [] v < w -> IF from \in Signed THEN AsSigned(b, v) % 2 ^ w ELSE b
      BY <1>4, <1>7 DEF ImplicitCast
  <2>2. y \in Bits(to) /\ Congruent(y, n, 2 ^ w)
    <3> HIDE DEF y, n
    <3>1. CASE v = w
      <4>1. y = b
        <5>1. ~(v > w) /\ ~(v < w)
            BY <1>2, <3>1
        <5>2. QED
            BY <2>1, <3>1, <5>1, Zenon
      <4>2. b \in 0 .. 2 ^ w - 1
          BY <3>1 DEF Bits
      <4>3. Congruent(b, n, 2 ^ w)
        <5>1. b \in Int /\ 2 ^ v \in Int
            BY <1>1, <1>3
        <5>2. Congruent(b, n, 2 ^ v)
            BY <1>1, <5>1, CongruentIsSymmetric
        <5>3. QED
            BY <3>1, <5>2
      <4>4. QED
          BY <4>1, <4>2, <4>3 DEF Bits
    <3>2. CASE v > w
      <4>1. y = b % 2 ^ w
          BY <1>2, <2>1, <3>2
      <4>2. b % 2 ^ w \in 0 .. 2 ^ w - 1 /\ Congruent(b % 2 ^ w, b, 2 ^ w)
        <5> DEFINE M == 2 ^ w
        <5>1. b \in Int /\ M \in Nat /\ M > 0
            BY <1>1, <1>3
        <5> HIDE DEF M
        <5>2. b % M \in 0 .. M - 1 /\ Congruent(b % M, b, M)
            BY <5>1, Remainder
        <5>3. QED
            BY <5>2 DEF M
      <4>3. Congruent(b, n, 2 ^ v)
        <5>1. b \in Int /\ 2 ^ v \in Int
            BY <1>1, <1>3
        <5>2. QED
            BY <1>1, <5>1, CongruentIsSymmetric
      <4>4. Congruent(b, n, 2 ^ w)
          BY <1>1, <1>2, <3>2, <4>3, CongruentByDivisor
      <4>5. b % 2 ^ w \in Int
          BY <1>3, <4>2
      <4>6. Congruent(b % 2 ^ w, n, 2 ^ w)
          BY <1>1, <1>3, <4>2, <4>4, <4>5, CongruentIsTransitive
      <4>7. QED
          BY <4>1, <4>2, <4>6 DEF Bits
    <3>3. CASE v < w /\ from \in Signed
      <4>1. y = n % 2 ^ w
        <5>1. v # w /\ ~(v > w)
            BY <1>2, <3>3
        <5>2. y = AsSigned(b, v) % 2 ^ w
            BY <2>1, <3>3, <5>1
        <5>3. QED
            BY <3>3, <5>2 DEF n, Decoded
      <4>2. n % 2 ^ w \in 0 .. 2 ^ w - 1 /\ Congruent(n % 2 ^ w, n, 2 ^ w)
          BY <1>1, <1>3, Remainder
      <4>3. QED
          BY <4>1, <4>2 DEF Bits
    <3>4. CASE v < w /\ from \notin Signed
      <4>1. y = b /\ n = b
          BY <1>2, <2>1, <3>4 DEF n, Decoded
      <4>2. b \in 0 .. 2 ^ v - 1 /\ 2 ^ v < 2 ^ w
          BY <1>2, <3>4, PowerGrows DEF Bits
      <4>3. b \in 0 .. 2 ^ w - 1
          BY <1>3, <4>2
      <4>4. b = b + 0 * 2 ^ w
          BY <1>1, <1>3
      <4>5. QED
          BY <4>1, <4>3, <4>4 DEF Bits, Congruent
    <3>5. QED
        BY <1>2, <3>1, <3>2, <3>3, <3>4
  <2> HIDE DEF n, y
  <2>3. Decoded(y, to) = IF n \in C!Values(to) THEN n ELSE C!Representative(n, to)
      BY <1>1, <2>2, BroughtIsDecoded
  <2>4. QED
      BY <1>7, <2>2, <2>3 DEF Brought, y, n
<1>8. QED
    BY <1>5, <1>6, <1>7

\* A conversion in C, told by the number.
LEMMA ConvertedIs ==
  ASSUME NEW x, NEW k \in ArithmeticKinds, x.known \in BOOLEAN
  PROVE  /\ C!Converted(x, k).kind = k /\ C!Converted(x, k).known \in BOOLEAN
         /\ C!Converted(x, k).known => /\ x.known /\ k \in Integral
                                       /\ C!Converted(x, k).number = Brought(x.number, k)
<1>1. k \in C!Floating <=> k \notin Integral
    BY DEF C!Floating, ArithmeticKinds, Integral, Signed, Unsigned, Floating
<1>2. CASE ~x.known \/ k \in C!Floating
  <2>1. C!Converted(x, k) = C!Unknown(k)
      BY <1>2 DEF C!Converted
  <2>2. QED
      BY <2>1 DEF C!Unknown
<1>3. CASE x.known /\ k \notin C!Floating
  <2>1. C!Converted(x, k) = C!Value(k, Brought(x.number, k))
    <3>1. CASE k = "BOOL"
        BY <1>3, <3>1 DEF C!Converted, Brought
    <3>2. CASE k # "BOOL"
        BY <1>3, <3>2 DEF C!Converted, Brought
    <3>3. QED
        BY <3>1, <3>2
  <2>2. QED
      BY <1>1, <1>3, <2>1 DEF C!Value
<1>4. QED
    BY <1>2, <1>3

-----------------------------------------------------------------------------
\* What a tree's bits say of the value C gives it: of integer type they are that
\* value's, where MLIRGen yields bits and C has a value.
Carries(bits, k, c) ==
  /\ bits \in Int /\ bits # Disagrees
  /\ c.kind = k /\ c.known \in BOOLEAN
  /\ bits >= 0 /\ k \in Integral => bits \in Bits(k)
  /\ bits >= 0 /\ c.known => k \in Integral /\ c.number = Decoded(bits, k)

LEMMA NoBitsCarry ==
  ASSUME NEW k, NEW c, c.kind = k, c.known \in BOOLEAN
  PROVE  Carries(Unsupported, k, c)
BY DEF Carries, Unsupported, Disagrees

LEMMA CastCarries ==
  ASSUME Target, NEW from \in ArithmeticKinds, NEW to \in ArithmeticKinds, NEW bits, NEW c,
         Carries(bits, from, c)
  PROVE  Carries(ImplicitCast(bits, from, to), to, C!Converted(c, to))
<1> DEFINE y == ImplicitCast(bits, from, to)
           d == C!Converted(c, to)
<1>1. /\ bits \in Int /\ bits # Disagrees /\ c.known \in BOOLEAN
      /\ bits >= 0 /\ from \in Integral => bits \in Bits(from)
      /\ bits >= 0 /\ c.known => from \in Integral /\ c.number = Decoded(bits, from)
    BY DEF Carries
<1>2. /\ d.kind = to /\ d.known \in BOOLEAN
      /\ d.known => c.known /\ to \in Integral /\ d.number = Brought(c.number, to)
    BY <1>1, ConvertedIs
<1>3. CASE bits < 0
  <2>1. y = bits /\ ~(bits >= 0)
      BY <1>1, <1>3 DEF ImplicitCast
  <2> HIDE DEF y, d
  <2>2. QED
      BY <1>1, <1>2, <2>1 DEF Carries, y, d
<1>4. CASE bits >= 0 /\ {from, to} \subseteq Integral
  <2>1. from \in Integral /\ to \in Integral /\ bits \in Bits(from)
      BY <1>1, <1>4
  <2>2. y \in Bits(to) /\ Decoded(y, to) = Brought(Decoded(bits, from), to)
      BY <2>1, CastIsConversion
  <2>3. y \in Nat
      BY <2>1, <2>2, DecodedFacts
  <2>4. y # Disagrees
    <3> HIDE DEF y
    <3>1. QED
        BY <2>3 DEF Disagrees
  <2> HIDE DEF y, d
  <2>5. d.known => d.number = Decoded(y, to)
      BY <1>1, <1>2, <1>4, <2>2
  <2>6. QED
      BY <1>2, <2>1, <2>2, <2>3, <2>4, <2>5 DEF Carries, y, d
<1>5. CASE bits >= 0 /\ ~({from, to} \subseteq Integral) /\ from # to
  <2>1. y = Unsupported
      BY <1>1, <1>5 DEF ImplicitCast
  <2>2. QED
      BY <1>2, <2>1, NoBitsCarry
<1>6. CASE bits >= 0 /\ ~({from, to} \subseteq Integral) /\ from = to
  <2>1. y = bits /\ to \notin Integral
      BY <1>6 DEF ImplicitCast
  <2>2. ~d.known
      BY <1>2, <2>1
  <2> HIDE DEF y, d
  <2>3. QED
      BY <1>1, <1>2, <2>1, <2>2 DEF Carries, y, d
<1>7. QED
    BY <1>1, <1>3, <1>4, <1>5, <1>6

\* The operations on bits modulo the width are C's on the values they carry.
LEMMA CalculationCarries ==
  ASSUME Target, NEW k \in ArithmeticKinds, NEW op \in {"ADD", "SUB", "MUL"},
         NEW x, NEW y, NEW c, NEW d, C!CommonType(c.kind, d.kind) = k,
         Carries(x, k, C!Converted(c, k)), Carries(y, k, C!Converted(d, k))
  PROVE  Carries(EmitArithmetic(op, x, k, y, k, k), k, C!Calculated(op, c, d))
<1> DEFINE a == C!Converted(c, k)
           b == C!Converted(d, k)
           n == C!Exact(op, a.number, b.number)
           e == C!Calculated(op, c, d)
           r == EmitArithmetic(op, x, k, y, k, k)
<1>1. /\ x \in Int /\ x # Disagrees /\ a.known \in BOOLEAN
      /\ x >= 0 /\ k \in Integral => x \in Bits(k)
      /\ x >= 0 /\ a.known => k \in Integral /\ a.number = Decoded(x, k)
      /\ y \in Int /\ y # Disagrees /\ b.known \in BOOLEAN
      /\ y >= 0 /\ k \in Integral => y \in Bits(k)
      /\ y >= 0 /\ b.known => k \in Integral /\ b.number = Decoded(y, k)
    BY DEF Carries
<1>2. e = IF ~(a.known /\ b.known) THEN C!Unknown(k)
          ELSE IF n \in C!Values(k) THEN C!Value(k, n)
          ELSE IF k \in C!Unsigned THEN C!Value(k, C!Representative(n, k)) ELSE C!Unknown(k)
    BY DEF C!Calculated
<1>3. /\ e.kind = k /\ e.known \in BOOLEAN
      /\ e.known => /\ a.known /\ b.known
                    /\ e.number = IF n \in C!Values(k) THEN n ELSE C!Representative(n, k)
  <2> HIDE DEF a, b, n, e
  <2>1. CASE ~(a.known /\ b.known)
      BY <1>2, <2>1 DEF C!Unknown
  <2>2. CASE a.known /\ b.known /\ n \in C!Values(k)
      BY <1>2, <2>2 DEF C!Value
  <2>3. CASE a.known /\ b.known /\ n \notin C!Values(k)
      BY <1>2, <2>3 DEF C!Value, C!Unknown
  <2>4. QED
      BY <2>1, <2>2, <2>3
<1>4. CASE k \notin Integral \/ x < 0 \/ y < 0
  <2>1. r = Unsupported
      BY <1>4 DEF EmitArithmetic
  <2>2. QED
      BY <1>3, <2>1, NoBitsCarry
<1>5. CASE k \in Integral /\ ~(x < 0) /\ ~(y < 0)
  <2> DEFINE M == 2 ^ Width(k)
             s == CASE op = "ADD" -> x + y [] op = "SUB" -> x - y [] op = "MUL" -> x * y
             u == Decoded(x, k)
             v == Decoded(y, k)
             z == CASE op = "ADD" -> u + v [] op = "SUB" -> u - v [] op = "MUL" -> u * v
  <2>1. r = s % M
      BY <1>5 DEF EmitArithmetic
  <2>2. k \in Integral /\ x \in Bits(k) /\ y \in Bits(k) /\ x >= 0 /\ y >= 0
      BY <1>1, <1>5
  <2>3. M \in Nat /\ M > 0
      BY <2>2, Halves
  <2>4. u \in Int /\ v \in Int /\ Congruent(u, x, M) /\ Congruent(v, y, M)
      BY <2>2, DecodedFacts
  <2>5. /\ Congruent(x, u, M) /\ Congruent(y, v, M)
    <3> HIDE DEF M, u, v
    <3>1. x \in Int /\ y \in Int /\ M \in Int
        BY <1>1, <2>3
    <3>2. QED
        BY <2>4, <3>1, CongruentIsSymmetric
  <2>6. s \in Int /\ z \in Int /\ Congruent(s, z, M)
    <3> HIDE DEF M, u, v
    <3>1. x \in Int /\ y \in Int /\ M \in Int
        BY <1>1, <2>3
    <3>2. /\ Congruent(x + y, u + v, M)
          /\ Congruent(x - y, u - v, M)
          /\ Congruent(x * y, u * v, M)
        BY <2>4, <2>5, <3>1, CongruentResults
    <3>3. /\ x + y \in Int /\ x - y \in Int /\ x * y \in Int
          /\ u + v \in Int /\ u - v \in Int /\ u * v \in Int
        BY <2>4, <3>1
    <3>4. QED
        BY <3>2, <3>3
  <2>7. /\ s % M \in 0 .. M - 1
        /\ Congruent(s % M, z, M)
    <3> HIDE DEF M, s, z
    <3>1. s % M \in 0 .. M - 1 /\ Congruent(s % M, s, M)
        BY <2>3, <2>6, Remainder
    <3>2. s % M \in Int /\ M \in Int
        BY <2>3, <3>1
    <3>3. QED
        BY <2>6, <3>1, <3>2, CongruentIsTransitive
  <2>8. r \in Bits(k) /\ Congruent(r, z, M)
    <3> HIDE DEF r, s, z
    <3>1. QED
        BY <2>1, <2>7 DEF Bits
  <2>9. r \in Nat /\ Decoded(r, k) = IF z \in C!Values(k) THEN z ELSE C!Representative(z, k)
    <3> HIDE DEF r, z
    <3>1. QED
        BY <2>2, <2>6, <2>8, BroughtIsDecoded, DecodedFacts
  <2>10. e.known => n = z
    <3> HIDE DEF e, a, b, u, v
    <3>1. ASSUME e.known PROVE a.number = u /\ b.number = v
        BY <1>1, <1>3, <2>2, <3>1 DEF u, v
    <3>2. ASSUME a.number = u, b.number = v PROVE n = z
        BY <3>2 DEF C!Exact
    <3>3. QED
        BY <3>1, <3>2
  <2> HIDE DEF r, e, n, z
  <2>11. e.known => e.number = Decoded(r, k)
      BY <1>3, <2>9, <2>10
  <2>12. r # Disagrees
      BY <2>9 DEF Disagrees
  <2>13. QED
      BY <1>3, <2>2, <2>8, <2>9, <2>11, <2>12 DEF Carries, r, e
<1>6. QED
    BY <1>1, <1>4, <1>5

\* Bits are equal when their values are.
LEMMA DecodedOnce ==
  ASSUME Target, NEW k \in Integral, NEW x \in Bits(k), NEW y \in Bits(k)
  PROVE  Decoded(x, k) = Decoded(y, k) <=> x = y
<1> DEFINE M == 2 ^ Width(k)
<1>1. M \in Nat /\ M > 0
    BY Halves
<1>2. /\ x \in Nat /\ Decoded(x, k) \in Int /\ Congruent(Decoded(x, k), x, M)
      /\ y \in Nat /\ Decoded(y, k) \in Int /\ Congruent(Decoded(y, k), y, M)
    BY DecodedFacts
<1>3. x \in 0 .. M - 1 /\ y \in 0 .. M - 1
    BY DEF Bits
<1> HIDE DEF M
<1>4. x - y < M /\ y - x < M
    BY <1>1, <1>3
<1>5. ASSUME Decoded(x, k) = Decoded(y, k) PROVE x = y
  <2>1. Congruent(x, Decoded(x, k), M)
    <3>1. M \in Int /\ x \in Int
        BY <1>1, <1>2
    <3>2. QED
        BY <1>2, <3>1, CongruentIsSymmetric
  <2>2. Congruent(x, y, M)
    <3>1. M \in Int /\ x \in Int /\ y \in Int
        BY <1>1, <1>2
    <3>2. Congruent(Decoded(x, k), y, M)
        BY <1>2, <1>5
    <3>3. QED
        BY <1>2, <2>1, <3>1, <3>2, CongruentIsTransitive
  <2>3. QED
      BY <1>1, <1>2, <1>4, <2>2, CloseIsEqual
<1>6. QED
    BY <1>5

\* The truth values an int has.
LEMMA IntBits ==
  ASSUME Target
  PROVE  /\ "INT" \in Integral /\ 0 \in Bits("INT") /\ 1 \in Bits("INT")
         /\ Decoded(0, "INT") = 0 /\ Decoded(1, "INT") = 1
<1> DEFINE w == Width("INT")
           H == 2 ^ (w - 1)
           M == 2 ^ w
<1>1. "INT" \in Integral /\ "INT" \in Signed
    BY DEF Integral, Signed
<1>2. w \in Nat /\ w >= 2
    BY Widths
<1>3. M = 2 * H
    BY <1>1, Halves
<1>4. H >= 2
  <2>1. w - 1 \in Nat /\ 1 <= w - 1
      BY <1>2
  <2>2. 2 ^ 1 <= H
      BY <2>1, PowersOrdered
  <2>3. 2 ^ 1 = 2
      OBVIOUS
  <2>4. QED
      BY <2>2, <2>3
<1>5. H \in Nat
    BY <1>1, Halves
<1>6. Decoded(0, "INT") = IF 0 >= H THEN 0 - M ELSE 0
    BY <1>1 DEF Decoded, AsSigned
<1>7. Decoded(1, "INT") = IF 1 >= H THEN 1 - M ELSE 1
    BY <1>1 DEF Decoded, AsSigned
<1>8. Bits("INT") = 0 .. M - 1
    BY DEF Bits
<1> HIDE DEF H, M, w
<1>9. Decoded(0, "INT") = 0 /\ Decoded(1, "INT") = 1
    BY <1>4, <1>5, <1>6, <1>7
<1>10. 0 \in Bits("INT") /\ 1 \in Bits("INT")
    BY <1>3, <1>4, <1>5, <1>8
<1>11. QED
    BY <1>1, <1>9, <1>10

\* Predicates on bits, signed or not as the type says, are C's on the values.
LEMMA PredicateIsHolds ==
  ASSUME Target, NEW k \in Integral, NEW x \in Bits(k), NEW y \in Bits(k), NEW op \in Comparisons
  PROVE  Predicate(op, k \in Signed, Width(k), x, y) = C!Holds(op, Decoded(x, k), Decoded(y, k))
<1> DEFINE u == IF k \in Signed THEN AsSigned(x, Width(k)) ELSE x
           v == IF k \in Signed THEN AsSigned(y, Width(k)) ELSE y
<1>1. Predicate(op, k \in Signed, Width(k), x, y) =
        CASE op = "EQ" -> x = y   [] op = "NEQ" -> x # y
          [] op = "LT" -> u < v   [] op = "GT" -> u > v
          [] op = "LEQ" -> u <= v [] op = "GEQ" -> u >= v
    BY Zenon DEF Predicate
<1>2. u = Decoded(x, k) /\ v = Decoded(y, k)
    BY DEF Decoded
<1> HIDE DEF u, v
<1>3. u = v <=> x = y
    BY <1>2, DecodedOnce
<1>4. C!Holds(op, u, v) =
        CASE op = "EQ" -> u = v   [] op = "NEQ" -> u # v
          [] op = "LT" -> u < v   [] op = "GT" -> u > v
          [] op = "LEQ" -> u <= v [] op = "GEQ" -> u >= v
    BY Zenon DEF C!Holds
<1>5. (u = v) = (x = y) /\ (u # v) = (x # y)
    BY <1>3
<1>6. Predicate(op, k \in Signed, Width(k), x, y) = C!Holds(op, u, v)
    BY <1>1, <1>4, <1>5, Zenon DEF Comparisons
<1>7. QED
    BY <1>2, <1>6

LEMMA ComparisonCarries ==
  ASSUME Target, NEW k \in ArithmeticKinds, NEW op \in Comparisons,
         NEW x, NEW y, NEW c, NEW d, C!CommonType(c.kind, d.kind) = k,
         Carries(x, k, C!Converted(c, k)), Carries(y, k, C!Converted(d, k))
  PROVE  Carries(EmitComparison(op, x, k, y, k), "INT", C!Compared(op, c, d))
<1> DEFINE a == C!Converted(c, k)
           b == C!Converted(d, k)
           e == C!Compared(op, c, d)
           r == EmitComparison(op, x, k, y, k)
<1>1. /\ x \in Int /\ x # Disagrees /\ a.known \in BOOLEAN
      /\ x >= 0 /\ k \in Integral => x \in Bits(k)
      /\ x >= 0 /\ a.known => k \in Integral /\ a.number = Decoded(x, k)
      /\ y \in Int /\ y # Disagrees /\ b.known \in BOOLEAN
      /\ y >= 0 /\ k \in Integral => y \in Bits(k)
      /\ y >= 0 /\ b.known => k \in Integral /\ b.number = Decoded(y, k)
    BY DEF Carries
<1>2. e = IF ~(a.known /\ b.known) THEN C!Unknown("INT")
          ELSE C!Value("INT", IF C!Holds(op, a.number, b.number) THEN 1 ELSE 0)
    BY DEF C!Compared
<1>3. /\ e.kind = "INT" /\ e.known \in BOOLEAN
      /\ e.known => /\ a.known /\ b.known
                    /\ e.number = IF C!Holds(op, a.number, b.number) THEN 1 ELSE 0
  <2> HIDE DEF a, b, e
  <2>1. CASE ~(a.known /\ b.known)
      BY <1>2, <2>1 DEF C!Unknown
  <2>2. CASE a.known /\ b.known
      BY <1>2, <2>2 DEF C!Value
  <2>3. QED
      BY <2>1, <2>2
<1>4. CASE k \notin Integral \/ x < 0 \/ y < 0
  <2>1. r = Unsupported
      BY <1>4 DEF EmitComparison
  <2>2. QED
      BY <1>3, <2>1, NoBitsCarry
<1>5. CASE k \in Integral /\ ~(x < 0) /\ ~(y < 0)
  <2> DEFINE p == Predicate(op, k \in Signed, Width(k), x, y)
  <2>1. r = IF p THEN 1 ELSE 0
      BY <1>5 DEF EmitComparison
  <2>2. k \in Integral /\ x \in Bits(k) /\ y \in Bits(k) /\ x >= 0 /\ y >= 0
      BY <1>1, <1>5
  <2>3. p = C!Holds(op, Decoded(x, k), Decoded(y, k))
      BY <2>2, PredicateIsHolds
  <2> HIDE DEF p, r, e, a, b
  <2>4. r \in {0, 1}
      BY <2>1
  <2>5. e.known => e.number = r
      BY <1>1, <1>3, <2>1, <2>2, <2>3
  <2>6. r \in Bits("INT") /\ Decoded(r, "INT") = r /\ r \in Int /\ "INT" \in Integral
      BY <2>4, IntBits
  <2>7. r # Disagrees
      BY <2>4 DEF Disagrees
  <2>8. QED
      BY <1>3, <2>5, <2>6, <2>7 DEF Carries, r, e
<1>6. QED
    BY <1>1, <1>4, <1>5

\* Any value of a type, and the bits of a literal of it.
LEMMA ValueCarries ==
  ASSUME Target, NEW k \in Integral, NEW b \in Bits(k)
  PROVE  Carries(b, k, C!Value(k, IF k \in Signed THEN AsSigned(b, Width(k)) ELSE b))
<1> DEFINE c == C!Value(k, Decoded(b, k))
<1>1. b \in Nat
    BY DecodedFacts
<1>2. b # Disagrees
    BY <1>1 DEF Disagrees
<1>3. c.kind = k /\ c.known \in BOOLEAN /\ c.number = Decoded(b, k)
    BY DEF C!Value
<1>4. c = C!Value(k, IF k \in Signed THEN AsSigned(b, Width(k)) ELSE b)
    BY DEF Decoded
<1> HIDE DEF c
<1>5. Carries(b, k, c)
    BY <1>1, <1>2, <1>3 DEF Carries
<1>6. QED
    BY <1>4, <1>5

LEMMA LiteralCarries ==
  ASSUME Target, NEW k \in Integral, NEW v \in Nat, v \in C!Values(k)
  PROVE  Carries(v % 2 ^ Width(k), k, C!Value(k, v))
<1> DEFINE M == 2 ^ Width(k)
           b == v % M
           c == C!Value(k, v)
<1>1. M \in Nat /\ M > 0
    BY Halves
<1>2. b \in 0 .. M - 1 /\ Congruent(b, v, M)
  <2> HIDE DEF M
  <2>1. QED
      BY <1>1, Remainder
<1> HIDE DEF b
<1>3. b \in Bits(k) /\ b \in Nat
    BY <1>1, <1>2 DEF Bits
<1>4. Decoded(b, k) = v
  <2>1. v \in Int /\ Congruent(b, v, 2 ^ Width(k))
      BY <1>2
  <2>2. Decoded(b, k) = IF v \in C!Values(k) THEN v ELSE C!Representative(v, k)
      BY <1>3, <2>1, BroughtIsDecoded
  <2>3. QED
      BY <2>2
<1>5. c.kind = k /\ c.known \in BOOLEAN /\ c.number = v
    BY DEF C!Value
<1>6. b # Disagrees
    BY <1>3 DEF Disagrees
<1> HIDE DEF c
<1>7. Carries(b, k, c)
    BY <1>3, <1>4, <1>5, <1>6 DEF Carries
<1>8. QED
    BY <1>7 DEF b, c

-----------------------------------------------------------------------------
\* Operators: the types Sema gives a node and its operands, and whether it does.
LEMMA BinaryTypeIs ==
  ASSUME Target, NEW op \in BinaryOperators, NEW a \in ArithmeticKinds, NEW b \in ArithmeticKinds,
         NEW s, s = BinaryType(op, a, b)
  PROVE  /\ s.ok \in BOOLEAN /\ s.result \in ArithmeticKinds
         /\ s.left \in ArithmeticKinds /\ s.right \in ArithmeticKinds
         /\ s.ok <=> (op \in IntegralOnly \cup {"LSHIFT", "RSHIFT"}
                        => a \in Integral /\ b \in Integral)
         /\ op \in {"ADD", "SUB", "MUL", "DIV"} \cup IntegralOnly /\ s.ok
              => /\ s.left = UsualArithmetic(a, b) /\ s.right = s.left /\ s.result = s.left
         /\ op \in Comparisons
              => /\ s.left = UsualArithmetic(a, b) /\ s.right = s.left /\ s.result = "INT"
         /\ op \in {"AND", "OR"} => s.result = "INT"
         /\ op = "COMMA" => s.result = b
         /\ op \in {"LSHIFT", "RSHIFT"} /\ s.ok => s.result = Promoted(a)
<1> DEFINE k == UsualArithmetic(a, b)
<1>1. k \in ArithmeticKinds /\ "INT" \in ArithmeticKinds
    BY UsualIsCommon DEF ArithmeticKinds, Integral, Signed
<1>2. Promoted(a) \in ArithmeticKinds /\ Promoted(b) \in ArithmeticKinds
    BY PromotionAgrees
<1>3. \A r, x, y : /\ Typed(r, x, y).ok \in BOOLEAN /\ Typed(r, x, y).ok
                   /\ Typed(r, x, y).result = r /\ Typed(r, x, y).left = x /\ Typed(r, x, y).right = y
    BY DEF Typed
<1>4. /\ Rejected.ok \in BOOLEAN /\ ~Rejected.ok /\ Rejected.result = "INT"
      /\ Rejected.left = "INT" /\ Rejected.right = "INT"
    BY DEF Rejected
<1>5. Arithmetic(a, b) = Typed(k, k, k)
    BY DEF Arithmetic
<1> HIDE DEF k
<1>6. CASE op = "COMMA"
  <2>1. s = Typed(b, a, b)
      BY <1>6 DEF BinaryType, Comparisons, IntegralOnly
  <2>2. QED
      BY <1>3, <1>6, <2>1 DEF IntegralOnly, Comparisons
<1>7. CASE op \in {"AND", "OR"}
  <2>1. s = Typed("INT", a, b)
      BY <1>7 DEF BinaryType, Comparisons, IntegralOnly
  <2>2. QED
      BY <1>1, <1>3, <1>7, <2>1 DEF IntegralOnly, Comparisons
<1>8. CASE op \in Comparisons
  <2>1. s = [Typed(k, k, k) EXCEPT !.result = "INT"]
      BY <1>5, <1>8 DEF BinaryType, Comparisons, IntegralOnly
  <2>2. /\ s.ok = Typed(k, k, k).ok /\ s.result = "INT" /\ s.left = k /\ s.right = k
      BY <2>1 DEF Typed
  <2>3. QED
      BY <1>1, <1>3, <1>8, <2>2 DEF IntegralOnly, Comparisons, k
<1>9. CASE op \in {"ADD", "SUB"}
  <2>1. s = Typed(k, k, k)
      BY <1>5, <1>9 DEF BinaryType, Comparisons, IntegralOnly
  <2>2. QED
      BY <1>1, <1>3, <1>9, <2>1 DEF IntegralOnly, Comparisons, k
<1>10. CASE op \in {"LSHIFT", "RSHIFT"}
  <2>1. s = IF a \in Integral /\ b \in Integral
            THEN Typed(Promoted(a), Promoted(a), Promoted(b)) ELSE Rejected
      BY <1>10 DEF BinaryType, Comparisons, IntegralOnly
  <2>2. QED
      BY <1>1, <1>2, <1>3, <1>4, <1>10, <2>1 DEF IntegralOnly, Comparisons
<1>11. CASE op \in {"MUL", "DIV"} \cup IntegralOnly
  <2>1. s = IF op \in IntegralOnly /\ ~(a \in Integral /\ b \in Integral) THEN Rejected
            ELSE Typed(k, k, k)
      BY <1>5, <1>11 DEF BinaryType, Comparisons, IntegralOnly
  <2>2. QED
      BY <1>1, <1>3, <1>4, <1>11, <2>1 DEF IntegralOnly, Comparisons, k
<1>12. QED
    BY <1>6, <1>7, <1>8, <1>9, <1>10, <1>11 DEF BinaryOperators

\* C allows an operator exactly when Sema does.
LEMMA VerdictsAgree ==
  ASSUME Target, NEW op \in BinaryOperators, NEW c, NEW d,
         c.kind \in ArithmeticKinds, d.kind \in ArithmeticKinds
  PROVE  BinaryType(op, c.kind, d.kind).ok = C!Allowed(op, c, d)
<1>1. /\ c.kind \in Integral <=> c.kind \notin C!Floating
      /\ d.kind \in Integral <=> d.kind \notin C!Floating
    BY DEF C!Floating, ArithmeticKinds, Integral, Signed, Unsigned, Floating
<1>2. C!Allowed(op, c, d) \in BOOLEAN
    BY DEF C!Allowed
<1>3. C!Allowed(op, c, d) <=> (op \in IntegralOnly \cup {"LSHIFT", "RSHIFT"}
                                 => c.kind \in Integral /\ d.kind \in Integral)
    BY <1>1 DEF C!Allowed, IntegralOnly
<1> DEFINE s == BinaryType(op, c.kind, d.kind)
<1>4. /\ s.ok \in BOOLEAN
      /\ s.ok <=> (op \in IntegralOnly \cup {"LSHIFT", "RSHIFT"}
                     => c.kind \in Integral /\ d.kind \in Integral)
    BY BinaryTypeIs
<1> HIDE DEF s
<1>5. s.ok = C!Allowed(op, c, d)
    BY <1>2, <1>3, <1>4
<1>6. QED
    BY <1>5 DEF s

\* What the reference says of a node is a value or its absence.
Told(c) == c \in {C!Unknown(c.kind), C!Value(c.kind, c.number)}

LEMMA TellsUnknown ==
  ASSUME NEW k
  PROVE  Told(C!Unknown(k)) /\ C!Unknown(k).kind = k /\ C!Unknown(k).known \in BOOLEAN
BY DEF Told, C!Unknown

LEMMA TellsValue ==
  ASSUME NEW k, NEW n
  PROVE  Told(C!Value(k, n)) /\ C!Value(k, n).kind = k
BY DEF Told, C!Value

LEMMA TellsConverted ==
  ASSUME NEW c, NEW k
  PROVE  Told(C!Converted(c, k))
BY TellsUnknown, TellsValue DEF C!Converted

LEMMA TellsBinary ==
  ASSUME NEW op \in BinaryOperators, NEW c, NEW d
  PROVE  Told(C!Binary(op, c, d))
<1>1. Told(C!Calculated(op, c, d))
    BY TellsUnknown, TellsValue DEF C!Calculated
<1>2. Told(C!Compared(op, c, d))
    BY TellsUnknown, TellsValue DEF C!Compared
<1>3. CASE op \in C!Calculation
  <2>1. C!Binary(op, c, d) = C!Calculated(op, c, d)
      BY <1>3 DEF C!Binary, C!Calculation, C!Comparison
  <2>2. QED
      BY <1>1, <2>1
<1>4. CASE op \in C!Comparison
  <2>1. C!Binary(op, c, d) = C!Compared(op, c, d)
      BY <1>4 DEF C!Binary, C!Calculation, C!Comparison
  <2>2. QED
      BY <1>2, <2>1
<1>5. CASE op \notin C!Calculation \cup C!Comparison
  <2>1. \E k : C!Binary(op, c, d) = C!Unknown(k)
      BY <1>5 DEF C!Binary, C!Calculation, C!Comparison, BinaryOperators, Comparisons, IntegralOnly
  <2>2. QED
      BY <2>1, TellsUnknown
<1>6. QED
    BY <1>3, <1>4, <1>5

\* The tree of an operator Sema accepts.
LEMMA BinaryCarries ==
  ASSUME Target, NEW op \in BinaryOperators, NEW a \in ArithmeticKinds, NEW b \in ArithmeticKinds,
         NEW l, NEW r, NEW c, NEW d, Carries(l, a, c), Carries(r, b, d),
         NEW s, s = BinaryType(op, a, b), s.ok
  PROVE  Carries(EmitBinary(op, ImplicitCast(l, a, s.left), s.left,
                            ImplicitCast(r, b, s.right), s.right, s.result),
                 s.result, C!Binary(op, c, d))
<1> DEFINE x == ImplicitCast(l, a, s.left)
           y == ImplicitCast(r, b, s.right)
           z == EmitBinary(op, x, s.left, y, s.right, s.result)
           e == C!Binary(op, c, d)
           k == UsualArithmetic(a, b)
<1>1. c.kind = a /\ d.kind = b
    BY DEF Carries
<1>2. C!CommonType(c.kind, d.kind) = k /\ k \in ArithmeticKinds
    BY <1>1, UsualIsCommon
<1>3. CASE op \in {"ADD", "SUB", "MUL"}
  <2>1. s.left = k /\ s.right = k /\ s.result = k
      BY <1>3, BinaryTypeIs
  <2>2. Carries(x, k, C!Converted(c, k)) /\ Carries(y, k, C!Converted(d, k))
      BY <1>2, <2>1, CastCarries
  <2>3. z = EmitArithmetic(op, x, k, y, k, k)
      BY <1>3, <2>1 DEF EmitBinary, Comparisons
  <2>4. e = C!Calculated(op, c, d)
      BY <1>3 DEF C!Binary, C!Calculation, C!Comparison
  <2> HIDE DEF x, y, z, e, k
  <2>5. Carries(EmitArithmetic(op, x, k, y, k, k), k, C!Calculated(op, c, d))
      BY <1>2, <1>3, <2>2, CalculationCarries
  <2>6. Carries(z, s.result, e)
      BY <2>1, <2>3, <2>4, <2>5
  <2>7. QED
      BY <2>6 DEF x, y, z, e
<1>4. CASE op \in Comparisons
  <2>1. s.left = k /\ s.right = k /\ s.result = "INT"
      BY <1>4, BinaryTypeIs
  <2>2. Carries(x, k, C!Converted(c, k)) /\ Carries(y, k, C!Converted(d, k))
      BY <1>2, <2>1, CastCarries
  <2>3. z = EmitComparison(op, x, k, y, k)
      BY <1>4, <2>1 DEF EmitBinary, Comparisons
  <2>4. e = C!Compared(op, c, d)
      BY <1>4 DEF C!Binary, C!Calculation, C!Comparison, Comparisons
  <2> HIDE DEF x, y, z, e, k
  <2>5. Carries(EmitComparison(op, x, k, y, k), "INT", C!Compared(op, c, d))
      BY <1>2, <1>4, <2>2, ComparisonCarries
  <2>6. Carries(z, s.result, e)
      BY <2>1, <2>3, <2>4, <2>5
  <2>7. QED
      BY <2>6 DEF x, y, z, e
<1>5. CASE op \notin {"ADD", "SUB", "MUL"} \cup Comparisons
  <2>1. z = Unsupported
      BY <1>5 DEF EmitBinary
  <2>2. e = C!Unknown(s.result)
    <3>1. CASE op \in {"AND", "OR"}
      <4>1. s.result = "INT"
          BY <3>1, BinaryTypeIs
      <4>2. e = C!Unknown("INT")
          BY <3>1 DEF C!Binary, C!Calculation, C!Comparison
      <4>3. QED
          BY <4>1, <4>2
    <3>2. CASE op \in {"LSHIFT", "RSHIFT"}
      <4>1. s.result = Promoted(a)
          BY <3>2, BinaryTypeIs
      <4>2. e = C!Unknown(C!Promotion(c.kind))
          BY <3>2 DEF C!Binary, C!Calculation, C!Comparison
      <4>3. QED
          BY <1>1, <4>1, <4>2, PromotionAgrees
    <3>3. CASE op = "COMMA"
      <4>1. s.result = b
          BY <3>3, BinaryTypeIs
      <4>2. e = C!Unknown(d.kind)
          BY <3>3 DEF C!Binary, C!Calculation, C!Comparison
      <4>3. QED
          BY <1>1, <4>1, <4>2
    <3>4. CASE op \in {"DIV"} \cup IntegralOnly
      <4>1. s.result = k
          BY <3>4, BinaryTypeIs
      <4>2. e = C!Unknown(C!CommonType(c.kind, d.kind))
          BY <3>4 DEF C!Binary, C!Calculation, C!Comparison, IntegralOnly
      <4>3. QED
          BY <1>2, <4>1, <4>2
    <3>5. QED
        BY <1>5, <3>1, <3>2, <3>3, <3>4 DEF BinaryOperators
  <2>3. QED
      BY <2>1, <2>2, TellsUnknown, NoBitsCarry
<1>6. QED
    BY <1>3, <1>4, <1>5

-----------------------------------------------------------------------------
\* The trees on the stack: Sema's type is C's, and the bits carry the value.
Trees == {t \in [kind : ArithmeticKinds, lvalue : BOOLEAN, bits : Int,
                 c : [kind : ArithmeticKinds, known : BOOLEAN, number : Int]] :
            Carries(t.bits, t.kind, t.c)}

ArithmeticInv == /\ Target /\ stack \in Seq(Trees)
                 /\ accepted \in BOOLEAN /\ allowed = accepted

LEMMA TreeIs ==
  ASSUME Target, NEW kind \in ArithmeticKinds, NEW lvalue \in BOOLEAN, NEW bits, NEW c,
         Carries(bits, kind, c), Told(c)
  PROVE  Tree(kind, lvalue, bits, c) \in Trees
<1> DEFINE d == IF bits < 0 THEN C!Unknown(c.kind) ELSE c
           t == Tree(kind, lvalue, bits, c)
<1>1. /\ bits \in Int /\ bits # Disagrees /\ c.kind = kind /\ c.known \in BOOLEAN
      /\ bits >= 0 /\ kind \in Integral => bits \in Bits(kind)
      /\ bits >= 0 /\ c.known => kind \in Integral /\ c.number = Decoded(bits, kind)
    BY DEF Carries
<1>2. t.kind = kind /\ t.lvalue = lvalue /\ t.bits = bits /\ t.c = d
    BY DEF Tree
<1>3. t \in [kind : {kind}, lvalue : {lvalue}, bits : {bits}, c : {d}]
    BY DEF Tree
<1>4. C!Unknown(kind) \in [kind : ArithmeticKinds, known : BOOLEAN, number : Int]
  <2>1. /\ C!Unknown(kind).kind = kind /\ C!Unknown(kind).known \in BOOLEAN
        /\ C!Unknown(kind).number = 0
        /\ C!Unknown(kind) \in [kind : {kind}, known : BOOLEAN, number : {0}]
      BY DEF C!Unknown
  <2>2. QED
      BY <2>1
<1>5. d \in [kind : ArithmeticKinds, known : BOOLEAN, number : Int]
  <2>1. CASE bits < 0
      BY <1>1, <1>4, <2>1
  <2>2. CASE ~(bits < 0) /\ c = C!Unknown(c.kind)
      BY <1>1, <1>4, <2>2
  <2>3. CASE ~(bits < 0) /\ c = C!Value(c.kind, c.number)
    <3>1. c.known /\ c \in [kind : {c.kind}, known : BOOLEAN, number : {c.number}]
      <4>1. \A k, n : C!Value(k, n).known
          BY DEF C!Value
      <4>2. \A k, n : C!Value(k, n) \in [kind : {k}, known : BOOLEAN, number : {n}]
          BY DEF C!Value
      <4>3. PICK k, n : k = c.kind /\ n = c.number
          OBVIOUS
      <4>4. c = C!Value(k, n)
          BY <2>3, <4>3
      <4>5. c.known /\ c \in [kind : {k}, known : BOOLEAN, number : {n}]
          BY <4>1, <4>2, <4>4, Zenon
      <4>6. QED
          BY <4>3, <4>5
    <3>2. kind \in Integral /\ bits \in Bits(kind) /\ c.number = Decoded(bits, kind)
        BY <1>1, <2>3, <3>1
    <3>3. c.number \in Int
        BY <3>2, DecodedFacts
    <3>4. d = c
        BY <2>3
    <3> HIDE DEF d
    <3>5. QED
        BY <1>1, <3>1, <3>3, <3>4
  <2>4. QED
      BY <2>1, <2>2, <2>3 DEF Told
<1>6. Carries(bits, kind, d)
  <2>1. CASE bits < 0
    <3>1. d = C!Unknown(kind)
        BY <1>1, <2>1
    <3>2. d.kind = kind /\ d.known \in BOOLEAN
        BY <3>1, TellsUnknown
    <3> HIDE DEF d
    <3>3. QED
        BY <1>1, <2>1, <3>2 DEF Carries
  <2>2. CASE ~(bits < 0)
    <3>1. d = c
        BY <2>2
    <3> HIDE DEF d
    <3>2. QED
        BY <3>1
  <2>3. QED
      BY <2>1, <2>2
<1> HIDE DEF d, t
<1>7. t \in [kind : ArithmeticKinds, lvalue : BOOLEAN, bits : Int,
             c : [kind : ArithmeticKinds, known : BOOLEAN, number : Int]]
    BY <1>1, <1>3, <1>5
<1>8. t \in Trees
    BY <1>2, <1>6, <1>7 DEF Trees
<1>9. QED
    BY <1>8 DEF t

LEMMA TreeFacts ==
  ASSUME NEW t \in Trees
  PROVE  /\ t.kind \in ArithmeticKinds /\ t.lvalue \in BOOLEAN
         /\ t.c.kind = t.kind /\ t.c.known \in BOOLEAN /\ Carries(t.bits, t.kind, t.c)
BY DEF Trees, Carries

\* A tree without bits.
LEMMA BareTree ==
  ASSUME Target, NEW kind \in ArithmeticKinds, NEW lvalue \in BOOLEAN
  PROVE  Tree(kind, lvalue, Unsupported, C!Unknown(kind)) \in Trees
BY TellsUnknown, NoBitsCarry, TreeIs

-----------------------------------------------------------------------------
\* The stack.
LEMMA OperandsAreTrees ==
  ASSUME ArithmeticInv
  PROVE  /\ Len(stack) >= 1 => Right \in Trees
         /\ Len(stack) >= 2 => Left \in Trees /\ Right \in Trees
<1>1. stack \in Seq(Trees) /\ Len(stack) \in Nat
    BY DEF ArithmeticInv
<1>2. \A i \in 1 .. Len(stack) : stack[i] \in Trees
    BY <1>1, ElementOfSeq
<1>3. ASSUME Len(stack) >= 1 PROVE Right \in Trees
  <2>1. Len(stack) \in 1 .. Len(stack)
      BY <1>1, <1>3
  <2>2. QED
      BY <1>2, <2>1 DEF Right
<1>4. ASSUME Len(stack) >= 2 PROVE Left \in Trees
  <2>1. Len(stack) - 1 \in 1 .. Len(stack)
      BY <1>1, <1>4
  <2>2. QED
      BY <1>2, <2>1 DEF Left
<1>5. Len(stack) >= 2 => Len(stack) >= 1
    BY <1>1
<1>6. QED
    BY <1>3, <1>4, <1>5

LEMMA SameTrees ==
  ASSUME target' = target
  PROVE  Trees' = Trees /\ Target' = Target
<1>1. \A k : Width(k)' = Width(k)
    BY DEF Width
<1>2. \A k : Bits(k)' = Bits(k)
    BY <1>1 DEF Bits
<1>3. \A b, k : Decoded(b, k)' = Decoded(b, k)
    BY <1>1 DEF Decoded
<1>4. \A b, k, c : Carries(b, k, c)' = Carries(b, k, c)
    BY <1>2, <1>3 DEF Carries
<1>5. QED
    BY <1>4 DEF Trees, Target

LEMMA PushKeeps ==
  ASSUME ArithmeticInv, NEW t \in Trees, Push(t)
  PROVE  ArithmeticInv'
<1>1. /\ stack' = Append(stack, t) /\ target' = target
      /\ accepted' = accepted /\ allowed' = allowed
    BY DEF Push
<1>2. Append(stack, t) \in Seq(Trees)
  <2>1. stack \in Seq(Trees)
      BY DEF ArithmeticInv
  <2>2. QED
      BY <2>1, AppendProperties
<1>3. Trees' = Trees /\ Target' = Target
    BY <1>1, SameTrees
<1>4. QED
    BY <1>1, <1>2, <1>3 DEF ArithmeticInv

LEMMA ReduceKeeps ==
  ASSUME ArithmeticInv, NEW n \in {1, 2}, Len(stack) >= n, NEW ok \in BOOLEAN, NEW okInC,
         okInC = ok, NEW t, ok => t \in Trees, Reduce(n, ok, okInC, t)
  PROVE  ArithmeticInv'
<1>1. /\ accepted' = ok /\ allowed' = okInC /\ target' = target
      /\ stack' = IF ok THEN Append(SubSeq(stack, 1, Len(stack) - n), t) ELSE <<>>
    BY DEF Reduce
<1>2. stack' \in Seq(Trees)
  <2>1. CASE ~ok
    <3>1. stack' = <<>>
        BY <1>1, <2>1
    <3>2. QED
        BY <3>1
  <2>2. CASE ok
    <3> DEFINE s == SubSeq(stack, 1, Len(stack) - n)
    <3>1. stack \in Seq(Trees) /\ Len(stack) \in Nat
        BY DEF ArithmeticInv
    <3> DEFINE m == Len(stack) - n
    <3>2. m \in Int /\ m <= Len(stack) /\ 1 \in 1 .. Len(stack) + 1 /\ m \in 0 .. Len(stack)
        BY <3>1
    <3>3. \A i \in 1 .. m : stack[i] \in Trees
        BY <3>1, <3>2, ElementOfSeq
    <3>4. s \in Seq(Trees)
      <4> HIDE DEF m
      <4>1. SubSeq(stack, 1, m) \in Seq(Trees)
          BY <3>1, <3>2, <3>3, SubSeqProperties
      <4>2. QED
          BY <4>1 DEF m
    <3> HIDE DEF s
    <3>5. Append(s, t) \in Seq(Trees)
        BY <2>2, <3>4, AppendProperties
    <3>6. QED
        BY <1>1, <2>2, <3>5 DEF s
  <2>3. QED
      BY <2>1, <2>2
<1>3. Trees' = Trees /\ Target' = Target
    BY <1>1, SameTrees
<1>4. QED
    BY <1>1, <1>2, <1>3 DEF ArithmeticInv

-----------------------------------------------------------------------------
(* Steps.                                                                     *)

LEMMA OperandKeeps ==
  ASSUME ArithmeticInv, NEW k \in ArithmeticKinds, NEW lvalue \in BOOLEAN, Operand(k, lvalue)
  PROVE  ArithmeticInv'
<1>1. Target
    BY DEF ArithmeticInv
<1>2. CASE k \in Integral
  <2>1. PICK b \in 0..(2 ^ Width(k) - 1) :
          Push(Tree(k, lvalue, b, C!Value(k, IF k \in Signed THEN AsSigned(b, Width(k)) ELSE b)))
      BY <1>2 DEF Operand
  <2> DEFINE c == C!Value(k, IF k \in Signed THEN AsSigned(b, Width(k)) ELSE b)
  <2>2. b \in Bits(k)
      BY DEF Bits
  <2>3. Carries(b, k, c) /\ Told(c)
      BY <1>1, <1>2, <2>2, ValueCarries, TellsValue
  <2> HIDE DEF c
  <2>4. Tree(k, lvalue, b, c) \in Trees
      BY <1>1, <2>3, TreeIs
  <2>5. Push(Tree(k, lvalue, b, c))
      BY <2>1 DEF c
  <2>6. QED
      BY <2>4, <2>5, PushKeeps
<1>3. CASE k \notin Integral
  <2> DEFINE bits == IF Lower(k) < 0 THEN Unsupported ELSE 0
  <2>1. Push(Tree(k, lvalue, bits, C!Unknown(k)))
      BY <1>3 DEF Operand
  <2>2. bits \in {-1, 0}
      BY DEF Unsupported
  <2> HIDE DEF bits
  <2>3. Carries(bits, k, C!Unknown(k)) /\ Told(C!Unknown(k))
    <3>1. /\ C!Unknown(k).kind = k /\ C!Unknown(k).known \in BOOLEAN
          /\ ~C!Unknown(k).known /\ Told(C!Unknown(k))
        BY TellsUnknown DEF C!Unknown
    <3>2. bits \in Int /\ bits # Disagrees
        BY <2>2 DEF Disagrees
    <3>3. QED
        BY <1>3, <3>1, <3>2 DEF Carries
  <2>4. Tree(k, lvalue, bits, C!Unknown(k)) \in Trees
      BY <1>1, <2>3, TreeIs
  <2>5. QED
      BY <2>1, <2>4, PushKeeps
<1>4. QED
    BY <1>2, <1>3

LEMMA LiteralKeeps ==
  ASSUME ArithmeticInv, NEW v \in Literals, NEW suffix \in Suffixes, NEW decimal \in BOOLEAN,
         Literal(v, suffix, decimal)
  PROVE  ArithmeticInv'
<1>1. Target
    BY DEF ArithmeticInv
<1>2. v \in Nat
    BY ArithmeticOperands
<1> DEFINE k == IntegerLiteralType(v, suffix, decimal)
           t == Tree(k, FALSE, v % 2 ^ Width(k), C!Value(C!LiteralType(v, decimal, suffix), v))
<1>3. v < 2 ^ (target.sizeofLonglong - 1) /\ Push(t)
    BY DEF Literal
<1>4. k = C!LiteralType(v, decimal, suffix) /\ k \in OrderedInts /\ v \in C!Values(k)
    BY <1>1, <1>2, <1>3, LiteralAgrees
<1>5. k \in Integral
    BY <1>1, <1>4, OrderedFacts
<1>6. t = Tree(k, FALSE, v % 2 ^ Width(k), C!Value(k, v))
    BY <1>4
<1> HIDE DEF k, t
<1>7. Carries(v % 2 ^ Width(k), k, C!Value(k, v)) /\ Told(C!Value(k, v))
    BY <1>1, <1>2, <1>4, <1>5, LiteralCarries, TellsValue
<1>8. k \in ArithmeticKinds
    BY <1>5 DEF ArithmeticKinds
<1>9. t \in Trees
    BY <1>1, <1>6, <1>7, <1>8, TreeIs
<1>10. QED
    BY <1>3, <1>9, PushKeeps

LEMMA BinaryKeeps ==
  ASSUME ArithmeticInv, NEW op \in BinaryOperators, Binary(op)
  PROVE  ArithmeticInv'
<1>1. Target /\ stack \in Seq(Trees) /\ Len(stack) >= 2
    BY DEF ArithmeticInv, Binary
<1>2. Left \in Trees /\ Right \in Trees
    BY <1>1, OperandsAreTrees
<1> DEFINE l == Left
           r == Right
           s == BinaryType(op, l.kind, r.kind)
           x == ImplicitCast(l.bits, l.kind, s.left)
           y == ImplicitCast(r.bits, r.kind, s.right)
           z == EmitBinary(op, x, s.left, y, s.right, s.result)
           c == C!Binary(op, l.c, r.c)
           t == Tree(s.result, FALSE, z, c)
<1>3. Reduce(2, s.ok, C!Allowed(op, l.c, r.c), t)
    BY DEF Binary
<1>4. /\ l.kind \in ArithmeticKinds /\ l.c.kind = l.kind /\ Carries(l.bits, l.kind, l.c)
      /\ r.kind \in ArithmeticKinds /\ r.c.kind = r.kind /\ Carries(r.bits, r.kind, r.c)
    BY <1>2, TreeFacts
<1> HIDE DEF l, r
<1>5. s.ok \in BOOLEAN /\ s.result \in ArithmeticKinds
    BY <1>1, <1>4, BinaryTypeIs
<1>6. C!Allowed(op, l.c, r.c) = s.ok
    BY <1>1, <1>4, VerdictsAgree
<1>7. ASSUME s.ok PROVE t \in Trees
  <2>1. Carries(z, s.result, c)
      BY <1>1, <1>4, <1>7, BinaryCarries
  <2>2. Told(c)
      BY TellsBinary
  <2> HIDE DEF s, z, c
  <2>3. QED
      BY <1>1, <1>5, <2>1, <2>2, TreeIs
<1> HIDE DEF s, t
<1>8. QED
    BY <1>1, <1>3, <1>5, <1>6, <1>7, ReduceKeeps

LEMMA AssignKeeps ==
  ASSUME ArithmeticInv, Assign
  PROVE  ArithmeticInv'
<1>1. Target /\ stack \in Seq(Trees) /\ Len(stack) >= 2
    BY DEF ArithmeticInv, Assign
<1>2. Left \in Trees /\ Right \in Trees
    BY <1>1, OperandsAreTrees
<1> DEFINE l == Left
           r == Right
           k == l.kind
           y == ImplicitCast(r.bits, r.kind, k)
           z == EmitAssign(l.bits, k, y, k)
           c == C!Converted(r.c, l.c.kind)
           t == Tree(k, FALSE, z, c)
<1>3. Reduce(2, l.lvalue, l.lvalue, t)
    BY DEF Assign
<1>4. /\ k \in ArithmeticKinds /\ l.c.kind = k /\ l.lvalue \in BOOLEAN
      /\ r.kind \in ArithmeticKinds /\ Carries(r.bits, r.kind, r.c)
    BY <1>2, TreeFacts
<1> HIDE DEF l, r, k
<1>5. c = C!Converted(r.c, k)
    BY <1>4
<1>6. Carries(y, k, c) /\ Told(c)
    BY <1>1, <1>4, <1>5, CastCarries, TellsConverted
<1>7. Carries(z, k, c)
  <2> HIDE DEF y, c
  <2>1. z = Unsupported \/ z = y
      BY DEF EmitAssign
  <2>2. c.kind = k /\ c.known \in BOOLEAN
      BY <1>6 DEF Carries
  <2> HIDE DEF z
  <2>3. QED
      BY <1>6, <2>1, <2>2, NoBitsCarry
<1>8. t \in Trees
  <2> HIDE DEF z, c
  <2>1. QED
      BY <1>1, <1>4, <1>6, <1>7, TreeIs
<1> HIDE DEF t
<1>9. QED
    BY <1>1, <1>3, <1>4, <1>8, ReduceKeeps

\* Operators and operands that MLIRGen yields nothing for.
LEMMA CompoundAssignKeeps ==
  ASSUME ArithmeticInv, NEW op \in BinaryOperators, CompoundAssign(op)
  PROVE  ArithmeticInv'
<1>1. Target /\ Len(stack) >= 2
    BY DEF ArithmeticInv, CompoundAssign
<1>2. Left \in Trees /\ Right \in Trees
    BY <1>1, OperandsAreTrees
<1> DEFINE l == Left
           r == Right
           ok == l.lvalue /\ BinaryType(op, l.kind, r.kind).ok
           okInC == l.lvalue /\ C!Allowed(op, l.c, r.c)
           t == Tree(l.kind, FALSE, Unsupported, C!Unknown(l.c.kind))
<1>3. Reduce(2, ok, okInC, t)
    BY DEF CompoundAssign
<1>4. /\ l.kind \in ArithmeticKinds /\ l.c.kind = l.kind /\ l.lvalue \in BOOLEAN
      /\ r.kind \in ArithmeticKinds /\ r.c.kind = r.kind
    BY <1>2, TreeFacts
<1> HIDE DEF l, r
<1>5. BinaryType(op, l.kind, r.kind).ok = C!Allowed(op, l.c, r.c)
    BY <1>1, <1>4, VerdictsAgree
<1>6. okInC = ok /\ ok \in BOOLEAN
    BY <1>5
<1>7. t \in Trees
    BY <1>1, <1>4, BareTree
<1> HIDE DEF ok, okInC, t
<1>8. QED
    BY <1>1, <1>3, <1>6, <1>7, ReduceKeeps

LEMMA UnaryKeeps ==
  ASSUME ArithmeticInv, NEW op \in {"POS", "NEG", "BITNOT", "NOT"}, Unary(op)
  PROVE  ArithmeticInv'
<1>1. Target /\ Len(stack) >= 1
    BY DEF ArithmeticInv, Unary
<1>2. Right \in Trees
    BY <1>1, OperandsAreTrees
<1> DEFINE r == Right
           ok == op = "BITNOT" => r.kind \in Integral
           okInC == op = "BITNOT" => r.c.kind \notin C!Floating
           t == Tree(IF op = "NOT" THEN "INT" ELSE Promoted(r.kind), FALSE, Unsupported,
                     C!Unknown(IF op = "NOT" THEN "INT" ELSE C!Promotion(r.c.kind)))
<1>3. Reduce(1, ok, okInC, t)
    BY DEF Unary
<1>4. r.kind \in ArithmeticKinds /\ r.c.kind = r.kind
    BY <1>2, TreeFacts
<1> HIDE DEF r
<1>5. r.kind \in Integral <=> r.c.kind \notin C!Floating
    BY <1>4 DEF C!Floating, ArithmeticKinds, Integral, Signed, Unsigned, Floating
<1>6. okInC = ok /\ ok \in BOOLEAN
    BY <1>5
<1>7. t \in Trees
  <2>1. CASE op = "NOT"
    <3>1. t = Tree("INT", FALSE, Unsupported, C!Unknown("INT"))
        BY <2>1
    <3>2. "INT" \in ArithmeticKinds
        BY DEF ArithmeticKinds, Integral, Signed
    <3> HIDE DEF t
    <3>3. QED
        BY <1>1, <3>1, <3>2, BareTree
  <2>2. CASE op # "NOT"
    <3>1. C!Promotion(r.kind) = Promoted(r.kind) /\ Promoted(r.kind) \in ArithmeticKinds
        BY <1>1, <1>4, PromotionAgrees
    <3>2. t = Tree(Promoted(r.kind), FALSE, Unsupported, C!Unknown(Promoted(r.kind)))
        BY <1>4, <2>2, <3>1
    <3> HIDE DEF t
    <3>3. QED
        BY <1>1, <3>1, <3>2, BareTree
  <2>3. QED
      BY <2>1, <2>2
<1> HIDE DEF ok, okInC, t
<1>8. QED
    BY <1>1, <1>3, <1>6, <1>7, ReduceKeeps

LEMMA IncDecKeeps ==
  ASSUME ArithmeticInv, IncDec
  PROVE  ArithmeticInv'
<1>1. Target /\ Len(stack) >= 1
    BY DEF ArithmeticInv, IncDec
<1>2. Right \in Trees
    BY <1>1, OperandsAreTrees
<1> DEFINE r == Right
           t == Tree(r.kind, FALSE, Unsupported, C!Unknown(r.c.kind))
<1>3. Reduce(1, r.lvalue, r.lvalue, t)
    BY DEF IncDec
<1>4. r.kind \in ArithmeticKinds /\ r.c.kind = r.kind /\ r.lvalue \in BOOLEAN
    BY <1>2, TreeFacts
<1> HIDE DEF r
<1>5. t \in Trees
    BY <1>1, <1>4, BareTree
<1> HIDE DEF t
<1>6. QED
    BY <1>1, <1>3, <1>4, <1>5, ReduceKeeps

LEMMA ConditionalKeeps ==
  ASSUME ArithmeticInv, Conditional
  PROVE  ArithmeticInv'
<1>1. Target /\ Len(stack) >= 2
    BY DEF ArithmeticInv, Conditional
<1>2. Left \in Trees /\ Right \in Trees
    BY <1>1, OperandsAreTrees
<1> DEFINE l == Left
           r == Right
           k == UsualArithmetic(l.kind, r.kind)
           t == Tree(k, FALSE, Unsupported, C!Unknown(C!CommonType(l.c.kind, r.c.kind)))
<1>3. \E ok \in BOOLEAN : ok /\ Reduce(2, ok, ok, t)
    BY Zenon DEF Conditional
<1>4. /\ l.kind \in ArithmeticKinds /\ l.c.kind = l.kind
      /\ r.kind \in ArithmeticKinds /\ r.c.kind = r.kind
    BY <1>2, TreeFacts
<1> HIDE DEF l, r
<1>5. C!CommonType(l.c.kind, r.c.kind) = k /\ k \in ArithmeticKinds
    BY <1>1, <1>4, UsualIsCommon
<1>6. t \in Trees
    BY <1>1, <1>5, BareTree
<1> HIDE DEF t
<1>7. QED
    BY <1>1, <1>3, <1>6, ReduceKeeps

LEMMA OtherLiteralKeeps ==
  ASSUME ArithmeticInv, NEW k \in {"INT"} \cup Floating, OtherLiteral(k)
  PROVE  ArithmeticInv'
<1>1. Target /\ k \in ArithmeticKinds
    BY DEF ArithmeticInv, ArithmeticKinds, Integral, Signed
<1>2. Tree(k, FALSE, Unsupported, C!Unknown(k)) \in Trees
    BY <1>1, BareTree
<1>3. QED
    BY <1>2, PushKeeps DEF OtherLiteral

LEMMA InvalidSuffixKeeps ==
  ASSUME ArithmeticInv, InvalidSuffix
  PROVE  ArithmeticInv'
<1>1. target' = target /\ stack' = <<>> /\ accepted' \in BOOLEAN /\ allowed' = accepted'
    BY Zenon DEF InvalidSuffix
<1>2. Trees' = Trees /\ Target' = Target
    BY <1>1, SameTrees
<1>3. <<>> \in Seq(Trees)
    OBVIOUS
<1>4. QED
    BY <1>1, <1>2, <1>3 DEF ArithmeticInv

LEMMA ArithmeticInit ==
  ASSUME Init
  PROVE  ArithmeticInv
<1>1. accepted \in BOOLEAN /\ allowed = accepted
    BY Zenon DEF Init
<1>2. stack = <<>> /\ target \in Targets
    BY DEF Init
<1>3. <<>> \in Seq(Trees)
    OBVIOUS
<1>4. QED
    BY <1>1, <1>2, <1>3 DEF ArithmeticInv, Target

LEMMA ArithmeticNext ==
  ASSUME ArithmeticInv, [Next]_vars
  PROVE  ArithmeticInv'
<1>1. ASSUME NEW k \in Kinds, Operand(k, TRUE) PROVE ArithmeticInv'
  <2>1. k \in ArithmeticKinds
      BY ArithmeticOperands
  <2>2. \E lvalue \in BOOLEAN : Operand(k, lvalue)
      BY <1>1, Zenon
  <2>3. QED
      BY <2>1, <2>2, OperandKeeps
<1>2. ASSUME NEW k \in Calls, Operand(k, FALSE) PROVE ArithmeticInv'
  <2>1. k \in ArithmeticKinds
      BY ArithmeticOperands
  <2>2. \E lvalue \in BOOLEAN : Operand(k, lvalue)
      BY <1>2, Zenon
  <2>3. QED
      BY <2>1, <2>2, OperandKeeps
<1>3. ASSUME NEW v \in Literals, NEW suffix \in Suffixes, NEW decimal \in BOOLEAN,
             Literal(v, suffix, decimal)
      PROVE  ArithmeticInv'
    BY <1>3, LiteralKeeps
<1>4. CASE InvalidSuffix
    BY <1>4, InvalidSuffixKeeps
<1>5. ASSUME NEW k \in {"INT"} \cup Floating, OtherLiteral(k) PROVE ArithmeticInv'
    BY <1>5, OtherLiteralKeeps
<1>6. ASSUME NEW o \in Operators, IF o.compound THEN CompoundAssign(o.op) ELSE Binary(o.op)
      PROVE  ArithmeticInv'
  <2>1. o.op \in BinaryOperators
      BY ArithmeticOperands
  <2>2. CompoundAssign(o.op) \/ Binary(o.op)
      BY <1>6
  <2>3. QED
      BY <2>1, <2>2, CompoundAssignKeeps, BinaryKeeps
<1>7. CASE Assign
    BY <1>7, AssignKeeps
<1>8. ASSUME NEW op \in {"POS", "NEG", "BITNOT", "NOT"}, Unary(op) PROVE ArithmeticInv'
    BY <1>8, UnaryKeeps
<1>9. CASE IncDec
    BY <1>9, IncDecKeeps
<1>10. CASE Conditional
    BY <1>10, ConditionalKeeps
<1>11. CASE UNCHANGED vars
  <2>1. target' = target /\ stack' = stack /\ accepted' = accepted /\ allowed' = allowed
      BY <1>11 DEF vars
  <2>2. Trees' = Trees /\ Target' = Target
      BY <2>1, SameTrees
  <2>3. QED
      BY <2>1, <2>2 DEF ArithmeticInv
<1>12. QED
    BY <1>1, <1>2, <1>3, <1>4, <1>5, <1>6, <1>7, <1>8, <1>9, <1>10, <1>11 DEF Next

LEMMA TreesComputeAsC ==
  ASSUME ArithmeticInv
  PROVE  TypedAsC /\ ComputesAsC
<1>1. accepted = allowed /\ stack \in Seq(Trees)
    BY DEF ArithmeticInv
<1>2. ASSUME NEW i \in DOMAIN stack PROVE stack[i] \in Trees
  <2>1. i \in 1 .. Len(stack)
      BY <1>1
  <2>2. QED
      BY <1>1, <2>1, ElementOfSeq
<1>3. TypedAsC
    BY <1>1, <1>2, TreeFacts DEF TypedAsC
<1>4. ASSUME NEW t \in Trees
      PROVE  /\ t.bits # Disagrees
             /\ t.bits >= 0 /\ t.c.known
                  => t.c.number = IF t.kind \in Signed THEN AsSigned(t.bits, Width(t.kind)) ELSE t.bits
    BY TreeFacts DEF Carries, Decoded
<1>5. ComputesAsC
    BY <1>2, <1>4 DEF ComputesAsC
<1>6. QED
    BY <1>3, <1>5

\* Whatever the widths of the types on a target, Sema accepts the arithmetic
\* expressions that C allows and gives each the type C gives it (promoted,
\* usualArithmetic, integerLiteralType, binaryType, analyzeUnary, analyzeConditional).
THEOREM TypesAsC == Spec => []TypedAsC
<1>1. Spec => []ArithmeticInv
  <2>1. Init => ArithmeticInv
      BY ArithmeticInit
  <2>2. ArithmeticInv /\ [Next]_vars => ArithmeticInv'
      BY ArithmeticNext
  <2>3. QED
      BY <2>1, <2>2, PTL DEF Spec
<1>2. ArithmeticInv => TypedAsC
    BY TreesComputeAsC
<1>3. QED
    BY <1>1, <1>2, PTL

\* Whatever the widths of the types on a target, the operations MLIRGen picks for
\* an integer expression yield the bits of the value C gives it, wherever C gives
\* it one, and their operands have the types it expects (emitExpr, emitBinary).
THEOREM ValuesAsC == Spec => []ComputesAsC
<1>1. Spec => []ArithmeticInv
  <2>1. Init => ArithmeticInv
      BY ArithmeticInit
  <2>2. ArithmeticInv /\ [Next]_vars => ArithmeticInv'
      BY ArithmeticNext
  <2>3. QED
      BY <2>1, <2>2, PTL DEF Spec
<1>2. ArithmeticInv => ComputesAsC
    BY TreesComputeAsC
<1>3. QED
    BY <1>1, <1>2, PTL

-----------------------------------------------------------------------------
(* Qualifiers: the invariant.                                                 *)

\* The type t is used for the object o.
Fits(t, o) == /\ o \in Objects
              /\ Inner(t) = Inner(Declared[o])
              /\ Quals(Declared[o]) \subseteq Quals(t)

PointsTo(t, o) == o # Null => IsPointer(t) /\ Fits(Inner(t), o)

Results == [type : ScalarTypes, lvalue : BOOLEAN, at : Objects \cup {Null}, zero : BOOLEAN]
Sound(x) == /\ x \in Results
            /\ x.lvalue => Fits(x.type, x.at)
            /\ ~x.lvalue => PointsTo(x.type, x.at)
            /\ x.zero => ~x.lvalue /\ x.at = Null /\ ~IsPointer(x.type)

MemorySound == /\ memory \in [Objects -> Objects \cup {Null}]
               /\ \A o \in Objects : PointsTo(Declared[o], memory[o])
OperandsSound == operands \in Seq(Results) /\ \A i \in DOMAIN operands : Sound(operands[i])
ObjectsInv == MemorySound /\ OperandsSound

Both == {"const", "volatile"}

-----------------------------------------------------------------------------
(* Types.                                                                     *)

\* A level of a scalar type is its kind and its qualifiers.
LEMMA LevelShape ==
  ASSUME NEW x \in Levels
  PROVE  /\ x.kind \in {"POINTER", "INT"} /\ x.quals \in SUBSET Both
         /\ x = Level(x.kind, x.quals)
<1>1. PICK k \in {"POINTER", "INT"}, quals \in SUBSET {"const", "volatile"} : x = Level(k, quals)
  BY DEF Levels
<1>2. Level(k, quals).kind = k /\ Level(k, quals).quals = quals
  BY DEF Level
<1> QED BY <1>1, <1>2 DEF Both

\* Requalifying a level; the other fields are named, since the provers take truth
\* values for formulas.
LEMMA Requalified ==
  ASSUME NEW kind, NEW old, NEW new
  PROVE  [Level(kind, old) EXCEPT !.quals = new] = Level(kind, new)
<1>1. PICK yes, no, size, tag, params :
       yes = TRUE /\ no = FALSE /\ size = -1 /\ tag = "" /\ params = <<>>
  OBVIOUS
<1> DEFINE Plain(quals) == [kind |-> kind, quals |-> quals, size |-> size, tag |-> tag,
                            proto |-> yes, variadic |-> no, params |-> params]
<1>2. \A quals : Level(kind, quals) = Plain(quals)
  BY <1>1, Zenon DEF Level
<1>3. [Plain(old) EXCEPT !.quals = new] = Plain(new)
  OBVIOUS
<1> QED BY <1>2, <1>3

\* A scalar type is a row of pointers and then int.
LEMMA ScalarShape ==
  ASSUME NEW t \in ScalarTypes
  PROVE  /\ t \in Seq(Levels) /\ Len(t) \in Nat \ {0} /\ t # <<>> /\ DOMAIN t = 1 .. Len(t)
         /\ \A i \in 1 .. Len(t) : t[i] \in Levels /\ (t[i].kind = "INT" <=> i = Len(t))
         /\ t[1] \in Levels
BY DEF ScalarTypes

\* What a pointer points to is a scalar type.
LEMMA InnerScalar ==
  ASSUME NEW t \in ScalarTypes
  PROVE  /\ Inner(t) \in Seq(Levels) /\ Len(Inner(t)) = Len(t) - 1
         /\ \A i \in 1 .. Len(t) - 1 : Inner(t)[i] = t[i + 1]
         /\ IsPointer(t) <=> Len(t) > 1
         /\ IsPointer(t) => Inner(t) \in ScalarTypes
<1>1. /\ t \in Seq(Levels) /\ Len(t) \in Nat \ {0} /\ t # <<>>
      /\ \A i \in 1 .. Len(t) : t[i] \in Levels /\ (t[i].kind = "INT" <=> i = Len(t))
  BY ScalarShape
<1>2. /\ Inner(t) \in Seq(Levels) /\ Len(Inner(t)) = Len(t) - 1
      /\ \A i \in 1 .. Len(t) - 1 : Inner(t)[i] = t[i + 1]
  BY <1>1, HeadTailProperties DEF Inner
<1>3. IsPointer(t) <=> Len(t) > 1
  <2>1. t[1].kind \in {"POINTER", "INT"}
    BY <1>1, LevelShape
  <2> QED BY <1>1, <2>1 DEF IsPointer, Kind
<1>4. Len(t) > 1 => Inner(t) \in ScalarTypes
  <2>1. \A i \in 1 .. Len(t) - 1 : Inner(t)[i].kind = "INT" <=> i = Len(t) - 1
    BY <1>1, <1>2
  <2> QED BY <1>1, <1>2, <2>1 DEF ScalarTypes
<1> QED BY <1>2, <1>3, <1>4

\* Two scalar types of which the same is left behind the outermost level are of
\* one kind.
LEMMA SameKind ==
  ASSUME NEW s \in ScalarTypes, NEW t \in ScalarTypes, Inner(s) = Inner(t)
  PROVE  Len(s) = Len(t) /\ (IsPointer(s) <=> IsPointer(t)) /\ s[1].kind = t[1].kind
<1>1. Len(s) = Len(t) /\ (IsPointer(s) <=> IsPointer(t))
  BY InnerScalar, ScalarShape
<1>2. s[1].kind \in {"POINTER", "INT"} /\ t[1].kind \in {"POINTER", "INT"}
  BY ScalarShape, LevelShape
<1> QED BY <1>1, <1>2 DEF IsPointer, Kind

\* Qualifying a scalar type changes the qualifiers of its outermost level.
LEMMA QualifiedScalar ==
  ASSUME NEW t \in ScalarTypes, NEW quals \in SUBSET Both
  PROVE  /\ Qualified(t, quals) \in ScalarTypes
         /\ Quals(Qualified(t, quals)) = quals
         /\ Inner(Qualified(t, quals)) = Inner(t)
         /\ \A s \in ScalarTypes : Inner(s) = Inner(t) /\ Quals(s) = quals => s = Qualified(t, quals)
<1> DEFINE q == Qualified(t, quals)
<1>1. /\ t \in Seq(Levels) /\ Len(t) \in Nat \ {0} /\ t # <<>> /\ DOMAIN t = 1 .. Len(t)
      /\ \A i \in 1 .. Len(t) : t[i] \in Levels /\ (t[i].kind = "INT" <=> i = Len(t))
      /\ t[1] \in Levels
  BY ScalarShape
<1>0. Len(t) \in Nat \ {0}
  BY <1>1
<1>2. t[1].kind \in {"POINTER", "INT"} /\ t[1] = Level(t[1].kind, t[1].quals)
  BY <1>1, LevelShape
<1>3. [t[1] EXCEPT !.quals = quals] = Level(t[1].kind, quals)
  BY <1>2, Requalified
<1>4. q = [i \in 1 .. Len(t) |-> IF i = 1 THEN Level(t[1].kind, quals) ELSE t[i]]
  <2>1. ASSUME NEW i \in 1 .. Len(t), i # 1
        PROVE  ~(\A j \in 1 .. i - 1 : t[j].kind = "ARRAY")
    <3>1. 1 \in 1 .. i - 1
      BY <2>1, <1>0
    <3> QED BY <3>1, <1>2
  <2> QED BY <1>1, <1>3, <2>1 DEF Qualified
<1>5. Level(t[1].kind, quals) \in Levels
  BY <1>2 DEF Levels, Both
<1>7. q[1] = Level(t[1].kind, quals) /\ \A i \in 1 .. Len(t) : i # 1 => q[i] = t[i]
  <2>1. 1 \in 1 .. Len(t)
    BY <1>0
  <2> QED BY <2>1, <1>4
<1>6. q \in Seq(Levels) /\ Len(q) = Len(t) /\ q # <<>>
  <2> HIDE DEF q
  <2>1. \A i \in 1 .. Len(t) : q[i] \in Levels
    BY <1>1, <1>5, <1>7
  <2>2. q \in [1 .. Len(t) -> Levels]
    BY <1>4, <2>1
  <2>3. q \in Seq(Levels)
    BY <2>2, <1>0
  <2> QED BY <2>2, <2>3, <1>0
<1>8. Level(t[1].kind, quals).kind = t[1].kind /\ Level(t[1].kind, quals).quals = quals
  BY DEF Level
<1>9. q \in ScalarTypes
  <2> HIDE DEF q
  <2>1. \A i \in 1 .. Len(q) : q[i].kind = "INT" <=> i = Len(q)
    BY <1>1, <1>6, <1>7, <1>8
  <2>2. DOMAIN q = 1 .. Len(q) /\ Len(q) > 0
    BY <1>0, <1>6
  <2> QED BY <1>6, <2>1, <2>2 DEF ScalarTypes
<1>10. Inner(q) = Inner(t)
  <2>1. /\ Inner(q) \in Seq(Levels) /\ Len(Inner(q)) = Len(t) - 1
        /\ \A i \in 1 .. Len(t) - 1 : Inner(q)[i] = q[i + 1]
    BY <1>9, <1>6, InnerScalar
  <2>2. /\ Inner(t) \in Seq(Levels) /\ Len(Inner(t)) = Len(t) - 1
        /\ \A i \in 1 .. Len(t) - 1 : Inner(t)[i] = t[i + 1]
    BY InnerScalar
  <2>3. \A i \in 1 .. Len(Inner(q)) : Inner(q)[i] = Inner(t)[i]
    BY <2>1, <2>2, <1>1, <1>7
  <2> QED BY <2>1, <2>2, <2>3, SeqEqual
<1>11. ASSUME NEW s \in ScalarTypes, Inner(s) = Inner(t), Quals(s) = quals
       PROVE  s = q
  <2>1. Len(s) = Len(t) /\ s[1].kind = t[1].kind
    BY <1>11, SameKind
  <2>2. s \in Seq(Levels) /\ s[1] = Level(s[1].kind, s[1].quals)
    BY ScalarShape, LevelShape
  <2>3. s[1] = q[1]
    BY <2>1, <2>2, <1>7, <1>11 DEF Quals
  <2>4. \A i \in 1 .. Len(s) : i # 1 => s[i] = q[i]
    <3> SUFFICES ASSUME NEW i \in 1 .. Len(s), i # 1 PROVE s[i] = t[i]
      BY <1>7, <2>1
    <3>1. i - 1 \in 1 .. Len(t) - 1 /\ i = (i - 1) + 1
      BY <1>0, <2>1
    <3>2. Inner(s)[i - 1] = s[i] /\ Inner(t)[i - 1] = t[i]
      BY <3>1, <2>1, InnerScalar
    <3> QED BY <3>2, <1>11
  <2> QED BY <2>1, <2>2, <2>3, <2>4, <1>6, SeqEqual
<1> QED BY <1>7, <1>8, <1>9, <1>10, <1>11 DEF Quals

\* Compatible scalar types differ in the qualifiers of the outermost level only.
LEMMA CompatibleScalar ==
  ASSUME NEW s \in ScalarTypes, NEW t \in ScalarTypes, Compatible(s, t, TRUE)
  PROVE  Inner(s) = Inner(t)
<1>1. /\ s \in Seq(Levels) /\ Len(s) \in Nat \ {0} /\ DOMAIN s = 1 .. Len(s)
      /\ \A i \in 1 .. Len(s) : s[i] \in Levels
      /\ t \in Seq(Levels) /\ \A i \in 1 .. Len(t) : t[i] \in Levels
  BY ScalarShape
<1>2. SameLevels(s, t, TRUE)
  BY DEF Compatible
<1>3. Len(s) = Len(t)
  BY <1>2 DEF SameLevels
<1>4. ASSUME NEW i \in 1 .. Len(s), i > 1
      PROVE  s[i] = t[i]
  <2>1. s[i].kind = t[i].kind
    BY <1>1, <1>2 DEF SameLevels, SameLevel
  <2>2. i - 1 \in 1 .. Len(s)
    BY <1>1, <1>4
  <2>3. s[i - 1].kind # "FUNCTION"
    BY <1>1, <2>2, LevelShape
  <2>4. s[i].quals = t[i].quals
    BY <1>1, <1>2, <1>4, <2>3 DEF SameLevels
  <2>5. s[i] = Level(s[i].kind, s[i].quals) /\ t[i] = Level(t[i].kind, t[i].quals)
    BY <1>1, <1>3, LevelShape
  <2> QED BY <2>1, <2>4, <2>5
<1>5. \A i \in 1 .. Len(Inner(s)) : Inner(s)[i] = Inner(t)[i]
  <2> SUFFICES ASSUME NEW i \in 1 .. Len(s) - 1 PROVE Inner(s)[i] = Inner(t)[i]
    BY InnerScalar
  <2>1. i + 1 \in 1 .. Len(s) /\ i + 1 > 1
    BY <1>1
  <2> QED BY <2>1, <1>3, <1>4, InnerScalar
<1> QED BY <1>3, <1>5, InnerScalar, SeqEqual

\* A pointer to a scalar type is one.
LEMMA PointerScalar ==
  ASSUME NEW t \in ScalarTypes
  PROVE  PtrTo(t) \in ScalarTypes /\ IsPointer(PtrTo(t)) /\ Inner(PtrTo(t)) = t
<1> DEFINE top == Level("POINTER", {})
           p == PtrTo(t)
<1>1. /\ t \in Seq(Levels) /\ Len(t) \in Nat \ {0}
      /\ \A i \in 1 .. Len(t) : t[i] \in Levels /\ (t[i].kind = "INT" <=> i = Len(t))
  BY ScalarShape
<1>2. top \in Levels
  BY DEF Levels
<1>3. top.kind = "POINTER"
  BY DEF Level
<1> HIDE DEF top
<1>4. p = <<top>> \o t
  BY DEF PtrTo, top
<1> HIDE DEF p
<1>5. p \in Seq(Levels) /\ Len(p) = Len(t) + 1 /\ p[1] = top
  BY <1>1, <1>2, <1>4
<1>6. \A i \in 1 .. Len(t) : p[i + 1] = t[i]
  BY <1>1, <1>2, <1>4
<1>7. \A i \in 1 .. Len(p) : p[i].kind = "INT" <=> i = Len(p)
  <2> SUFFICES ASSUME NEW i \in 1 .. Len(p) PROVE p[i].kind = "INT" <=> i = Len(p)
    OBVIOUS
  <2>1. CASE i = 1
    BY <2>1, <1>1, <1>3, <1>5
  <2>2. CASE i > 1
    <3>1. i - 1 \in 1 .. Len(t) /\ i = (i - 1) + 1
      BY <2>2, <1>1, <1>5
    <3>2. p[i] = t[i - 1]
      BY <3>1, <1>6
    <3> QED BY <3>1, <3>2, <1>1, <1>5
  <2> QED BY <2>1, <2>2, <1>1, <1>5
<1>8. p \in ScalarTypes /\ IsPointer(p)
  <2>1. DOMAIN p = 1 .. Len(p) /\ Len(p) > 0
    BY <1>1, <1>5
  <2> QED BY <2>1, <1>3, <1>5, <1>7 DEF ScalarTypes, IsPointer, Kind
<1>9. Inner(p) = t
  <2>1. /\ Inner(p) \in Seq(Levels) /\ Len(Inner(p)) = Len(p) - 1
        /\ \A i \in 1 .. Len(p) - 1 : Inner(p)[i] = p[i + 1]
    BY <1>8, InnerScalar
  <2> QED BY <2>1, <1>1, <1>5, <1>6, SeqEqual
<1> QED BY <1>8, <1>9 DEF p

\* No scalar type is void.
LEMMA NoVoid ==
  ASSUME NEW s \in ScalarTypes, NEW t \in ScalarTypes
  PROVE  ~VoidMeets(s, t) /\ ~IsVoid(s)
BY ScalarShape, LevelShape DEF VoidMeets, IsVoid, Kind

-----------------------------------------------------------------------------
(* Operands.                                                                  *)

\* The declared types are scalar ones.
LEMMA DeclaredScalar ==
  ASSUME NEW o \in Objects
  PROVE  Declared[o] \in ScalarTypes /\ o # Null
BY ObjectTypes

\* A type with the same inner type points to what the other points to.
LEMMA PointsToSame ==
  ASSUME NEW s \in ScalarTypes, NEW t \in ScalarTypes, Inner(s) = Inner(t),
         NEW o, PointsTo(t, o)
  PROVE  PointsTo(s, o)
BY SameKind DEF PointsTo

\* A pointer whose pointee is qualified further points to the same.
LEMMA PointsToFurther ==
  ASSUME NEW s \in ScalarTypes, NEW t \in ScalarTypes, IsPointer(s),
         NEW o, PointsTo(t, o),
         IsPointer(t) => /\ Inner(Inner(s)) = Inner(Inner(t))
                         /\ Quals(Inner(t)) \subseteq Quals(Inner(s))
  PROVE  PointsTo(s, o)
BY DEF PointsTo, Fits

\* Reading an lvalue keeps it sound.
LEMMA ValueSound ==
  ASSUME MemorySound, NEW x, Sound(x)
  PROVE  /\ Sound(Value(x)) /\ ~Value(x).lvalue
         /\ Inner(Value(x).type) = Inner(x.type)
         /\ IsPointer(Value(x).type) <=> IsPointer(x.type)
<1>1. x \in Results
  BY DEF Sound
<1>2. CASE ~x.lvalue
  BY <1>2 DEF Value
<1>3. CASE x.lvalue
  <2> DEFINE v == Result(Unqualified(x.type), FALSE, memory[x.at])
  <2>1. Value(x) = v
    BY <1>3 DEF Value
  <2>2. x.type \in ScalarTypes /\ x.at \in Objects /\ Inner(x.type) = Inner(Declared[x.at])
    BY <1>1, <1>3 DEF Sound, Fits, Results
  <2>3. Unqualified(x.type) \in ScalarTypes /\ Inner(Unqualified(x.type)) = Inner(x.type)
    BY <2>2, QualifiedScalar DEF Unqualified
  <2>4. memory[x.at] \in Objects \cup {Null} /\ PointsTo(Declared[x.at], memory[x.at])
    BY <2>2 DEF MemorySound
  <2>5. PointsTo(Unqualified(x.type), memory[x.at])
    BY <2>2, <2>3, <2>4, DeclaredScalar, PointsToSame
  <2>6. /\ v.type = Unqualified(x.type) /\ v.lvalue = FALSE /\ v.at = memory[x.at] /\ v.zero = FALSE
        /\ v \in Results
    BY <2>3, <2>4 DEF Result, Results
  <2>7. Sound(v)
    BY <2>5, <2>6 DEF Sound
  <2>8. IsPointer(Unqualified(x.type)) <=> IsPointer(x.type)
    BY <2>2, <2>3, SameKind
  <2> QED BY <2>1, <2>3, <2>6, <2>7, <2>8
<1> QED BY <1>2, <1>3

\* What is converted to a type points to what that type may point to.
LEMMA ConvertedSound ==
  ASSUME MemorySound, NEW x, Sound(x), NEW to \in ScalarTypes, Converts(to, x)
  PROVE  PointsTo(to, Value(x).at) /\ Value(x).at \in Objects \cup {Null}
<1> DEFINE v == Value(x)
           u == Unqualified(to)
<1>1. Sound(v) /\ ~v.lvalue
  BY ValueSound
<1>2. v.type \in ScalarTypes /\ v.at \in Objects \cup {Null} /\ PointsTo(v.type, v.at)
  BY <1>1 DEF Sound, Results
<1>3. u \in ScalarTypes /\ Inner(u) = Inner(to)
  BY QualifiedScalar DEF Unqualified
<1> HIDE DEF v, u
<1>4. PointsTo(u, v.at)
  <2>1. CASE Compatible(u, v.type, TRUE)
    BY <2>1, <1>2, <1>3, CompatibleScalar, PointsToSame
  <2>2. CASE x.zero
    <3>1. ~x.lvalue /\ x.at = Null
      BY <2>2 DEF Sound
    <3>2. v.at = Null
      BY <3>1 DEF v, Value
    <3> QED BY <3>2 DEF PointsTo
  <2>3. CASE PointerConvertible(u, v.type)
    <3>1. /\ IsPointer(u) /\ IsPointer(v.type)
          /\ Quals(Inner(v.type)) \subseteq Quals(Inner(u))
      BY <2>3 DEF PointerConvertible
    <3>2. Inner(u) \in ScalarTypes /\ Inner(v.type) \in ScalarTypes
      BY <3>1, <1>2, <1>3, InnerScalar
    <3>3. Compatible(Inner(u), Inner(v.type), TRUE)
      BY <2>3, <3>2, NoVoid DEF PointerConvertible
    <3>4. Inner(Inner(u)) = Inner(Inner(v.type))
      BY <3>2, <3>3, CompatibleScalar
    <3> QED BY <3>1, <3>4, <1>2, <1>3, PointsToFurther
  <2> QED BY <2>1, <2>2, <2>3 DEF Converts, u, v
<1> QED BY <1>2, <1>3, <1>4, PointsToSame DEF v

\* An arm of ?: points to what the common type may point to.
LEMMA CommonSound ==
  ASSUME NEW x, Sound(x), ~x.lvalue, NEW y, Sound(y), ~y.lvalue,
         CommonType(x, y) # NoType, NEW arm \in {x, y}
  PROVE  /\ CommonType(x, y) \in ScalarTypes /\ PointsTo(CommonType(x, y), arm.at)
         /\ arm.at \in Objects \cup {Null}
<1>1. /\ x.type \in ScalarTypes /\ PointsTo(x.type, x.at) /\ x.at \in Objects \cup {Null}
      /\ y.type \in ScalarTypes /\ PointsTo(y.type, y.at) /\ y.at \in Objects \cup {Null}
      /\ x.zero => x.at = Null /\ ~IsPointer(x.type)
      /\ y.zero => y.at = Null /\ ~IsPointer(y.type)
  BY DEF Sound, Results
<1>2. CASE IsPointer(x.type) /\ y.zero
  <2>1. CommonType(x, y) = x.type
    BY <1>1, <1>2, Zenon DEF CommonType
  <2> QED BY <1>1, <1>2, <2>1 DEF PointsTo
<1>3. CASE IsPointer(y.type) /\ x.zero
  <2>1. CommonType(x, y) = y.type
    BY <1>1, <1>3, Zenon DEF CommonType
  <2> QED BY <1>1, <1>3, <2>1 DEF PointsTo
<1>4. CASE /\ ~(IsPointer(x.type) /\ y.zero) /\ ~(IsPointer(y.type) /\ x.zero)
           /\ IsPointer(x.type) /\ IsPointer(y.type)
  <2> DEFINE p == Inner(x.type)
             q == Inner(y.type)
             both == Qualified(p, Quals(p) \cup Quals(q))
  <2>1. CommonType(x, y) = CommonPointer(x.type, y.type, TRUE)
    BY <1>4 DEF CommonType
  <2>2. p \in ScalarTypes /\ q \in ScalarTypes
    BY <1>1, <1>4, InnerScalar
  <2>3. ~VoidMeets(p, q) /\ ~IsVoid(q)
    BY <2>2, NoVoid
  <2>4. Compatible(p, q, TRUE) /\ CommonType(x, y) = PtrTo(both)
    BY <2>1, <2>3, Zenon DEF CommonPointer
  <2>5. Inner(p) = Inner(q)
    BY <2>2, <2>4, CompatibleScalar
  <2>6. Quals(p) \in SUBSET Both /\ Quals(q) \in SUBSET Both
    BY <2>2, ScalarShape, LevelShape DEF Quals
  <2>7. both \in ScalarTypes /\ Quals(both) = Quals(p) \cup Quals(q) /\ Inner(both) = Inner(p)
    <3>1. Quals(p) \cup Quals(q) \in SUBSET Both
      BY <2>6
    <3> QED BY <3>1, <2>2, QualifiedScalar
  <2> HIDE DEF both
  <2>8. PtrTo(both) \in ScalarTypes /\ IsPointer(PtrTo(both)) /\ Inner(PtrTo(both)) = both
    BY <2>7, PointerScalar
  <2>9. PointsTo(PtrTo(both), x.at) /\ PointsTo(PtrTo(both), y.at)
    BY <1>1, <2>5, <2>7, <2>8, PointsToFurther
  <2> QED BY <1>1, <2>4, <2>8, <2>9
<1>5. CASE /\ ~(IsPointer(x.type) /\ y.zero) /\ ~(IsPointer(y.type) /\ x.zero)
           /\ ~(IsPointer(x.type) /\ IsPointer(y.type))
  <2>1. CommonType(x, y) = NoType
    BY <1>5, Zenon DEF CommonType
  <2> QED BY <2>1
<1> QED BY <1>2, <1>3, <1>4, <1>5

-----------------------------------------------------------------------------
(* The specification.                                                         *)

LEMMA InitSound == ObjectInit => ObjectsInv
<1> SUFFICES ASSUME ObjectInit PROVE ObjectsInv
  OBVIOUS
<1>1. MemorySound
  BY DEF ObjectInit, MemorySound, PointsTo
<1>2. OperandsSound
  BY DEF ObjectInit, OperandsSound
<1> QED BY <1>1, <1>2 DEF ObjectsInv

\* The operand on top is sound, and one that replaces it may be any sound one.
LEMMA TopSound ==
  ASSUME OperandsSound, operands # <<>>
  PROVE  Sound(Top) /\ Len(operands) \in DOMAIN operands
BY DEF OperandsSound, Top

LEMMA BecomeSound ==
  ASSUME ObjectsInv, operands # <<>>, NEW x, Sound(x), Become(x)
  PROVE  ObjectsInv'
<1>1. operands \in Seq(Results) /\ (\A i \in DOMAIN operands : Sound(operands[i])) /\ x \in Results
  BY DEF ObjectsInv, OperandsSound, Sound
<1>2. operands' = [operands EXCEPT ![Len(operands)] = x] /\ memory' = memory
  BY DEF Become
<1>3. operands' \in Seq(Results) /\ DOMAIN operands' = DOMAIN operands
  BY <1>1, <1>2
<1>4. \A i \in DOMAIN operands' : operands'[i] = x \/ operands'[i] = operands[i]
  BY <1>1, <1>2
<1>5. \A i \in DOMAIN operands' : Sound(operands'[i])
  BY <1>1, <1>3, <1>4
<1> QED BY <1>2, <1>3, <1>5 DEF ObjectsInv, MemorySound, OperandsSound

LEMMA TakeSound ==
  ASSUME ObjectsInv, NEW x, Sound(x), Take(x)
  PROVE  ObjectsInv'
<1>1. operands \in Seq(Results) /\ (\A i \in DOMAIN operands : Sound(operands[i])) /\ x \in Results
  BY DEF ObjectsInv, OperandsSound, Sound
<1>2. operands' = Append(operands, x) /\ memory' = memory
  BY DEF Take
<1>3. operands' \in Seq(Results) /\ DOMAIN operands' = 1 .. Len(operands) + 1
  BY <1>1, <1>2
<1>4. \A i \in DOMAIN operands' : operands'[i] = x \/ (i \in DOMAIN operands /\ operands'[i] = operands[i])
  BY <1>1, <1>2, <1>3
<1>5. \A i \in DOMAIN operands' : Sound(operands'[i])
  BY <1>1, <1>4
<1> QED BY <1>2, <1>3, <1>5 DEF ObjectsInv, MemorySound, OperandsSound

\* Storing in an object, through whatever type it is designated.
LEMMA StoreSound ==
  ASSUME ObjectsInv, NEW o \in Objects, NEW x, PointsTo(Declared[o], x), x \in Objects \cup {Null},
         memory' = [memory EXCEPT ![o] = x], operands' = <<>>
  PROVE  ObjectsInv'
<1>1. /\ memory \in [Objects -> Objects \cup {Null}]
      /\ \A u \in Objects : PointsTo(Declared[u], memory[u])
  BY DEF ObjectsInv, MemorySound
<1>2. memory' \in [Objects -> Objects \cup {Null}]
  BY <1>1
<1>3. \A u \in Objects : memory'[u] = IF u = o THEN x ELSE memory[u]
  BY <1>1
<1>4. \A u \in Objects : PointsTo(Declared[u], memory'[u])
  BY <1>1, <1>3
<1>5. operands' \in Seq(Results) /\ DOMAIN operands' = {}
  OBVIOUS
<1> QED BY <1>2, <1>4, <1>5 DEF ObjectsInv, MemorySound, OperandsSound

LEMMA NextSound == ObjectsInv /\ [ObjectNext]_objectVars => ObjectsInv'
<1> SUFFICES ASSUME ObjectsInv, [ObjectNext]_objectVars PROVE ObjectsInv'
  OBVIOUS
<1>1. MemorySound /\ OperandsSound
  BY DEF ObjectsInv
<1>2. ASSUME NEW o \in Objects PROVE Sound(Designated(o))
  BY DeclaredScalar DEF Sound, Designated, Result, Results, Fits
<1>3. Sound(Zero)
  <2>1. <<Level("INT", {})>> \in ScalarTypes /\ ~IsPointer(<<Level("INT", {})>>)
    <3>1. Level("INT", {}) \in Levels
      BY DEF Levels
    <3>2. Level("INT", {}).kind = "INT"
      BY DEF Level
    <3> QED BY <3>1, <3>2 DEF ScalarTypes, IsPointer, Kind
  <2> QED BY <2>1 DEF Sound, Zero, Results, PointsTo
<1>4. ASSUME NEW o \in Objects, Take(Designated(o)) PROVE ObjectsInv'
  BY <1>2, <1>4, TakeSound
<1>5. CASE Take(Zero)
  BY <1>3, <1>5, TakeSound
<1>6. ASSUME NEW o \in Objects, Choose(o) PROVE ObjectsInv'
  <2> DEFINE x == Value(Top)
             y == Value(Designated(o))
  <2>1. operands # <<>> /\ CommonType(x, y) # NoType
    BY <1>6 DEF Choose
  <2>2. PICK arm \in {x, y} : Become(Result(CommonType(x, y), FALSE, arm.at))
    BY <1>6 DEF Choose
  <2>3. Sound(x) /\ ~x.lvalue /\ Sound(y) /\ ~y.lvalue
    BY <1>1, <1>2, <2>1, TopSound, ValueSound
  <2> HIDE DEF x, y
  <2>4. /\ CommonType(x, y) \in ScalarTypes /\ PointsTo(CommonType(x, y), arm.at)
        /\ arm.at \in Objects \cup {Null}
    BY <2>1, <2>3, CommonSound
  <2>5. Sound(Result(CommonType(x, y), FALSE, arm.at))
    BY <2>4 DEF Sound, Result, Results
  <2> QED BY <2>1, <2>2, <2>5, BecomeSound
<1>7. ASSUME NEW o \in Objects, Initialize(o) PROVE ObjectsInv'
  <2>1. /\ operands # <<>> /\ Converts(Declared[o], Top)
        /\ memory' = [memory EXCEPT ![o] = Value(Top).at] /\ operands' = <<>>
    BY <1>7 DEF Initialize
  <2>2. PointsTo(Declared[o], Value(Top).at) /\ Value(Top).at \in Objects \cup {Null}
    BY <1>1, <2>1, TopSound, DeclaredScalar, ConvertedSound
  <2> QED BY <2>1, <2>2, StoreSound
<1>8. CASE AddressOf
  <2>1. operands # <<>> /\ Top.lvalue /\ Become(Result(PtrTo(Top.type), FALSE, Top.at))
    BY <1>8 DEF AddressOf
  <2>2. Top.type \in ScalarTypes /\ Fits(Top.type, Top.at) /\ Top.at \in Objects
    BY <1>1, <2>1, TopSound DEF Sound, Results, Fits
  <2>3. PtrTo(Top.type) \in ScalarTypes /\ PointsTo(PtrTo(Top.type), Top.at)
    BY <2>2, PointerScalar DEF PointsTo
  <2>4. Sound(Result(PtrTo(Top.type), FALSE, Top.at))
    BY <2>2, <2>3 DEF Sound, Result, Results
  <2> QED BY <2>1, <2>4, BecomeSound
<1>9. CASE Dereference
  <2> DEFINE v == Value(Top)
  <2>1. /\ operands # <<>> /\ IsPointer(Top.type) /\ v.at # Null
        /\ Become(Result(Inner(Top.type), TRUE, v.at))
    BY <1>9 DEF Dereference
  <2>2. Sound(Top) /\ Sound(v) /\ ~v.lvalue /\ Inner(v.type) = Inner(Top.type)
    BY <1>1, <2>1, TopSound, ValueSound
  <2> HIDE DEF v
  <2>3. Fits(Inner(Top.type), v.at) /\ v.at \in Objects
    BY <2>1, <2>2 DEF Sound, PointsTo, Fits
  <2>4. Inner(Top.type) \in ScalarTypes
    BY <2>1, <2>2, InnerScalar DEF Sound, Results
  <2>5. Sound(Result(Inner(Top.type), TRUE, v.at))
    BY <2>3, <2>4 DEF Sound, Result, Results
  <2> QED BY <2>1, <2>5, BecomeSound
<1>10. CASE Store
  <2> DEFINE left == operands[1]
  <2>1. /\ Len(operands) = 2 /\ left.lvalue /\ Converts(left.type, Top)
        /\ memory' = [memory EXCEPT ![left.at] = Value(Top).at] /\ operands' = <<>>
    BY <1>10 DEF Store, Modifiable
  <2>2. operands # <<>> /\ Sound(left)
    <3>1. operands \in Seq(Results) /\ Len(operands) = 2
      BY <1>1, <2>1 DEF OperandsSound
    <3>2. 1 \in DOMAIN operands /\ operands # <<>>
      BY <3>1
    <3> QED BY <3>2, <1>1 DEF OperandsSound
  <2>3. /\ left.type \in ScalarTypes /\ left.at \in Objects
        /\ Inner(left.type) = Inner(Declared[left.at])
    BY <2>1, <2>2 DEF Sound, Results, Fits
  <2> HIDE DEF left
  <2>4. PointsTo(left.type, Value(Top).at) /\ Value(Top).at \in Objects \cup {Null}
    BY <1>1, <2>1, <2>2, <2>3, TopSound, ConvertedSound
  <2>5. PointsTo(Declared[left.at], Value(Top).at)
    BY <2>3, <2>4, DeclaredScalar, PointsToSame
  <2> QED BY <2>1, <2>3, <2>4, <2>5, StoreSound
<1>11. CASE UNCHANGED objectVars
  BY <1>1, <1>11 DEF objectVars, ObjectsInv, MemorySound, OperandsSound
<1> QED BY <1>4, <1>5, <1>6, <1>7, <1>8, <1>9, <1>10, <1>11 DEF ObjectNext

\* What is sound keeps the qualifiers.
LEMMA SoundKeeps == ObjectsInv => QualifiersAreKept
<1> SUFFICES ASSUME ObjectsInv, NEW i \in DOMAIN operands, operands[i].lvalue
             PROVE  /\ operands[i].type = Qualified(Declared[operands[i].at], Quals(operands[i].type))
                    /\ Quals(Declared[operands[i].at]) \subseteq Quals(operands[i].type)
  BY DEF QualifiersAreKept
<1> DEFINE x == operands[i]
<1>1. x.type \in ScalarTypes /\ Fits(x.type, x.at)
  BY DEF ObjectsInv, OperandsSound, Sound, Results
<1> HIDE DEF x
<1>2. Declared[x.at] \in ScalarTypes /\ Inner(x.type) = Inner(Declared[x.at])
  BY <1>1, DeclaredScalar DEF Fits
<1>3. Quals(x.type) \in SUBSET Both
  BY <1>1, ScalarShape, LevelShape DEF Quals
<1>4. x.type = Qualified(Declared[x.at], Quals(x.type))
  BY <1>1, <1>2, <1>3, QualifiedScalar
<1> QED BY <1>1, <1>4 DEF x, Fits

\* The state keeps its types, for any objects.
THEOREM TypesAreKept == ObjectSpec => [](memory \in [Objects -> Objects \cup {Null}] /\ operands \in Seq(Results))
<1>1. ObjectsInv => memory \in [Objects -> Objects \cup {Null}] /\ operands \in Seq(Results)
  BY DEF ObjectsInv, MemorySound, OperandsSound
<1> QED BY InitSound, NextSound, <1>1, PTL DEF ObjectSpec

\* Whatever objects a program declares, and however it assigns their addresses
\* to each other, an lvalue Sema accepts has the declared type of the object it
\* designates and at least its qualifiers (convert, pointerConvertible,
\* commonPointer).
THEOREM KeepsQualifiers == ObjectSpec => []QualifiersAreKept
BY InitSound, NextSound, SoundKeeps, PTL DEF ObjectSpec

\* So no assignment and no initializer stores in an object declared const but
\* its own initializer.
THEOREM ConstIsNeverAssigned ==
  ObjectSpec => [][Store => "const" \notin Quals(Declared[operands[1].at])]_objectVars
<1>1. ObjectsInv /\ Store => "const" \notin Quals(Declared[operands[1].at])
  <2> SUFFICES ASSUME ObjectsInv, Store PROVE "const" \notin Quals(Declared[operands[1].at])
    OBVIOUS
  <2>1. Len(operands) = 2 /\ Modifiable(operands[1])
    BY DEF Store
  <2>2. 1 \in DOMAIN operands
    BY <2>1 DEF ObjectsInv, OperandsSound
  <2>3. Fits(operands[1].type, operands[1].at)
    BY <2>1, <2>2 DEF ObjectsInv, OperandsSound, Sound, Modifiable
  <2> QED BY <2>1, <2>3 DEF Fits, Modifiable
<1> QED BY InitSound, NextSound, <1>1, PTL DEF ObjectSpec

-----------------------------------------------------------------------------
(* Expressions with pointers, of any operands and operators.                   *)

\* A level of a type, by its fields.
Made(k, q, n, g, p, v, a) ==
  [kind |-> k, quals |-> q, size |-> n, tag |-> g, proto |-> p, variadic |-> v, params |-> a]

Requalified_(x, q) == [x EXCEPT !.quals = q]

LEMMA MadeFields ==
  ASSUME NEW k, NEW q, NEW n, NEW g, NEW p, NEW v, NEW a
  PROVE  /\ Made(k, q, n, g, p, v, a).kind = k /\ Made(k, q, n, g, p, v, a).quals = q
         /\ Made(k, q, n, g, p, v, a).size = n /\ Made(k, q, n, g, p, v, a).tag = g
         /\ Made(k, q, n, g, p, v, a).proto = p /\ Made(k, q, n, g, p, v, a).variadic = v
         /\ Made(k, q, n, g, p, v, a).params = a
BY DEF Made

LEMMA Remade ==
  ASSUME NEW k, NEW q, NEW n, NEW g, NEW p, NEW v, NEW a, NEW r
  PROVE  [Made(k, q, n, g, p, v, a) EXCEPT !.quals = r] = Made(k, r, n, g, p, v, a)
BY DEF Made

LEMMA PlainMade ==
  \E yes, no, empty : \A k, q : P!Level(k, q) = Made(k, q, -1, "", yes, no, empty)
<1>1. PICK yes, no, empty : yes = TRUE /\ no = FALSE /\ empty = <<>>
  BY Zenon
<1>2. \A k, q : P!Level(k, q) = Made(k, q, -1, "", yes, no, empty)
  BY <1>1, Zenon DEF P!Level, Made
<1> QED BY <1>2, Zenon

LEMMA LevelMade ==
  ASSUME NEW x, P!ProperLevel(x)
  PROVE  /\ x = Made(x.kind, x.quals, x.size, x.tag, x.proto, x.variadic, x.params)
         /\ x.quals \subseteq P!Qualifiers
         /\ x.kind \in ArithmeticKinds \cup {"VOID", "POINTER", "STRUCT", "ARRAY", "FUNCTION"}
         /\ x.kind \in {"ARRAY", "FUNCTION"} => x.quals = {}
         /\ x.kind # "ARRAY" => x.size = -1
         /\ x.kind = "ARRAY" => x.size \in Nat \ {0}
         /\ x.kind = "FUNCTION" => P!IsSequence(x.params)
<1>1. PICK yes, no, empty : \A k, q : P!Level(k, q) = Made(k, q, -1, "", yes, no, empty)
  BY PlainMade, Zenon
<1>2. x.quals \subseteq P!Qualifiers
  BY DEF P!ProperLevel
<1>0. P!ArithmeticKinds = ArithmeticKinds
  BY DEF P!ArithmeticKinds, ArithmeticKinds, P!Integral, Integral, P!Signed, Signed, P!Unsigned, Unsigned, P!Floating, Floating
<1>3. CASE x.kind \in ArithmeticKinds \cup {"VOID", "POINTER"} /\ x = P!Level(x.kind, x.quals)
  <2>1. PICK k, q : k = x.kind /\ q = x.quals
    OBVIOUS
  <2>2. x = Made(k, q, -1, "", yes, no, empty)
    BY <1>1, <1>3, <2>1, Zenon
  <2>3. /\ x.kind = k /\ x.quals = q /\ x.size = -1 /\ x.tag = "" /\ x.proto = yes
        /\ x.variadic = no /\ x.params = empty
    BY <2>2 DEF Made
  <2>4. k \notin {"ARRAY", "FUNCTION"}
    BY <1>3, <2>1 DEF ArithmeticKinds, Integral, Signed, Unsigned, Floating
  <2>5. x = Made(x.kind, x.quals, x.size, x.tag, x.proto, x.variadic, x.params)
    BY <2>2, <2>3, Zenon
  <2> QED BY <1>2, <1>3, <2>1, <2>5, <2>3, <2>4
<1>4. CASE x.kind = "STRUCT" /\ x = [P!Level("STRUCT", x.quals) EXCEPT !.tag = x.tag]
  <2>1. PICK g, q : g = x.tag /\ q = x.quals
    OBVIOUS
  <2>2. x = [Made("STRUCT", q, -1, "", yes, no, empty) EXCEPT !.tag = g]
    BY <1>1, <1>4, <2>1, Zenon
  <2>3. x = Made("STRUCT", q, -1, g, yes, no, empty)
    BY <2>2 DEF Made
  <2>4. /\ x.kind = "STRUCT" /\ x.quals = q /\ x.size = -1 /\ x.tag = g /\ x.proto = yes
        /\ x.variadic = no /\ x.params = empty
    BY <2>3 DEF Made
  <2>5. x = Made(x.kind, x.quals, x.size, x.tag, x.proto, x.variadic, x.params)
    BY <2>3, <2>4, Zenon
  <2> QED BY <1>2, <1>4, <2>4, <2>5
<1>5. CASE /\ x.kind = "ARRAY" /\ x = [P!Level("ARRAY", {}) EXCEPT !.size = x.size]
           /\ x.size \in Nat \ {0}
  <2>1. PICK n : n = x.size
    OBVIOUS
  <2>2. x = [Made("ARRAY", {}, -1, "", yes, no, empty) EXCEPT !.size = n]
    BY <1>1, <1>5, <2>1, Zenon
  <2>3. x = Made("ARRAY", {}, n, "", yes, no, empty)
    BY <2>2 DEF Made
  <2>4. /\ x.kind = "ARRAY" /\ x.quals = {} /\ x.size = n /\ x.tag = "" /\ x.proto = yes
        /\ x.variadic = no /\ x.params = empty
    BY <2>3 DEF Made
  <2>5. x = Made(x.kind, x.quals, x.size, x.tag, x.proto, x.variadic, x.params)
    BY <2>3, <2>4, Zenon
  <2> QED BY <1>2, <1>5, <2>4, <2>5
<1>6. CASE /\ x.kind = "FUNCTION"
           /\ x = [P!Level("FUNCTION", {}) EXCEPT !.proto = x.proto, !.variadic = x.variadic, !.params = x.params]
           /\ P!IsSequence(x.params)
  <2>1. PICK p, v, a : p = x.proto /\ v = x.variadic /\ a = x.params
    OBVIOUS
  <2>2. PICK k, q, n, g : k = "FUNCTION" /\ q = {} /\ n = -1 /\ g = ""
    OBVIOUS
  <2>3. x = [Made(k, q, n, g, yes, no, empty) EXCEPT !.proto = p, !.variadic = v, !.params = a]
    BY <1>1, <1>6, <2>1, <2>2, Zenon
  <2>4. x = Made(k, q, n, g, p, v, a)
    <3>1. [Made(k, q, n, g, yes, no, empty) EXCEPT !.proto = p] = Made(k, q, n, g, p, no, empty)
      BY DEF Made
    <3>2. [Made(k, q, n, g, p, no, empty) EXCEPT !.variadic = v] = Made(k, q, n, g, p, v, empty)
      BY DEF Made
    <3>3. [Made(k, q, n, g, p, v, empty) EXCEPT !.params = a] = Made(k, q, n, g, p, v, a)
      BY DEF Made
    <3> QED BY <2>3, <3>1, <3>2, <3>3, Zenon
  <2>5. /\ x.kind = k /\ x.quals = q /\ x.size = n /\ x.tag = g /\ x.proto = p
        /\ x.variadic = v /\ x.params = a
    BY <2>4 DEF Made
  <2>6. x = Made(x.kind, x.quals, x.size, x.tag, x.proto, x.variadic, x.params)
    BY <2>4, <2>5, Zenon
  <2> QED BY <1>2, <1>6, <2>2, <2>5, <2>6
<1> QED BY <1>0, <1>3, <1>4, <1>5, <1>6, Zenon DEF P!ProperLevel

\* Levels that agree but for qualifiers.
LEMMA LevelSame ==
  ASSUME NEW x, P!ProperLevel(x), NEW y, P!ProperLevel(y), P!SameLevel(x, y)
  PROVE  /\ x.kind = y.kind
         /\ x.kind # "FUNCTION" /\ x.quals = y.quals => x = y
<1>1. x.kind = y.kind /\ x.tag = y.tag
  BY DEF P!SameLevel
<1>2. SUFFICES ASSUME x.kind # "FUNCTION", x.quals = y.quals PROVE x = y
  BY <1>1
<1>3. CASE x.kind \in P!ArithmeticKinds \cup {"VOID", "POINTER"}
  <2>1. x.kind \notin {"STRUCT", "ARRAY", "FUNCTION"}
    BY <1>3 DEF P!ArithmeticKinds, P!Integral, P!Signed, P!Unsigned, P!Floating
  <2>2. x = P!Level(x.kind, x.quals) /\ y = P!Level(y.kind, y.quals)
    BY <2>1, <1>1, Zenon DEF P!ProperLevel
  <2> QED BY <2>2, <1>1, <1>2, Zenon
<1>4. CASE x.kind = "STRUCT"
  <2>1. x.kind \notin P!ArithmeticKinds \cup {"VOID", "POINTER", "ARRAY", "FUNCTION"}
    BY <1>4 DEF P!ArithmeticKinds, P!Integral, P!Signed, P!Unsigned, P!Floating
  <2>2. /\ x = [P!Level("STRUCT", x.quals) EXCEPT !.tag = x.tag]
        /\ y = [P!Level("STRUCT", y.quals) EXCEPT !.tag = y.tag]
    BY <2>1, <1>1, Zenon DEF P!ProperLevel
  <2> QED BY <2>2, <1>1, <1>2, Zenon
<1>5. CASE x.kind = "ARRAY"
  <2>1. x.kind \notin P!ArithmeticKinds \cup {"VOID", "POINTER", "STRUCT", "FUNCTION"}
    BY <1>5 DEF P!ArithmeticKinds, P!Integral, P!Signed, P!Unsigned, P!Floating
  <2>2. /\ x = [P!Level("ARRAY", {}) EXCEPT !.size = x.size]
        /\ y = [P!Level("ARRAY", {}) EXCEPT !.size = y.size]
    BY <2>1, <1>1, Zenon DEF P!ProperLevel
  <2>3. x.size \in Nat \ {0} /\ y.size \in Nat \ {0}
    BY <1>1, <1>5, LevelMade
  <2>4. x.size < 0 \/ y.size < 0 \/ x.size = y.size
    BY DEF P!SameLevel
  <2>5. x.size = y.size
    BY <2>3, <2>4
  <2> QED BY <2>2, <2>5, Zenon
<1> QED BY <1>2, <1>3, <1>4, <1>5, Zenon DEF P!ProperLevel

\* A level with other qualifiers.
LEMMA LevelRequalified ==
  ASSUME NEW x, P!ProperLevel(x), NEW q
  PROVE  /\ Requalified_(x, q).quals = q /\ Requalified_(x, q).kind = x.kind
         /\ Requalified_(x, q).tag = x.tag /\ Requalified_(x, q).size = x.size
         /\ \A r : Requalified_(Requalified_(x, q), r) = Requalified_(x, r)
         /\ Requalified_(x, x.quals) = x
         /\ q \subseteq P!Qualifiers /\ x.kind \notin {"ARRAY", "FUNCTION"}
              => P!ProperLevel(Requalified_(x, q))
<1>1. PICK k, o, n, g, p, v, a : x = Made(k, o, n, g, p, v, a)
  <2>1. x = Made(x.kind, x.quals, x.size, x.tag, x.proto, x.variadic, x.params)
    BY LevelMade
  <2> QED BY <2>1, Zenon
<1>2. k = x.kind /\ o = x.quals /\ g = x.tag /\ n = x.size
  BY <1>1 DEF Made
<1> DEFINE y == Made(k, q, n, g, p, v, a)
<1>3. [x EXCEPT !.quals = q] = y
  BY <1>1 DEF Made
<1>4. y.kind = k /\ y.quals = q /\ y.tag = g /\ y.size = n
  BY DEF Made
<1>5. \A r : [y EXCEPT !.quals = r] = Made(k, r, n, g, p, v, a)
  BY Remade
<1>6. \A r : [x EXCEPT !.quals = r] = Made(k, r, n, g, p, v, a)
  BY <1>1 DEF Made
<1>7. ASSUME q \subseteq P!Qualifiers, x.kind \notin {"ARRAY", "FUNCTION"}
      PROVE  P!ProperLevel(y)
  <2>1. PICK yes, no, empty : \A i, j : P!Level(i, j) = Made(i, j, -1, "", yes, no, empty)
    BY PlainMade, Zenon
  <2>2. CASE x.kind \in P!ArithmeticKinds \cup {"VOID", "POINTER"} /\ x = P!Level(x.kind, x.quals)
    <3>0. PICK m, e : m = -1 /\ e = ""
      OBVIOUS
    <3>1. x = Made(k, o, m, e, yes, no, empty)
      BY <2>1, <2>2, <1>2, <3>0, Zenon
    <3>2. [x EXCEPT !.quals = q] = Made(k, q, m, e, yes, no, empty)
      BY <3>1 DEF Made
    <3>4. P!Level(k, q) = Made(k, q, m, e, yes, no, empty)
      BY <2>1, <3>0, Zenon
    <3>3. y = P!Level(y.kind, y.quals)
      BY <3>2, <3>4, <1>3, <1>4, Zenon
    <3> QED BY <3>3, <1>2, <1>4, <1>7, <2>2, Zenon DEF P!ProperLevel
  <2>3. CASE x.kind = "STRUCT" /\ x = [P!Level("STRUCT", x.quals) EXCEPT !.tag = x.tag]
    <3>0. PICK m, e : m = -1 /\ e = ""
      OBVIOUS
    <3>1. x = [Made(k, o, m, e, yes, no, empty) EXCEPT !.tag = g]
      BY <2>1, <2>3, <1>2, <3>0, Zenon
    <3>2. x = Made(k, o, m, g, yes, no, empty)
      BY <3>1 DEF Made
    <3>3. [x EXCEPT !.quals = q] = Made(k, q, m, g, yes, no, empty)
      BY <3>2 DEF Made
    <3>4. [Made(k, q, m, e, yes, no, empty) EXCEPT !.tag = g] = Made(k, q, m, g, yes, no, empty)
      BY DEF Made
    <3>6. P!Level("STRUCT", q) = Made(k, q, m, e, yes, no, empty)
      BY <2>1, <2>3, <3>0, <1>2, Zenon
    <3>5. y = [P!Level("STRUCT", y.quals) EXCEPT !.tag = y.tag]
      BY <3>3, <3>4, <3>6, <1>3, <1>4, Zenon
    <3> QED BY <3>5, <1>2, <1>4, <1>7, <2>3, Zenon DEF P!ProperLevel
  <2> QED BY <2>2, <2>3, <1>7 DEF P!ProperLevel
<1> HIDE DEF y
<1> QED BY <1>1, <1>2, <1>3, <1>4, <1>5, <1>6, <1>7, Zenon DEF Requalified_

-----------------------------------------------------------------------------
(* Types.  What is supposed of the operands is that KnownTypes has their types  *)
(* and those of functions' parameters; a type is tidy if it is made as C makes  *)
(* types and the functions in it are among those.                               *)

Assumed == P!Conventional(KnownTypes)
Tidy(t) == /\ P!ProperType(t)
           /\ \A i \in DOMAIN t : t[i].kind = "FUNCTION" => SubSeq(t, i, Len(t)) \in P!FunctionTypes(KnownTypes)
With(t, q) == [t EXCEPT ![1].quals = q]

LEMMA SequenceIs ==
  ASSUME NEW s, P!IsSequence(s)
  PROVE  /\ Len(s) \in Nat /\ DOMAIN s = 1 .. Len(s)
         /\ s \in Seq({s[i] : i \in DOMAIN s})
<1> DEFINE S == {s[i] : i \in DOMAIN s}
<1>1. s \in Seq(S)
  BY DEF P!IsSequence
<1> HIDE DEF S
<1>2. Len(s) \in Nat /\ DOMAIN s = 1 .. Len(s)
  BY <1>1
<1> QED BY <1>1, <1>2 DEF S

LEMMA IsSequenceOf ==
  ASSUME NEW S, NEW s \in Seq(S)
  PROVE  P!IsSequence(s)
<1> DEFINE R == {s[i] : i \in DOMAIN s}
<1>1. Len(s) \in Nat /\ DOMAIN s = 1 .. Len(s) /\ s = [i \in 1 .. Len(s) |-> s[i]]
  OBVIOUS
<1>2. \A i \in 1 .. Len(s) : s[i] \in R
  BY <1>1
<1> HIDE DEF R
<1>3. s \in [1 .. Len(s) -> R]
  BY <1>1, <1>2
<1>4. s \in Seq(R)
  BY <1>1, <1>3
<1> QED BY <1>4 DEF P!IsSequence, R

LEMMA TidyShape ==
  ASSUME NEW t, Tidy(t)
  PROVE  /\ Len(t) \in Nat \ {0} /\ DOMAIN t = 1 .. Len(t) /\ t # <<>> /\ 1 \in 1 .. Len(t)
         /\ t \in Seq({t[i] : i \in DOMAIN t})
         /\ \A i \in 1 .. Len(t) : P!ProperLevel(t[i]) /\ (t[i].kind \in P!Derived <=> i < Len(t))
         /\ \A i \in 1 .. Len(t) - 1 :
              /\ t[i].kind = "ARRAY" => t[i + 1].kind \notin {"VOID", "FUNCTION", "STRUCT"}
              /\ t[i].kind = "FUNCTION" => t[i + 1].kind \notin {"ARRAY", "FUNCTION"} /\ t[i + 1].quals = {}
         /\ \A i \in 1 .. Len(t) : t[i].kind = "FUNCTION" => SubSeq(t, i, Len(t)) \in P!FunctionTypes(KnownTypes)
<1>1. P!IsSequence(t) /\ t # <<>>
  BY DEF Tidy, P!ProperType
<1>2. Len(t) \in Nat /\ DOMAIN t = 1 .. Len(t) /\ t \in Seq({t[i] : i \in DOMAIN t})
  BY <1>1, SequenceIs
<1>3. Len(t) # 0
  <2> DEFINE S == {t[i] : i \in DOMAIN t}
  <2>1. t \in Seq(S)
    BY <1>2
  <2> HIDE DEF S
  <2> QED BY <2>1, <1>1, EmptySeq
<1> QED BY <1>1, <1>2, <1>3 DEF Tidy, P!ProperType

LEMMA KnownTidy ==
  ASSUME Assumed, NEW t \in KnownTypes
  PROVE  Tidy(t)
<1>1. P!ProperType(t)
  BY DEF Assumed, P!Conventional
<1>2. ASSUME NEW i \in DOMAIN t, t[i].kind = "FUNCTION"
      PROVE  SubSeq(t, i, Len(t)) \in P!FunctionTypes(KnownTypes)
  <2>1. i \in {j \in DOMAIN t : t[j].kind = "FUNCTION"}
    BY <1>2
  <2> QED BY <2>1 DEF P!FunctionTypes
<1> QED BY <1>1, <1>2 DEF Tidy

\* Facts about sequences, with the elements hidden.
LEMMA TailOf ==
  ASSUME NEW S, NEW s \in Seq(S), s # <<>>
  PROVE  /\ Tail(s) \in Seq(S) /\ Len(Tail(s)) = Len(s) - 1 /\ Len(s) \in Nat \ {0}
         /\ DOMAIN Tail(s) = 1 .. Len(s) - 1
         /\ \A i \in 1 .. Len(s) - 1 : Tail(s)[i] = s[i + 1]
         /\ \A i \in 1 .. Len(s) - 1 : SubSeq(Tail(s), i, Len(s) - 1) = SubSeq(s, i + 1, Len(s))
<1>1. /\ Tail(s) \in Seq(S) /\ Len(Tail(s)) = Len(s) - 1 /\ Len(s) \in Nat \ {0}
      /\ DOMAIN Tail(s) = 1 .. Len(s) - 1
      /\ \A i \in 1 .. Len(s) - 1 : Tail(s)[i] = s[i + 1]
  BY HeadTailProperties, EmptySeq
<1>2. ASSUME NEW i \in 1 .. Len(s) - 1
      PROVE  SubSeq(Tail(s), i, Len(s) - 1) = SubSeq(s, i + 1, Len(s))
  <2> DEFINE n == Len(s)
             u == Tail(s)
  <2>1. SubSeq(u, i, n - 1) = [j \in 1 .. (n - 1) - i + 1 |-> u[i + j - 1]]
    OBVIOUS
  <2>2. SubSeq(s, i + 1, n) = [j \in 1 .. n - (i + 1) + 1 |-> s[(i + 1) + j - 1]]
    OBVIOUS
  <2>3. n \in Nat /\ (n - 1) - i + 1 = n - i /\ n - (i + 1) + 1 = n - i
    BY <1>1
  <2>4. \A j \in 1 .. n - i : u[i + j - 1] = s[(i + 1) + j - 1]
    <3> SUFFICES ASSUME NEW j \in 1 .. n - i PROVE u[i + j - 1] = s[(i + 1) + j - 1]
      OBVIOUS
    <3>1. i + j - 1 \in 1 .. n - 1 /\ (i + j - 1) + 1 = (i + 1) + j - 1
      BY <2>3
    <3> QED BY <3>1, <1>1
  <2> HIDE DEF n, u
  <2> QED BY <2>1, <2>2, <2>3, <2>4 DEF n, u
<1> QED BY <1>1, <1>2

LEMMA ConsOf ==
  ASSUME NEW S, NEW s \in Seq(S), NEW x \in S
  PROVE  /\ <<x>> \o s \in Seq(S) /\ Len(<<x>> \o s) = Len(s) + 1 /\ Len(s) \in Nat
         /\ (<<x>> \o s)[1] = x
         /\ \A i \in 1 .. Len(s) : (<<x>> \o s)[i + 1] = s[i]
         /\ <<x>> \o s # <<>> /\ Tail(<<x>> \o s) = s
         /\ \A i \in 1 .. Len(s) : SubSeq(<<x>> \o s, i + 1, Len(s) + 1) = SubSeq(s, i, Len(s))
<1> DEFINE u == <<x>> \o s
<1>1. /\ u \in Seq(S) /\ Len(u) = Len(s) + 1 /\ Len(s) \in Nat /\ u[1] = x
      /\ \A i \in 1 .. Len(s) : u[i + 1] = s[i]
  OBVIOUS
<1>2. u # <<>>
  BY <1>1, EmptySeq
<1> HIDE DEF u
<1>3. /\ Tail(u) \in Seq(S) /\ Len(Tail(u)) = Len(s)
      /\ \A i \in 1 .. Len(s) : Tail(u)[i] = u[i + 1]
      /\ \A i \in 1 .. Len(s) : SubSeq(Tail(u), i, Len(s)) = SubSeq(u, i + 1, Len(s) + 1)
  <2>1. Len(u) - 1 = Len(s)
    BY <1>1
  <2> QED BY <1>1, <1>2, <2>1, TailOf
<1>4. Tail(u) = s
  BY <1>1, <1>3, SeqEqual
<1> QED BY <1>1, <1>2, <1>3, <1>4 DEF u

-----------------------------------------------------------------------------
\* What a type is derived from is a type.
LEMMA InnerTidy ==
  ASSUME NEW t, Tidy(t), P!Kind(t) \in P!Derived
  PROVE  /\ Tidy(P!Inner(t)) /\ Len(P!Inner(t)) = Len(t) - 1
         /\ \A i \in 1 .. Len(t) - 1 : P!Inner(t)[i] = t[i + 1]
         /\ P!Kind(t) = "ARRAY" => P!Kind(P!Inner(t)) \notin {"VOID", "FUNCTION", "STRUCT"}
         /\ P!Kind(t) = "FUNCTION" => /\ P!Kind(P!Inner(t)) \notin {"ARRAY", "FUNCTION"}
                                      /\ P!Quals(P!Inner(t)) = {}
<1> DEFINE S == {t[i] : i \in DOMAIN t}
           u == Tail(t)
<1>0. P!Inner(t) = u
  BY DEF P!Inner
<1>1. /\ Len(t) \in Nat \ {0} /\ DOMAIN t = 1 .. Len(t) /\ t # <<>> /\ 1 \in 1 .. Len(t)
      /\ t \in Seq(S)
      /\ \A i \in 1 .. Len(t) : P!ProperLevel(t[i]) /\ (t[i].kind \in P!Derived <=> i < Len(t))
      /\ \A i \in 1 .. Len(t) - 1 :
           /\ t[i].kind = "ARRAY" => t[i + 1].kind \notin {"VOID", "FUNCTION", "STRUCT"}
           /\ t[i].kind = "FUNCTION" => t[i + 1].kind \notin {"ARRAY", "FUNCTION"} /\ t[i + 1].quals = {}
      /\ \A i \in 1 .. Len(t) : t[i].kind = "FUNCTION" => SubSeq(t, i, Len(t)) \in P!FunctionTypes(KnownTypes)
  BY TidyShape
<1> HIDE DEF S, u
<1>2. /\ u \in Seq(S) /\ Len(u) = Len(t) - 1 /\ DOMAIN u = 1 .. Len(t) - 1
      /\ \A i \in 1 .. Len(t) - 1 : u[i] = t[i + 1]
      /\ \A i \in 1 .. Len(t) - 1 : SubSeq(u, i, Len(t) - 1) = SubSeq(t, i + 1, Len(t))
  BY <1>1, TailOf DEF u
<1>3. 1 < Len(t)
  BY <1>1 DEF P!Kind
<1>4. P!IsSequence(u) /\ u # <<>>
  <2>1. Len(u) # 0
    BY <1>1, <1>2, <1>3
  <2> QED BY <2>1, <1>2, IsSequenceOf
<1>5. ASSUME NEW i \in 1 .. Len(t) - 1
      PROVE  /\ P!ProperLevel(u[i]) /\ (u[i].kind \in P!Derived <=> i < Len(u))
             /\ u[i].kind = "FUNCTION" => SubSeq(u, i, Len(u)) \in P!FunctionTypes(KnownTypes)
  <2>1. i + 1 \in 1 .. Len(t) /\ (i + 1 < Len(t) <=> i < Len(t) - 1)
    BY <1>1
  <2>2. u[i] = t[i + 1] /\ SubSeq(u, i, Len(t) - 1) = SubSeq(t, i + 1, Len(t))
    BY <1>2
  <2> QED BY <2>1, <2>2, <1>1, <1>2
<1>6. ASSUME NEW i \in 1 .. Len(u) - 1
      PROVE  /\ u[i].kind = "ARRAY" => u[i + 1].kind \notin {"VOID", "FUNCTION", "STRUCT"}
             /\ u[i].kind = "FUNCTION" => u[i + 1].kind \notin {"ARRAY", "FUNCTION"} /\ u[i + 1].quals = {}
  <2>1. i + 1 \in 1 .. Len(t) - 1 /\ i \in 1 .. Len(t) - 1
    BY <1>1, <1>2
  <2>2. u[i] = t[i + 1] /\ u[i + 1] = t[(i + 1) + 1]
    BY <2>1, <1>2
  <2> QED BY <2>1, <2>2, <1>1
<1>7. P!ProperType(u)
  BY <1>2, <1>4, <1>5, <1>6 DEF P!ProperType
<1>8. Tidy(u)
  BY <1>2, <1>5, <1>7 DEF Tidy
<1>9. u[1] = t[1 + 1] /\ 1 \in 1 .. Len(t) - 1
  BY <1>1, <1>2, <1>3
<1> QED BY <1>0, <1>1, <1>2, <1>8, <1>9 DEF P!Kind, P!Quals

LEMMA PointerLevel ==
  /\ P!ProperLevel(P!Level("POINTER", {})) /\ P!Level("POINTER", {}).kind = "POINTER"
  /\ P!Level("POINTER", {}).quals = {}
<1>1. P!Level("POINTER", {}).kind = "POINTER" /\ P!Level("POINTER", {}).quals = {}
  BY DEF P!Level
<1> QED BY <1>1 DEF P!ProperLevel

\* Pointers.
LEMMA PointerTidy ==
  ASSUME NEW t, Tidy(t)
  PROVE  /\ Tidy(P!PtrTo(t)) /\ P!Kind(P!PtrTo(t)) = "POINTER" /\ P!Quals(P!PtrTo(t)) = {}
         /\ P!Inner(P!PtrTo(t)) = t
<1> DEFINE top == P!Level("POINTER", {})
           R == {t[i] : i \in DOMAIN t}
           S == R \cup {top}
           n == Len(t)
           u == <<top>> \o t
<1>0. P!PtrTo(t) = u
  BY DEF P!PtrTo
<1>1. /\ n \in Nat \ {0} /\ DOMAIN t = 1 .. n /\ t # <<>> /\ 1 \in 1 .. n
      /\ t \in Seq(R)
      /\ \A i \in 1 .. n : P!ProperLevel(t[i]) /\ (t[i].kind \in P!Derived <=> i < n)
      /\ \A i \in 1 .. n - 1 :
           /\ t[i].kind = "ARRAY" => t[i + 1].kind \notin {"VOID", "FUNCTION", "STRUCT"}
           /\ t[i].kind = "FUNCTION" => t[i + 1].kind \notin {"ARRAY", "FUNCTION"} /\ t[i + 1].quals = {}
      /\ \A i \in 1 .. n : t[i].kind = "FUNCTION" => SubSeq(t, i, n) \in P!FunctionTypes(KnownTypes)
  BY TidyShape
<1>2. P!ProperLevel(top) /\ top.kind = "POINTER" /\ top.quals = {}
  BY PointerLevel
<1> HIDE DEF top, R
<1>3. t \in Seq(S) /\ top \in S
  BY <1>1
<1> HIDE DEF S
<1>4. /\ u \in Seq(S) /\ Len(u) = n + 1 /\ u[1] = top /\ \A i \in 1 .. n : u[i + 1] = t[i]
      /\ u # <<>> /\ Tail(u) = t
      /\ \A i \in 1 .. n : SubSeq(u, i + 1, n + 1) = SubSeq(t, i, n)
  BY <1>3, ConsOf
<1> HIDE DEF u, n
<1>5. DOMAIN u = 1 .. n + 1 /\ P!IsSequence(u)
  BY <1>4, IsSequenceOf
<1>6. ASSUME NEW i \in 1 .. n + 1
      PROVE  /\ P!ProperLevel(u[i]) /\ (u[i].kind \in P!Derived <=> i < n + 1)
             /\ u[i].kind = "FUNCTION" => SubSeq(u, i, n + 1) \in P!FunctionTypes(KnownTypes)
  <2>1. CASE i = 1
    <3>1. u[i].kind = "POINTER" /\ 1 < n + 1
      BY <2>1, <1>1, <1>2, <1>4
    <3> QED BY <3>1, <2>1, <1>2, <1>4 DEF P!Derived
  <2>2. CASE i # 1
    <3>1. i - 1 \in 1 .. n /\ (i - 1) + 1 = i /\ (i - 1 < n <=> i < n + 1)
      BY <2>2, <1>1
    <3>2. u[i] = t[i - 1] /\ SubSeq(u, i, n + 1) = SubSeq(t, i - 1, n)
      BY <3>1, <1>4
    <3> QED BY <3>1, <3>2, <1>1
  <2> QED BY <2>1, <2>2
<1>7. ASSUME NEW i \in 1 .. n
      PROVE  /\ u[i].kind = "ARRAY" => u[i + 1].kind \notin {"VOID", "FUNCTION", "STRUCT"}
             /\ u[i].kind = "FUNCTION" => u[i + 1].kind \notin {"ARRAY", "FUNCTION"} /\ u[i + 1].quals = {}
  <2>1. CASE i = 1
    BY <2>1, <1>2, <1>4
  <2>2. CASE i # 1
    <3>1. i - 1 \in 1 .. n - 1 /\ (i - 1) + 1 = i /\ i - 1 \in 1 .. n
      BY <2>2, <1>1
    <3>2. u[i] = t[i - 1] /\ u[i + 1] = t[i]
      BY <3>1, <1>4
    <3> QED BY <3>1, <3>2, <1>1
  <2> QED BY <2>1, <2>2
<1>8. P!ProperType(u)
  <2>1. Len(u) - 1 = n
    BY <1>1, <1>4
  <2> QED BY <2>1, <1>4, <1>5, <1>6, <1>7 DEF P!ProperType
<1>9. Tidy(u)
  BY <1>4, <1>5, <1>6, <1>8 DEF Tidy
<1> QED BY <1>0, <1>2, <1>4, <1>9 DEF P!Kind, P!Quals, P!Inner

\* Two types are equal if their outermost levels are and they are derived from
\* the same.
LEMMA SameType ==
  ASSUME NEW s, Tidy(s), NEW t, Tidy(t), Len(s) = Len(t), s[1] = t[1],
         \A i \in 1 .. Len(t) : i # 1 => s[i] = t[i]
  PROVE  s = t
<1> DEFINE S == {s[i] : i \in DOMAIN s} \cup {t[i] : i \in DOMAIN t}
<1>1. s \in Seq(S) /\ t \in Seq(S)
  BY TidyShape
<1> HIDE DEF S
<1>2. \A i \in 1 .. Len(s) : s[i] = t[i]
  OBVIOUS
<1> QED BY <1>1, <1>2, SeqEqual

\* A type whose outermost level is qualified otherwise.
LEMMA WithTidy ==
  ASSUME NEW t, Tidy(t), NEW q
  PROVE  /\ With(t, q)[1] = Requalified_(t[1], q) /\ Len(With(t, q)) = Len(t)
         /\ \A i \in 1 .. Len(t) : i # 1 => With(t, q)[i] = t[i]
         /\ P!Kind(With(t, q)) = P!Kind(t) /\ P!Quals(With(t, q)) = q
         /\ With(t, P!Quals(t)) = t
         /\ q \subseteq P!Qualifiers /\ P!Kind(t) \notin {"ARRAY", "FUNCTION"} => Tidy(With(t, q))
<1> DEFINE R == {t[i] : i \in DOMAIN t}
           y == Requalified_(t[1], q)
           S == R \cup {y}
           n == Len(t)
           u == With(t, q)
<1>1. /\ n \in Nat \ {0} /\ DOMAIN t = 1 .. n /\ t # <<>> /\ 1 \in 1 .. n
      /\ t \in Seq(R)
      /\ \A i \in 1 .. n : P!ProperLevel(t[i]) /\ (t[i].kind \in P!Derived <=> i < n)
      /\ \A i \in 1 .. n - 1 :
           /\ t[i].kind = "ARRAY" => t[i + 1].kind \notin {"VOID", "FUNCTION", "STRUCT"}
           /\ t[i].kind = "FUNCTION" => t[i + 1].kind \notin {"ARRAY", "FUNCTION"} /\ t[i + 1].quals = {}
      /\ \A i \in 1 .. n : t[i].kind = "FUNCTION" => SubSeq(t, i, n) \in P!FunctionTypes(KnownTypes)
  BY TidyShape
<1>2. /\ y.quals = q /\ y.kind = t[1].kind /\ Requalified_(t[1], t[1].quals) = t[1]
      /\ q \subseteq P!Qualifiers /\ t[1].kind \notin {"ARRAY", "FUNCTION"} => P!ProperLevel(y)
  BY <1>1, LevelRequalified
<1> HIDE DEF R, n
<1>3. t = [i \in 1 .. n |-> t[i]]
  BY <1>1
<1>4. u = [i \in 1 .. n |-> IF i = 1 THEN y ELSE t[i]]
  BY <1>1, <1>3 DEF With, Requalified_
<1> HIDE DEF y
<1>5. u[1] = y /\ \A i \in 1 .. n : i # 1 => u[i] = t[i]
  BY <1>1, <1>4
<1>6. u \in Seq(S) /\ Len(u) = n /\ DOMAIN u = 1 .. n
  <2>1. \A i \in 1 .. n : u[i] \in S
    BY <1>1, <1>5 DEF R
  <2> HIDE DEF S, u
  <2>2. u \in [1 .. n -> S]
    BY <1>4, <2>1
  <2> QED BY <2>2, <1>1
<1>7. With(t, P!Quals(t)) = t
  <2> DEFINE v == With(t, t[1].quals)
  <2>1. v = [i \in 1 .. n |-> IF i = 1 THEN Requalified_(t[1], t[1].quals) ELSE t[i]]
    BY <1>1, <1>3 DEF With, Requalified_
  <2>2. v = [i \in 1 .. n |-> t[i]]
    BY <2>1, <1>2
  <2> QED BY <2>2, <1>3 DEF P!Quals
<1>9. t \in Seq(S) /\ Len(t) = n
  BY <1>1 DEF n
<1> HIDE DEF S, u
<1>8. ASSUME q \subseteq P!Qualifiers, t[1].kind \notin {"ARRAY", "FUNCTION"}
      PROVE  Tidy(u)
  <2>1. P!IsSequence(u) /\ u # <<>>
    BY <1>1, <1>6, IsSequenceOf, EmptySeq
  <2>2. ASSUME NEW i \in 1 .. n
        PROVE  /\ P!ProperLevel(u[i]) /\ (u[i].kind \in P!Derived <=> i < n)
               /\ u[i].kind = "FUNCTION" => SubSeq(u, i, n) \in P!FunctionTypes(KnownTypes)
    <3>1. CASE i = 1
      BY <3>1, <1>1, <1>2, <1>5, <1>8
    <3>2. CASE i # 1
      <4>1. SubSeq(u, i, n) = SubSeq(t, i, n)
        <5> DEFINE a == SubSeq(u, i, n)
                   b == SubSeq(t, i, n)
        <5>1. i \in 1 .. n + 1 /\ n \in i - 1 .. n
          BY <1>1
        <5>2. /\ a \in Seq(S) /\ Len(a) = n - i + 1
              /\ \A j \in 1 .. n - i + 1 : a[j] = u[i + j - 1]
          BY <5>1, <1>6, SubSeqProperties
        <5>3. /\ b \in Seq(S) /\ Len(b) = n - i + 1
              /\ \A j \in 1 .. n - i + 1 : b[j] = t[i + j - 1]
          BY <5>1, <1>9, SubSeqProperties
        <5>4. \A j \in 1 .. n - i + 1 : i + j - 1 \in 1 .. n /\ i + j - 1 # 1
          BY <3>2, <1>1
        <5> HIDE DEF a, b
        <5>5. \A j \in 1 .. Len(a) : a[j] = b[j]
          BY <5>2, <5>3, <5>4, <1>5
        <5>6. a = b
          BY <5>2, <5>3, <5>5, SeqEqual
        <5> QED BY <5>6 DEF a, b
      <4> QED BY <4>1, <3>2, <1>1, <1>5
    <3> QED BY <3>1, <3>2
  <2>3. ASSUME NEW i \in 1 .. n - 1
        PROVE  /\ u[i].kind = "ARRAY" => u[i + 1].kind \notin {"VOID", "FUNCTION", "STRUCT"}
               /\ u[i].kind = "FUNCTION" => u[i + 1].kind \notin {"ARRAY", "FUNCTION"} /\ u[i + 1].quals = {}
    <3>1. i + 1 \in 1 .. n /\ i + 1 # 1 /\ i \in 1 .. n
      BY <1>1
    <3> QED BY <3>1, <1>1, <1>2, <1>5, <1>8
  <2>4. P!ProperType(u)
    BY <1>6, <2>1, <2>2, <2>3 DEF P!ProperType
  <2> QED BY <2>2, <2>4, <1>6 DEF Tidy
<1> QED BY <1>1, <1>2, <1>5, <1>6, <1>7, <1>8 DEF P!Kind, P!Quals, y, u, n

\* Qualifying twice is qualifying once.
LEMMA WithTwice ==
  ASSUME NEW t, Tidy(t), NEW q, NEW r
  PROVE  With(With(t, q), r) = With(t, r)
<1> DEFINE n == Len(t)
           y == Requalified_(t[1], q)
           u == With(t, q)
<1>1. n \in Nat \ {0} /\ DOMAIN t = 1 .. n /\ 1 \in 1 .. n /\ P!ProperLevel(t[1])
  BY TidyShape
<1>2. Requalified_(y, r) = Requalified_(t[1], r)
  BY <1>1, LevelRequalified
<1> HIDE DEF n, y
<1>3. u = [i \in 1 .. n |-> IF i = 1 THEN y ELSE t[i]]
  BY <1>1 DEF With, Requalified_, y
<1>4. With(u, r) = [i \in 1 .. n |-> IF i = 1 THEN Requalified_(y, r) ELSE t[i]]
  BY <1>1, <1>3 DEF With, Requalified_
<1>5. With(t, r) = [i \in 1 .. n |-> IF i = 1 THEN Requalified_(t[1], r) ELSE t[i]]
  BY <1>1 DEF With, Requalified_
<1> QED BY <1>2, <1>4, <1>5

\* Requalifying a type as Sema does it.
LEMMA QualifiedIs ==
  ASSUME NEW t, Tidy(t), NEW q, P!Kind(t) # "ARRAY" \/ q = {}
  PROVE  P!Qualified(t, q) = With(t, q)
<1> DEFINE n == Len(t)
           u == P!Qualified(t, q)
<1>1. /\ n \in Nat \ {0} /\ DOMAIN t = 1 .. n /\ 1 \in 1 .. n
      /\ \A i \in 1 .. n : P!ProperLevel(t[i])
  BY TidyShape
<1> HIDE DEF n
<1>2. With(t, q) = [i \in 1 .. n |-> IF i = 1 THEN Requalified_(t[1], q) ELSE t[i]]
  BY <1>1 DEF With, Requalified_
<1>3. u = [i \in 1 .. n |-> IF i = 1 THEN Requalified_(t[1], q)
                            ELSE IF \A j \in 1 .. i - 1 : t[j].kind = "ARRAY"
                            THEN Requalified_(t[i], t[i].quals \cup q) ELSE t[i]]
  BY <1>1 DEF P!Qualified, Requalified_
<1> HIDE DEF u
<1>4. ASSUME NEW i \in 1 .. n, i # 1
      PROVE  (IF \A j \in 1 .. i - 1 : t[j].kind = "ARRAY"
              THEN Requalified_(t[i], t[i].quals \cup q) ELSE t[i]) = t[i]
  <2>1. CASE q = {}
    <3>1. Requalified_(t[i], t[i].quals) = t[i] /\ t[i].quals \cup q = t[i].quals
      BY <1>1, <2>1, LevelRequalified
    <3> QED BY <3>1, Zenon
  <2>2. CASE P!Kind(t) # "ARRAY"
    <3>1. 1 \in 1 .. i - 1 /\ t[1].kind # "ARRAY"
      BY <1>1, <1>4, <2>2 DEF P!Kind
    <3>2. ~ \A j \in 1 .. i - 1 : t[j].kind = "ARRAY"
      BY <3>1
    <3> QED BY <3>2, Zenon
  <2> QED BY <2>1, <2>2
<1>5. \A i \in 1 .. n : u[i] = With(t, q)[i]
  <2> SUFFICES ASSUME NEW i \in 1 .. n PROVE u[i] = With(t, q)[i]
    OBVIOUS
  <2>1. CASE i = 1
    BY <2>1, <1>2, <1>3
  <2>2. CASE i # 1
    BY <2>2, <1>2, <1>3, <1>4
  <2> QED BY <2>1, <2>2
<1>6. u = [i \in 1 .. n |-> u[i]] /\ With(t, q) = [i \in 1 .. n |-> With(t, q)[i]]
  <2>1. u = [i \in 1 .. n |-> u[i]]
    BY <1>3
  <2>2. With(t, q) = [i \in 1 .. n |-> With(t, q)[i]]
    BY <1>2
  <2> QED BY <2>1, <2>2
<1>7. u = With(t, q)
  BY <1>5, <1>6
<1> QED BY <1>7 DEF u

\* Types of one level.
LEMMA BasicTidy ==
  ASSUME NEW k \in P!ArithmeticKinds \cup {"VOID"}
  PROVE  /\ Tidy(P!Basic(k)) /\ P!Kind(P!Basic(k)) = k /\ P!Quals(P!Basic(k)) = {}
<1> DEFINE x == P!Level(k, {})
           u == <<x>>
<1>1. x.kind = k /\ x.quals = {}
  BY DEF P!Level
<1>2. k \notin P!Derived /\ k # "FUNCTION"
  BY DEF P!ArithmeticKinds, P!Integral, P!Signed, P!Unsigned, P!Floating, P!Derived
<1>3. P!ProperLevel(x)
  BY <1>1, Zenon DEF P!ProperLevel
<1> HIDE DEF x
<1>4. u \in Seq({x}) /\ Len(u) = 1 /\ DOMAIN u = 1 .. 1 /\ u[1] = x /\ u # <<>>
  OBVIOUS
<1> HIDE DEF u
<1>5. P!IsSequence(u)
  BY <1>4, IsSequenceOf
<1>6. P!ProperType(u)
  BY <1>1, <1>2, <1>3, <1>4, <1>5 DEF P!ProperType
<1>7. Tidy(u)
  BY <1>1, <1>2, <1>4, <1>6 DEF Tidy
<1> QED BY <1>1, <1>4, <1>7 DEF P!Basic, P!Kind, P!Quals, u, x

\* An arithmetic or void type is its outermost level.
LEMMA UnderivedIs ==
  ASSUME NEW t, Tidy(t), P!Kind(t) \in P!ArithmeticKinds \cup {"VOID"}, P!Quals(t) = {}
  PROVE  t = P!Basic(P!Kind(t))
<1>1. /\ Len(t) \in Nat \ {0} /\ 1 \in 1 .. Len(t)
      /\ P!ProperLevel(t[1]) /\ (t[1].kind \in P!Derived <=> 1 < Len(t))
  BY TidyShape
<1>2. t[1].kind \notin P!Derived \cup {"STRUCT"}
  BY DEF P!Kind, P!ArithmeticKinds, P!Integral, P!Signed, P!Unsigned, P!Floating, P!Derived
<1>3. Len(t) = 1
  <2>1. t[1].kind \notin P!Derived
    BY <1>2
  <2>2. ~(1 < Len(t))
    BY <1>1, <2>1, Zenon
  <2> QED BY <1>1, <2>2
<1>4. t[1] = P!Level(P!Kind(t), {})
  BY <1>1, <1>2, Zenon DEF P!ProperLevel, P!Kind, P!Quals, P!Derived
<1> DEFINE u == P!Basic(P!Kind(t))
<1>5. Tidy(u)
  BY BasicTidy
<1>6. Len(u) = 1 /\ u[1] = P!Level(P!Kind(t), {})
  BY DEF P!Basic
<1> HIDE DEF u
<1>7. t = u
  BY <1>3, <1>4, <1>5, <1>6, SameType
<1> QED BY <1>7 DEF u

\* A pointer is derived from what it points to.
LEMMA PointerIs ==
  ASSUME NEW t, Tidy(t), P!Kind(t) = "POINTER", P!Quals(t) = {}
  PROVE  t = P!PtrTo(P!Inner(t))
<1> DEFINE s == P!Inner(t)
           u == P!PtrTo(s)
           top == P!Level("POINTER", {})
<1>1. P!Kind(t) \in P!Derived
  BY DEF P!Derived
<1>2. Tidy(s) /\ Len(s) = Len(t) - 1 /\ \A i \in 1 .. Len(t) - 1 : s[i] = t[i + 1]
  BY <1>1, InnerTidy
<1> HIDE DEF s
<1>3. Tidy(u) /\ P!Kind(u) = "POINTER" /\ P!Quals(u) = {} /\ P!Inner(u) = s
  BY <1>2, PointerTidy
<1> HIDE DEF u
<1>4. Len(s) = Len(u) - 1 /\ \A i \in 1 .. Len(u) - 1 : s[i] = u[i + 1]
  BY <1>3, InnerTidy DEF P!Derived
<1>5. Len(t) \in Nat \ {0} /\ Len(u) \in Nat \ {0} /\ P!ProperLevel(t[1]) /\ P!ProperLevel(u[1])
  BY <1>3, TidyShape
<1>6. t[1] = P!Level("POINTER", {}) /\ u[1] = P!Level("POINTER", {})
  <2>1. "POINTER" \notin {"STRUCT", "ARRAY", "FUNCTION"}
    OBVIOUS
  <2> QED BY <2>1, <1>3, <1>5, Zenon DEF P!ProperLevel, P!Kind, P!Quals
<1>7. Len(t) = Len(u)
  BY <1>2, <1>4, <1>5
<1>8. \A i \in 1 .. Len(u) : i # 1 => t[i] = u[i]
  <2> SUFFICES ASSUME NEW i \in 1 .. Len(u), i # 1 PROVE t[i] = u[i]
    OBVIOUS
  <2>1. i - 1 \in 1 .. Len(t) - 1 /\ (i - 1) + 1 = i
    BY <1>5, <1>7
  <2> QED BY <2>1, <1>2, <1>4, <1>7
<1>9. t = u
  BY <1>3, <1>6, <1>7, <1>8, SameType
<1> QED BY <1>9 DEF u, s

-----------------------------------------------------------------------------
(* Compatible types are equal ones.                                           *)

\* Of two function types that occur, the one that is compatible is the same.
LEMMA OneFunctionType ==
  ASSUME Assumed, NEW f \in P!FunctionTypes(KnownTypes), NEW g \in P!FunctionTypes(KnownTypes),
         P!Compatible(f, g, TRUE)
  PROVE  f = g
BY DEF Assumed, P!Conventional

\* What is behind a level of compatible types is compatible.
LEMMA CompatibleBehind ==
  ASSUME NEW a, Tidy(a), NEW b, Tidy(b), P!Compatible(a, b, TRUE), NEW i \in 1 .. Len(a)
  PROVE  P!Compatible(SubSeq(a, i, Len(a)), SubSeq(b, i, Len(b)), TRUE)
<1> DEFINE R == {a[j] : j \in DOMAIN a}
           S == {b[j] : j \in DOMAIN b}
           n == Len(a)
           c == SubSeq(a, i, n)
           d == SubSeq(b, i, n)
<1>1. n \in Nat \ {0} /\ a \in Seq(R) /\ DOMAIN a = 1 .. n /\ b \in Seq(S)
  BY TidyShape
<1>2. Len(b) = n /\ P!SameLevels(a, b, TRUE)
  BY DEF P!Compatible, P!SameLevels
<1> HIDE DEF R, S
<1>3. /\ \A j \in 1 .. n : P!SameLevel(a[j], b[j])
      /\ \A j \in 1 .. n : j = 1 \/ (j > 1 /\ a[j - 1].kind = "FUNCTION") \/ a[j].quals = b[j].quals
      /\ \A j \in 1 .. n : a[j].kind = "FUNCTION" => P!SameParameters(a[j], b[j])
  BY <1>1, <1>2 DEF P!Compatible, P!SameLevels
<1>4. i \in 1 .. n + 1 /\ n \in i - 1 .. n /\ n - i + 1 \in Nat
  BY <1>1
<1>5. c \in Seq(R) /\ Len(c) = n - i + 1 /\ \A j \in 1 .. n - i + 1 : c[j] = a[i + j - 1]
  BY <1>1, <1>4, SubSeqProperties
<1>6. d \in Seq(S) /\ Len(d) = n - i + 1 /\ \A j \in 1 .. n - i + 1 : d[j] = b[i + j - 1]
  BY <1>1, <1>2, <1>4, SubSeqProperties
<1> HIDE DEF c, d, n
<1>7. DOMAIN c = 1 .. n - i + 1
  BY <1>4, <1>5
<1>8. ASSUME NEW j \in 1 .. n - i + 1
      PROVE  /\ P!SameLevel(c[j], d[j])
             /\ j = 1 \/ (j > 1 /\ c[j - 1].kind = "FUNCTION") \/ c[j].quals = d[j].quals
             /\ c[j].kind = "FUNCTION" => P!SameParameters(c[j], d[j])
  <2>1. i + j - 1 \in 1 .. n
    BY <1>1, <1>4
  <2>2. c[j] = a[i + j - 1] /\ d[j] = b[i + j - 1]
    BY <1>5, <1>6
  <2>3. CASE j = 1
    BY <2>1, <2>2, <2>3, <1>3
  <2>4. CASE j # 1
    <3>1. j - 1 \in 1 .. n - i + 1 /\ i + (j - 1) - 1 = (i + j - 1) - 1 /\ i + j - 1 # 1 /\ j > 1
      BY <2>4, <1>1, <1>4
    <3>2. c[j - 1] = a[(i + j - 1) - 1]
      BY <3>1, <1>5
    <3> QED BY <2>1, <2>2, <3>1, <3>2, <1>3
  <2> QED BY <2>3, <2>4
<1>9. P!SameLevels(c, d, TRUE)
  BY <1>5, <1>6, <1>7, <1>8 DEF P!SameLevels
<1> QED BY <1>2, <1>7, <1>8, <1>9 DEF P!Compatible, c, d, n

\* A level of compatible types is the same in both, but for the qualifiers of
\* the outermost one.
LEMMA CompatibleLevel ==
  ASSUME Assumed, NEW a, Tidy(a), NEW b, Tidy(b), P!Compatible(a, b, TRUE), NEW i \in 1 .. Len(a)
  PROVE  /\ Len(a) = Len(b) /\ a[i].kind = b[i].kind
         /\ i # 1 \/ a[i].quals = b[i].quals => a[i] = b[i]
<1> DEFINE n == Len(a)
<1>1. /\ n \in Nat \ {0} /\ DOMAIN a = 1 .. n /\ a \in Seq({a[j] : j \in DOMAIN a})
      /\ \A j \in 1 .. n : P!ProperLevel(a[j])
      /\ \A j \in 1 .. n - 1 : a[j].kind = "FUNCTION" => a[j + 1].quals = {}
      /\ \A j \in 1 .. n : a[j].kind = "FUNCTION" => SubSeq(a, j, n) \in P!FunctionTypes(KnownTypes)
  BY TidyShape
<1>2. Len(b) = n /\ P!SameLevels(a, b, TRUE)
  BY DEF P!Compatible, P!SameLevels
<1>3. /\ \A j \in 1 .. n : P!ProperLevel(b[j])
      /\ \A j \in 1 .. n - 1 : b[j].kind = "FUNCTION" => b[j + 1].quals = {}
      /\ \A j \in 1 .. n : b[j].kind = "FUNCTION" => SubSeq(b, j, n) \in P!FunctionTypes(KnownTypes)
      /\ b \in Seq({b[j] : j \in DOMAIN b})
  BY <1>2, TidyShape
<1> HIDE DEF n
<1>4. /\ \A j \in 1 .. n : P!SameLevel(a[j], b[j])
      /\ \A j \in 1 .. n : j = 1 \/ (j > 1 /\ a[j - 1].kind = "FUNCTION") \/ a[j].quals = b[j].quals
  BY <1>1, <1>2 DEF P!SameLevels
<1>5. \A j \in 1 .. n : a[j].kind = b[j].kind
  BY <1>1, <1>3, <1>4, LevelSame
<1>0. i \in 1 .. n
  BY DEF n
<1>6. CASE a[i].kind = "FUNCTION"
  <2> DEFINE c == SubSeq(a, i, n)
             d == SubSeq(b, i, n)
  <2>1. c \in P!FunctionTypes(KnownTypes) /\ d \in P!FunctionTypes(KnownTypes)
    BY <1>0, <1>1, <1>3, <1>5, <1>6
  <2>2. P!Compatible(c, d, TRUE)
    BY <1>0, <1>2, CompatibleBehind DEF n
  <2> HIDE DEF c, d
  <2>3. c = d
    BY <2>1, <2>2, OneFunctionType
  <2>4. c[1] = a[i] /\ d[1] = b[i]
    <3> DEFINE R == {a[j] : j \in DOMAIN a}
               S == {b[j] : j \in DOMAIN b}
    <3>1. a \in Seq(R) /\ b \in Seq(S) /\ Len(a) = n /\ Len(b) = n
      BY <1>1, <1>2, <1>3 DEF n
    <3> HIDE DEF R, S
    <3>2. i \in 1 .. n + 1 /\ n \in i - 1 .. n /\ 1 \in 1 .. n - i + 1 /\ i + 1 - 1 = i
      BY <1>0, <1>1
    <3>3. \A j \in 1 .. n - i + 1 : SubSeq(a, i, n)[j] = a[i + j - 1]
      BY <3>1, <3>2, SubSeqProperties
    <3>4. \A j \in 1 .. n - i + 1 : SubSeq(b, i, n)[j] = b[i + j - 1]
      BY <3>1, <3>2, SubSeqProperties
    <3> QED BY <3>2, <3>3, <3>4 DEF c, d
  <2> QED BY <2>3, <2>4, <1>0, <1>2, <1>5 DEF n
<1>7. CASE a[i].kind # "FUNCTION"
  <2>1. i # 1 => a[i].quals = b[i].quals
    <3> SUFFICES ASSUME i # 1 PROVE a[i].quals = b[i].quals
      OBVIOUS
    <3>1. i - 1 \in 1 .. n - 1 /\ (i - 1) + 1 = i /\ i - 1 \in 1 .. n
      BY <1>0, <1>1
    <3>2. CASE a[i - 1].kind = "FUNCTION"
      BY <3>1, <3>2, <1>1, <1>3, <1>5
    <3>3. CASE a[i - 1].kind # "FUNCTION"
      BY <3>1, <3>3, <1>0, <1>4
    <3> QED BY <3>2, <3>3
  <2> QED BY <2>1, <1>0, <1>1, <1>2, <1>3, <1>4, <1>7, LevelSame DEF n
<1> QED BY <1>6, <1>7

\* Compatible types are equal but for the qualifiers of the outermost level.
LEMMA CompatibleIs ==
  ASSUME Assumed, NEW a, Tidy(a), NEW b, Tidy(b)
  PROVE  P!Compatible(a, b, TRUE) <=> With(a, {}) = With(b, {})
<1> DEFINE n == Len(a)
           u == With(a, {})
           v == With(b, {})
<1>1. /\ n \in Nat \ {0} /\ DOMAIN a = 1 .. n /\ 1 \in 1 .. n
      /\ \A i \in 1 .. n : P!ProperLevel(a[i])
      /\ DOMAIN b = 1 .. Len(b) /\ Len(b) \in Nat /\ 1 \in 1 .. Len(b)
      /\ \A i \in 1 .. Len(b) : P!ProperLevel(b[i])
  BY TidyShape
<1>2. /\ u[1] = Requalified_(a[1], {}) /\ Len(u) = n /\ \A i \in 1 .. n : i # 1 => u[i] = a[i]
      /\ v[1] = Requalified_(b[1], {}) /\ Len(v) = Len(b) /\ \A i \in 1 .. Len(b) : i # 1 => v[i] = b[i]
  BY WithTidy DEF Requalified_
<1>3. u = [i \in 1 .. n |-> u[i]] /\ v = [i \in 1 .. Len(b) |-> v[i]]
  <2>1. u = [i \in 1 .. n |-> u[i]]
    BY <1>1 DEF With
  <2>2. v = [i \in 1 .. Len(b) |-> v[i]]
    BY <1>1 DEF With
  <2> QED BY <2>1, <2>2
<1>4. /\ Requalified_(a[1], {}).kind = a[1].kind /\ Requalified_(a[1], {}).tag = a[1].tag
      /\ Requalified_(a[1], {}).size = a[1].size /\ Requalified_(a[1], {}).quals = {}
      /\ Requalified_(a[1], a[1].quals) = a[1]
      /\ a[1].kind \notin {"ARRAY", "FUNCTION"} => P!ProperLevel(Requalified_(a[1], {}))
      /\ a[1].kind \in {"ARRAY", "FUNCTION"} => a[1].quals = {}
  BY <1>1, LevelRequalified, LevelMade
<1>5. /\ Requalified_(b[1], {}).kind = b[1].kind /\ Requalified_(b[1], {}).tag = b[1].tag
      /\ Requalified_(b[1], {}).size = b[1].size /\ Requalified_(b[1], {}).quals = {}
      /\ Requalified_(b[1], b[1].quals) = b[1]
      /\ b[1].kind \notin {"ARRAY", "FUNCTION"} => P!ProperLevel(Requalified_(b[1], {}))
      /\ b[1].kind \in {"ARRAY", "FUNCTION"} => b[1].quals = {}
  BY <1>1, LevelRequalified, LevelMade
<1> HIDE DEF n, u, v
<1>6. ASSUME P!Compatible(a, b, TRUE)
      PROVE  u = v
  <2>1. \A i \in 1 .. n : /\ n = Len(b) /\ a[i].kind = b[i].kind
                          /\ (i # 1 \/ a[i].quals = b[i].quals) => a[i] = b[i]
    BY <1>6, CompatibleLevel DEF n
  <2>2. u[1] = v[1]
    <3>1. CASE a[1].kind \in {"ARRAY", "FUNCTION"}
      BY <3>1, <2>1, <1>1, <1>2, <1>4, <1>5
    <3>2. CASE a[1].kind \notin {"ARRAY", "FUNCTION"}
      <4>1. a[1].kind = b[1].kind
        BY <2>1, <1>1
      <4>2. P!SameLevel(a[1], b[1])
        BY <1>6, <1>1 DEF P!Compatible, P!SameLevels
      <4> DEFINE x == Requalified_(a[1], {})
                 y == Requalified_(b[1], {})
      <4>3. /\ P!ProperLevel(x) /\ P!ProperLevel(y) /\ x.quals = y.quals /\ x.kind # "FUNCTION"
            /\ x.kind = a[1].kind /\ x.tag = a[1].tag /\ x.size = a[1].size
            /\ y.kind = b[1].kind /\ y.tag = b[1].tag /\ y.size = b[1].size
        BY <3>2, <4>1, <1>4, <1>5
      <4> HIDE DEF x, y
      <4>4. P!SameLevel(x, y)
        BY <4>2, <4>3 DEF P!SameLevel
      <4>5. x = y
        BY <4>3, <4>4, LevelSame
      <4> QED BY <4>5, <1>2 DEF x, y
    <3> QED BY <3>1, <3>2
  <2>3. \A i \in 1 .. n : u[i] = v[i]
    BY <2>1, <2>2, <1>1, <1>2
  <2>4. n = Len(b)
    BY <2>1, <1>1
  <2> QED BY <2>3, <2>4, <1>3
<1>7. ASSUME u = v
      PROVE  P!Compatible(a, b, TRUE)
  <2>1. n = Len(b) /\ \A i \in 1 .. n : i # 1 => a[i] = b[i]
    BY <1>2, <1>7
  <2>2. Requalified_(a[1], {}) = Requalified_(b[1], {})
    BY <1>2, <1>7
  <2>3. a[1].kind = b[1].kind /\ a[1].tag = b[1].tag /\ a[1].size = b[1].size
    BY <2>2, <1>4, <1>5
  <2>4. a[1].kind = "FUNCTION" => a[1] = b[1]
    <3>1. a[1].kind = "FUNCTION" => a[1].quals = {} /\ b[1].quals = {}
      BY <2>3, <1>4, <1>5
    <3> QED BY <3>1, <2>2, <1>4, <1>5
  <2>5. \A x : P!SameLevel(x, x)
    BY DEF P!SameLevel
  <2>6. P!SameLevels(a, b, TRUE)
    <3>1. P!SameLevel(a[1], b[1])
      BY <2>3 DEF P!SameLevel
    <3> QED BY <2>1, <2>5, <3>1, <1>1 DEF P!SameLevels, n
  <2>7. ASSUME NEW i \in 1 .. n, a[i].kind = "FUNCTION"
        PROVE  P!SameParameters(a[i], b[i])
    <3>1. a[i] = b[i]
      BY <2>1, <2>4, <2>7
    <3>2. \A p : P!SameLevels(p, p, TRUE)
      BY <2>5 DEF P!SameLevels
    <3>3. P!SameParameters(a[i], a[i])
      BY <3>2, Zenon DEF P!SameParameters
    <3> QED BY <3>1, <3>3
  <2> QED BY <2>6, <2>7, <1>1 DEF P!Compatible
<1> QED BY <1>6, <1>7 DEF u, v

\* Complete types.
LEMMA CompleteIs ==
  ASSUME NEW t, Tidy(t)
  PROVE  P!Complete(t) <=> P!Kind(t) \notin {"VOID", "STRUCT", "FUNCTION"}
<1>1. /\ Len(t) \in Nat \ {0} /\ DOMAIN t = 1 .. Len(t) /\ 1 \in 1 .. Len(t)
      /\ \A i \in 1 .. Len(t) : P!ProperLevel(t[i])
      /\ \A i \in 1 .. Len(t) - 1 : t[i].kind = "ARRAY" => t[i + 1].kind \notin {"VOID", "FUNCTION", "STRUCT"}
  BY TidyShape
<1> DEFINE Fine(x) == CASE x.kind = "ARRAY" -> x.size > 0
                        [] x.kind \in {"VOID", "FUNCTION", "STRUCT"} -> FALSE
                        [] OTHER -> TRUE
<1>2. P!Complete(t) <=> \A i \in 1 .. Len(t) : (\A j \in 1 .. i - 1 : t[j].kind = "ARRAY") => Fine(t[i])
  BY <1>1 DEF P!Complete
<1>3. \A x : P!ProperLevel(x) => (Fine(x) <=> x.kind \notin {"VOID", "FUNCTION", "STRUCT"})
  <2> SUFFICES ASSUME NEW x, P!ProperLevel(x) PROVE Fine(x) <=> x.kind \notin {"VOID", "FUNCTION", "STRUCT"}
    OBVIOUS
  <2>1. CASE x.kind = "ARRAY"
    <3>1. x.size \in Nat \ {0}
      BY <2>1, LevelMade
    <3> QED BY <2>1, <3>1
  <2>2. CASE x.kind # "ARRAY"
    BY <2>2, Zenon
  <2> QED BY <2>1, <2>2
<1> HIDE DEF Fine
<1>4. \A i \in 1 .. Len(t) : i # 1 /\ (\A j \in 1 .. i - 1 : t[j].kind = "ARRAY") => Fine(t[i])
  <2> SUFFICES ASSUME NEW i \in 1 .. Len(t), i # 1, \A j \in 1 .. i - 1 : t[j].kind = "ARRAY"
               PROVE  Fine(t[i])
    OBVIOUS
  <2>1. i - 1 \in 1 .. Len(t) - 1 /\ (i - 1) + 1 = i /\ i - 1 \in 1 .. i - 1
    BY <1>1
  <2> QED BY <2>1, <1>1, <1>3
<1>5. P!Complete(t) <=> Fine(t[1])
  BY <1>1, <1>2, <1>4
<1> QED BY <1>1, <1>3, <1>5 DEF P!Kind

-----------------------------------------------------------------------------
(* The reference, in the terms of the model.                                  *)

LEMMA SameKinds ==
  /\ P!Integral = Integral /\ P!Floating = Floating /\ P!ArithmeticKinds = ArithmeticKinds
  /\ P!Signed = Signed /\ P!Unsigned = Unsigned
BY DEF P!ArithmeticKinds, ArithmeticKinds, P!Integral, Integral, P!Signed, Signed, P!Unsigned, Unsigned,
       P!Floating, Floating

LEMMA SameWidths ==
  /\ \A k : P!Rank(k) = Rank(k) /\ P!Width(k) = Width(k)
  /\ \A a, b : P!Promoted(a) = Promoted(a) /\ P!UsualArithmetic(a, b) = UsualArithmetic(a, b)
<1>1. \A k : P!Rank(k) = Rank(k)
  BY DEF P!Rank, Rank
<1>2. \A k : P!Width(k) = Width(k)
  BY <1>1 DEF P!Width, Width
<1>3. \A k : P!Promoted(k) = Promoted(k)
  BY <1>1, SameKinds DEF P!Promoted, Promoted
<1>4. \A u, s : P!Mixed(u, s) = Mixed(u, s)
  BY <1>1, <1>2 DEF P!Mixed, Mixed
<1>5. \A a, b : P!UsualArithmetic(a, b) = UsualArithmetic(a, b)
  BY <1>1, <1>3, <1>4, SameKinds DEF P!UsualArithmetic, UsualArithmetic
<1> QED BY <1>1, <1>2, <1>3, <1>5

LEMMA SameReference ==
  /\ \A k : P!R!Promotion(k) = C!Promotion(k)
  /\ \A a, b : P!R!CommonType(a, b) = C!CommonType(a, b)
<1>1. [k \in P!Integral |-> P!Width(k)] = [k \in Integral |-> Width(k)]
  BY SameKinds, SameWidths
<1>2. P!R!Order = C!Order /\ P!R!Unsigned = C!Unsigned /\ P!R!Floating = C!Floating
  BY DEF P!R!Order, C!Order, P!R!Unsigned, C!Unsigned, P!R!Floating, C!Floating
<1>3. \A k : P!R!Values(k) = C!Values(k)
  BY <1>1, <1>2, Zenon DEF P!R!Values, C!Values
<1>4. \A k : P!R!Promotion(k) = C!Promotion(k)
  BY <1>2, <1>3, Zenon DEF P!R!Promotion, C!Promotion
<1>5. \A k : P!R!Position(k) = C!Position(k)
  BY <1>2, Zenon DEF P!R!Position, C!Position
<1>6. \A S : P!R!Max(S) = C!Max(S) /\ P!R!Min(S) = C!Min(S)
  BY Zenon DEF P!R!Max, C!Max, P!R!Min, C!Min
<1>7. ASSUME NEW a, NEW b
      PROVE  P!R!CommonType(a, b) = C!CommonType(a, b)
  <2> DEFINE x == C!Promotion(a)
             y == C!Promotion(b)
             later == C!Max({C!Position(x), C!Position(y)})
             Fits_(k) == \/ k \in C!Unsigned \/ k \in C!Floating
                         \/ C!Values(x) \subseteq C!Values(k) /\ C!Values(y) \subseteq C!Values(k)
             those == {i \in later .. Len(C!Order) : Fits_(C!Order[i])}
  <2>1. C!CommonType(a, b) = C!Order[C!Min(those)]
    BY DEF C!CommonType
  <2> DEFINE later_ == P!R!Max({P!R!Position(P!R!Promotion(a)), P!R!Position(P!R!Promotion(b))})
             Suits_(k) == \/ k \in P!R!Unsigned \/ k \in P!R!Floating
                          \/ P!R!Values(P!R!Promotion(a)) \subseteq P!R!Values(k) /\ P!R!Values(P!R!Promotion(b)) \subseteq P!R!Values(k)
             them == {i \in later_ .. Len(P!R!Order) : Suits_(P!R!Order[i])}
  <2>2. P!R!CommonType(a, b) = P!R!Order[P!R!Min(them)]
    BY DEF P!R!CommonType
  <2>3. later_ = later
    BY <1>4, <1>5, <1>6, Zenon
  <2>4. \A k : Suits_(k) <=> Fits_(k)
    BY <1>2, <1>3, <1>4, Zenon
  <2> HIDE DEF Suits_, Fits_, later, later_, x, y
  <2>5. them = those
    BY <1>2, <2>3, <2>4
  <2> HIDE DEF them, those
  <2> QED BY <1>2, <1>6, <2>1, <2>2, <2>5, Zenon
<1> QED BY <1>4, <1>7

\* Conversions of arithmetic types are those of C.
LEMMA ConversionsAgree ==
  ASSUME Target
  PROVE  /\ \A a \in P!ArithmeticKinds : /\ P!R!Promotion(a) = P!Promoted(a)
                                         /\ P!Promoted(a) \in P!ArithmeticKinds
                                         /\ a \in P!Integral => P!Promoted(a) \in P!Integral
                                         /\ a \in P!Floating => P!Promoted(a) = a
         /\ \A a, b \in P!ArithmeticKinds : /\ P!R!CommonType(a, b) = P!UsualArithmetic(a, b)
                                            /\ P!UsualArithmetic(a, b) \in P!ArithmeticKinds
<1>1. \A a \in ArithmeticKinds : /\ C!Promotion(a) = Promoted(a) /\ Promoted(a) \in ArithmeticKinds
  BY PromotionAgrees
<1>2. \A a : /\ a \in Integral => Promoted(a) \in Integral
             /\ a \in Floating => Promoted(a) = a
  BY DEF Promoted, Integral, Signed, Unsigned, Floating
<1>3. \A a, b \in ArithmeticKinds : /\ C!CommonType(a, b) = UsualArithmetic(a, b)
                                    /\ UsualArithmetic(a, b) \in ArithmeticKinds
  BY UsualIsCommon
<1> QED BY <1>1, <1>2, <1>3, SameKinds, SameWidths, SameReference

LEMMA SameTypes ==
  /\ \A t : /\ P!R!Kind(t) = P!Kind(t) /\ P!R!Quals(t) = P!Quals(t) /\ P!R!Inner(t) = P!Inner(t)
            /\ P!R!PtrTo(t) = P!PtrTo(t) /\ P!R!Bare(t) = With(t, {})
            /\ \A q : P!R!With(t, q) = With(t, q)
  /\ \A k : P!R!Basic(k) = P!Basic(k)
  /\ \A type, lvalue, ops : P!R!Answer(type, lvalue, ops) = P!Said(type, lvalue, ops)
<1>1. \A k, q : P!R!Level(k, q) = P!Level(k, q)
  BY Zenon DEF P!R!Level, P!Level
<1>2. \A t : P!R!Kind(t) = P!Kind(t) /\ P!R!Quals(t) = P!Quals(t) /\ P!R!Inner(t) = P!Inner(t)
  BY DEF P!R!Kind, P!Kind, P!R!Quals, P!Quals, P!R!Inner, P!Inner
<1>3. \A t : P!R!PtrTo(t) = P!PtrTo(t)
  BY <1>1, Zenon DEF P!R!PtrTo, P!PtrTo
<1>4. \A t, q : P!R!With(t, q) = With(t, q)
  BY Zenon DEF P!R!With, With
<1>5. \A t : P!R!Bare(t) = With(t, {})
  BY <1>4, Zenon DEF P!R!Bare
<1>6. \A k : P!R!Basic(k) = P!Basic(k)
  BY <1>1, Zenon DEF P!R!Basic, P!Basic
<1>7. \A type, lvalue, ops : P!R!Answer(type, lvalue, ops) = P!Said(type, lvalue, ops)
  BY Zenon DEF P!R!Answer, P!Said
<1> QED BY <1>2, <1>3, <1>4, <1>5, <1>6, <1>7

\* Classes of types, by their kinds.
LEMMA SameClasses ==
  ASSUME NEW t
  PROVE  /\ P!R!IsInteger(t) <=> P!Kind(t) \in P!Integral
         /\ P!R!IsArithmetic(t) <=> P!Kind(t) \in P!ArithmeticKinds
         /\ P!R!IsPointer(t) <=> P!Kind(t) = "POINTER"
         /\ P!R!IsArray(t) <=> P!Kind(t) = "ARRAY"
         /\ P!R!IsFunction(t) <=> P!Kind(t) = "FUNCTION"
         /\ P!R!IsVoid(t) <=> P!Kind(t) = "VOID"
         /\ P!R!IsIncomplete(t) <=> P!Kind(t) \in {"VOID", "STRUCT"}
         /\ P!R!IsScalar(t) <=> P!Kind(t) \in P!ArithmeticKinds \cup {"POINTER"}
         /\ P!IsIntegral(t) <=> P!Kind(t) \in P!Integral
         /\ P!IsArithmetic(t) <=> P!Kind(t) \in P!ArithmeticKinds
         /\ P!IsPointer(t) <=> P!Kind(t) = "POINTER"
         /\ P!IsArray(t) <=> P!Kind(t) = "ARRAY"
         /\ P!IsFunction(t) <=> P!Kind(t) = "FUNCTION"
         /\ P!IsVoid(t) <=> P!Kind(t) = "VOID"
         /\ P!IsScalar(t) <=> P!Kind(t) \in P!ArithmeticKinds \cup {"POINTER"}
<1>1. P!R!Kind(t) = P!Kind(t)
  BY SameTypes
<1>2. P!R!Floating = P!Floating
  BY DEF P!R!Floating, P!Floating
<1>3. {P!R!Order[i] : i \in DOMAIN P!R!Order} \ P!R!Floating = {"INT", "UINT", "LONG", "ULONG", "LONGLONG", "ULONGLONG"}
  <2>1. P!R!Order = C!Order
    BY DEF P!R!Order, C!Order
  <2>2. \A i \in 1 .. 9 : i \in {1, 2, 3, 4, 5, 6, 7, 8, 9}
    OBVIOUS
  <2>3. {C!Order[i] : i \in 1 .. 9} = {"INT", "UINT", "LONG", "ULONG", "LONGLONG", "ULONGLONG",
                                        "FLOAT", "DOUBLE", "LONGDOUBLE"}
    BY <2>2, OrderIs
  <2>4. DOMAIN P!R!Order = 1 .. 9
    BY <2>1, OrderIs
  <2> QED BY <2>1, <2>3, <2>4 DEF P!R!Floating
<1>4. P!R!IsInteger(t) <=> P!Kind(t) \in P!Integral
  BY <1>1, <1>3 DEF P!R!IsInteger, P!Integral, P!Signed, P!Unsigned
<1>5. P!R!IsArithmetic(t) <=> P!Kind(t) \in P!ArithmeticKinds
  BY <1>1, <1>2, <1>4 DEF P!R!IsArithmetic, P!ArithmeticKinds
<1>6. /\ P!R!IsPointer(t) <=> P!Kind(t) = "POINTER"
      /\ P!R!IsArray(t) <=> P!Kind(t) = "ARRAY"
      /\ P!R!IsFunction(t) <=> P!Kind(t) = "FUNCTION"
      /\ P!R!IsVoid(t) <=> P!Kind(t) = "VOID"
      /\ P!R!IsIncomplete(t) <=> P!Kind(t) \in {"VOID", "STRUCT"}
  BY <1>1, Zenon DEF P!R!IsPointer, P!R!IsArray, P!R!IsFunction, P!R!IsVoid, P!R!IsIncomplete
<1>7. P!R!IsScalar(t) <=> P!Kind(t) \in P!ArithmeticKinds \cup {"POINTER"}
  BY <1>5, <1>6 DEF P!R!IsScalar
<1> QED BY <1>4, <1>5, <1>6, <1>7
        DEF P!IsIntegral, P!IsArithmetic, P!IsPointer, P!IsArray, P!IsFunction, P!IsVoid, P!IsScalar

LEMMA KindsDiffer ==
  /\ P!ArithmeticKinds \cap {"VOID", "STRUCT", "POINTER", "ARRAY", "FUNCTION"} = {}
  /\ P!ArithmeticKinds = P!Integral \cup P!Floating /\ P!Integral \cap P!Floating = {}
  /\ {"INT", "LONG", "ULONG"} \subseteq P!Integral /\ {"FLOAT", "DOUBLE"} \subseteq P!Floating
BY DEF P!ArithmeticKinds, P!Integral, P!Signed, P!Unsigned, P!Floating

-----------------------------------------------------------------------------
(* Values.                                                                    *)

\* The type of a value.
ValueType(t) == Tidy(t) /\ P!Quals(t) = {} /\ P!Kind(t) \notin {"ARRAY", "FUNCTION"}

\* A tree whose type and value category are those of an operand.
Good(x) == Tidy(x.type) /\ P!ProperOperand(x)

LEMMA TidyKind ==
  ASSUME NEW t, Tidy(t)
  PROVE  /\ P!Kind(t) \in P!ArithmeticKinds \cup {"VOID", "POINTER", "STRUCT", "ARRAY", "FUNCTION"}
         /\ P!Quals(t) \subseteq P!Qualifiers
         /\ P!Kind(t) \in {"ARRAY", "FUNCTION"} => P!Quals(t) = {}
         /\ t # P!NoType
BY TidyShape, LevelMade, SameKinds DEF P!Kind, P!Quals, P!NoType

LEMMA UnqualifiedIs ==
  ASSUME NEW t, Tidy(t)
  PROVE  /\ P!Unqualified(t) = With(t, {}) /\ Tidy(With(t, {}))
         /\ P!Kind(With(t, {})) = P!Kind(t) /\ P!Quals(With(t, {})) = {}
         /\ P!Quals(t) = {} => With(t, {}) = t
<1>1. P!Unqualified(t) = With(t, {})
  BY QualifiedIs DEF P!Unqualified
<1>2. /\ P!Kind(With(t, {})) = P!Kind(t) /\ P!Quals(With(t, {})) = {}
      /\ P!Quals(t) = {} => With(t, {}) = t
      /\ P!Kind(t) \notin {"ARRAY", "FUNCTION"} => Tidy(With(t, {}))
  <2>1. {} \subseteq P!Qualifiers
    OBVIOUS
  <2>2. With(t, P!Quals(t)) = t
    BY WithTidy
  <2> QED BY <2>1, <2>2, WithTidy
<1>3. Tidy(With(t, {}))
  BY <1>2, TidyKind
<1> QED BY <1>1, <1>2, <1>3

\* Facts about types of values.
LEMMA ValueTypeIs ==
  ASSUME NEW t, ValueType(t)
  PROVE  /\ Tidy(t) /\ P!Unqualified(t) = t /\ With(t, {}) = t /\ t # P!NoType
         /\ P!Kind(t) \in P!ArithmeticKinds \cup {"VOID", "STRUCT", "POINTER"}
         /\ P!Kind(t) \in P!ArithmeticKinds \cup {"VOID"} => t = P!Basic(P!Kind(t))
         /\ P!Kind(t) = "POINTER" => t = P!PtrTo(P!Inner(t)) /\ Tidy(P!Inner(t))
<1>1. Tidy(t) /\ P!Quals(t) = {} /\ P!Kind(t) \notin {"ARRAY", "FUNCTION"}
  BY DEF ValueType
<1> QED BY <1>1, UnqualifiedIs, TidyKind, UnderivedIs, PointerIs, InnerTidy DEF P!Derived

LEMMA BasicIsValue ==
  ASSUME NEW k \in P!ArithmeticKinds \cup {"VOID"}
  PROVE  ValueType(P!Basic(k)) /\ P!Kind(P!Basic(k)) = k
<1>1. k \notin {"ARRAY", "FUNCTION"}
  BY KindsDiffer
<1> QED BY <1>1, BasicTidy DEF ValueType

LEMMA PointerIsValue ==
  ASSUME NEW t, Tidy(t)
  PROVE  ValueType(P!PtrTo(t)) /\ P!Kind(P!PtrTo(t)) = "POINTER" /\ P!Inner(P!PtrTo(t)) = t
BY PointerTidy DEF ValueType

\* Values of compatible types are of one type.
LEMMA SameValueType ==
  ASSUME Assumed, NEW t, ValueType(t), NEW u, ValueType(u)
  PROVE  P!Compatible(t, u, TRUE) <=> t = u
<1>1. Tidy(t) /\ With(t, {}) = t
  BY ValueTypeIs
<1>2. Tidy(u) /\ With(u, {}) = u
  BY ValueTypeIs
<1>3. P!Compatible(t, u, TRUE) <=> With(t, {}) = With(u, {})
  BY <1>1, <1>2, CompatibleIs
<1> QED BY <1>1, <1>2, <1>3

\* Sema's value is C's.
LEMMA ValueIs ==
  ASSUME NEW x, Good(x)
  PROVE  /\ P!Value(x) = P!R!Decayed(x) /\ ValueType(P!Value(x))
         /\ P!NullConstant(x) => P!Kind(P!Value(x)) \in P!Integral
         /\ P!Kind(x.type) \notin {"ARRAY", "FUNCTION"} => P!Value(x) = With(x.type, {})
         /\ P!Kind(x.type) \in {"ARRAY", "FUNCTION"} => P!Kind(P!Value(x)) = "POINTER"
<1>1. Tidy(x.type) /\ P!ProperOperand(x)
  BY DEF Good
<1>2. CASE P!Kind(x.type) = "ARRAY"
  <2>1. P!Value(x) = P!PtrTo(P!Inner(x.type))
    BY <1>2, SameClasses, Zenon DEF P!Value
  <2>2. P!R!Decayed(x) = P!PtrTo(P!Inner(x.type))
    BY <1>2, SameClasses, SameTypes, Zenon DEF P!R!Decayed
  <2>3. Tidy(P!Inner(x.type))
    BY <1>1, <1>2, InnerTidy DEF P!Derived
  <2>4. ~P!NullConstant(x)
    <3>1. P!Kind(x.type) \notin P!Integral
      BY <1>2, KindsDiffer
    <3> QED BY <1>1, <3>1, SameClasses DEF P!ProperOperand
  <2> QED BY <1>2, <2>1, <2>2, <2>3, <2>4, PointerIsValue
<1>3. CASE P!Kind(x.type) = "FUNCTION"
  <2>1. P!Value(x) = P!PtrTo(x.type)
    <3>1. P!IsFunction(x.type) /\ ~P!IsArray(x.type)
      BY <1>3, SameClasses
    <3> QED BY <3>1, Zenon DEF P!Value
  <2>2. P!R!Decayed(x) = P!PtrTo(x.type)
    <3>1. P!R!IsFunction(x.type) /\ ~P!R!IsArray(x.type)
      BY <1>3, SameClasses
    <3> QED BY <3>1, SameTypes, Zenon DEF P!R!Decayed
  <2>4. ~P!NullConstant(x)
    <3>1. P!Kind(x.type) \notin P!Integral
      BY <1>3, KindsDiffer
    <3> QED BY <1>1, <3>1, SameClasses DEF P!ProperOperand
  <2> QED BY <1>1, <1>3, <2>1, <2>2, <2>4, PointerIsValue
<1>4. CASE P!Kind(x.type) \notin {"ARRAY", "FUNCTION"}
  <2> DEFINE t == With(x.type, {})
  <2>1. /\ P!Unqualified(x.type) = t /\ Tidy(t) /\ P!Kind(t) = P!Kind(x.type) /\ P!Quals(t) = {}
        /\ P!Quals(x.type) = {} => t = x.type
    BY <1>1, UnqualifiedIs
  <2>2. ~x.lvalue => P!Quals(x.type) = {}
    BY <1>1 DEF P!ProperOperand
  <2>3. P!Value(x) = IF x.lvalue THEN P!Unqualified(x.type) ELSE x.type
    <3>1. ~P!IsFunction(x.type) /\ ~P!IsArray(x.type)
      BY <1>4, SameClasses
    <3> QED BY <3>1, Zenon DEF P!Value
  <2>4. P!Value(x) = t
    BY <2>1, <2>2, <2>3, Zenon
  <2>5. P!R!Decayed(x) = t
    <3>1. ~P!R!IsFunction(x.type) /\ ~P!R!IsArray(x.type)
      BY <1>4, SameClasses
    <3> QED BY <3>1, SameTypes, Zenon DEF P!R!Decayed
  <2>6. P!NullConstant(x) => P!Kind(x.type) \in P!Integral
    BY <1>1, SameClasses DEF P!ProperOperand
  <2> HIDE DEF t
  <2> QED BY <1>4, <2>1, <2>4, <2>5, <2>6 DEF ValueType, t
<1> QED BY <1>2, <1>3, <1>4

PointerValue(t) == ValueType(t) /\ P!Kind(t) = "POINTER"
Versions(t, u)  == With(P!Inner(t), {}) = With(P!Inner(u), {})
Meets(t, u)     == /\ P!Kind(P!Inner(t)) = "VOID" \/ P!Kind(P!Inner(u)) = "VOID"
                   /\ P!Kind(P!Inner(t)) # "FUNCTION" /\ P!Kind(P!Inner(u)) # "FUNCTION"
Below(t, u)     == P!Quals(P!Inner(t)) \subseteq P!Quals(P!Inner(u))

LEMMA PointerPairs ==
  ASSUME Assumed, NEW t, PointerValue(t), NEW u, PointerValue(u)
  PROVE  /\ P!Compatible(P!Inner(t), P!Inner(u), TRUE) <=> Versions(t, u)
         /\ P!R!ToVersions(t, u) <=> Versions(t, u)
         /\ P!VoidMeets(P!Inner(t), P!Inner(u)) <=> Meets(t, u)
         /\ P!R!ToVoid(t, u) <=> Meets(t, u)
         /\ P!PointerConvertible(t, u) <=> Below(u, t) /\ (Versions(t, u) \/ Meets(t, u))
<1> DEFINE p == P!Inner(t)
           q == P!Inner(u)
<1>1. Tidy(p) /\ Tidy(q)
  BY ValueTypeIs DEF PointerValue
<1>2. P!Compatible(p, q, TRUE) <=> Versions(t, u)
  BY <1>1, CompatibleIs DEF Versions
<1>3. P!IsPointer(t) /\ P!IsPointer(u) /\ P!R!IsPointer(t) /\ P!R!IsPointer(u)
  BY SameClasses DEF PointerValue
<1>4. P!R!ToVersions(t, u) <=> Versions(t, u)
  BY <1>3, SameTypes DEF Versions, P!R!ToVersions
<1>5. P!VoidMeets(p, q) <=> Meets(t, u)
  <2>1. /\ P!IsVoid(p) <=> P!Kind(p) = "VOID"
        /\ P!IsVoid(q) <=> P!Kind(q) = "VOID"
        /\ P!IsFunction(p) <=> P!Kind(p) = "FUNCTION"
        /\ P!IsFunction(q) <=> P!Kind(q) = "FUNCTION"
    BY SameClasses
  <2> QED BY <2>1 DEF Meets, P!VoidMeets
<1>6. P!R!ToVoid(t, u) <=> Meets(t, u)
  <2>1. /\ P!R!IsVoid(p) <=> P!Kind(p) = "VOID"
        /\ P!R!IsVoid(q) <=> P!Kind(q) = "VOID"
        /\ P!R!IsFunction(p) <=> P!Kind(p) = "FUNCTION"
        /\ P!R!IsFunction(q) <=> P!Kind(q) = "FUNCTION"
    BY SameClasses
  <2>2. P!R!Inner(t) = p /\ P!R!Inner(u) = q
    BY SameTypes
  <2> QED BY <1>3, <2>1, <2>2 DEF Meets, P!R!ToVoid
<1>7. P!PointerConvertible(t, u) <=> Below(u, t) /\ (Versions(t, u) \/ Meets(t, u))
  BY <1>2, <1>3, <1>5 DEF Below, P!PointerConvertible
<1> QED BY <1>2, <1>4, <1>5, <1>6, <1>7

LEMMA VoidIs ==
  ASSUME NEW p, Tidy(p), P!Kind(p) = "VOID", NEW q, Tidy(q), P!Kind(q) = "VOID", NEW Q
  PROVE  With(p, {}) = With(q, {}) /\ With(p, Q) = With(q, Q)
<1>1. /\ Tidy(With(p, {})) /\ P!Kind(With(p, {})) = "VOID" /\ P!Quals(With(p, {})) = {}
      /\ Tidy(With(q, {})) /\ P!Kind(With(q, {})) = "VOID" /\ P!Quals(With(q, {})) = {}
  BY UnqualifiedIs
<1>2. With(p, {}) = P!Basic("VOID")
  BY <1>1, UnderivedIs
<1>3. With(q, {}) = P!Basic("VOID")
  BY <1>1, UnderivedIs
<1>4. With(With(p, {}), Q) = With(p, Q) /\ With(With(q, {}), Q) = With(q, Q)
  BY WithTwice
<1>5. With(p, Q) = With(q, Q)
  BY <1>2, <1>3, <1>4, Zenon
<1> QED BY <1>2, <1>3, <1>5

\* What two pointers become that meet: each is converted to it.
LEMMA JoinedIs ==
  ASSUME Assumed, NEW t, PointerValue(t), NEW u, PointerValue(u), Versions(t, u) \/ Meets(t, u)
  PROVE  /\ PointerValue(P!R!Joined(t, u))
         /\ P!PointerConvertible(P!R!Joined(t, u), t)
         /\ P!PointerConvertible(P!R!Joined(t, u), u)
<1> DEFINE p == P!Inner(t)
           q == P!Inner(u)
           r == IF P!Kind(q) = "VOID" THEN q ELSE p
           Q == P!Quals(p) \cup P!Quals(q)
           j == P!R!Joined(t, u)
<1>1. Tidy(p) /\ Tidy(q)
  BY ValueTypeIs DEF PointerValue
<1>2. j = P!PtrTo(With(r, Q))
  <2>1. /\ P!R!Inner(t) = p /\ P!R!Inner(u) = q /\ P!R!Quals(p) = P!Quals(p) /\ P!R!Quals(q) = P!Quals(q)
        /\ \A a : P!R!PtrTo(a) = P!PtrTo(a)
        /\ \A a, b : P!R!With(a, b) = With(a, b)
    BY SameTypes, Zenon
  <2>2. P!R!IsVoid(q) <=> P!Kind(q) = "VOID"
    BY SameClasses
  <2> QED BY <2>1, <2>2, Zenon DEF P!R!Joined
<1>3. /\ Versions(t, u) => P!Kind(p) = P!Kind(q)
      /\ Tidy(r) /\ r \in {p, q}
  <2>1. P!Kind(With(p, {})) = P!Kind(p) /\ P!Kind(With(q, {})) = P!Kind(q)
    BY <1>1, UnqualifiedIs
  <2> QED BY <1>1, <2>1, Zenon DEF Versions
<1>4. /\ Q \subseteq P!Qualifiers
      /\ P!Kind(r) \in {"ARRAY", "FUNCTION"} => Q = {}
  <2>1. /\ P!Quals(p) \subseteq P!Qualifiers /\ P!Quals(q) \subseteq P!Qualifiers
        /\ P!Kind(p) \in {"ARRAY", "FUNCTION"} => P!Quals(p) = {}
        /\ P!Kind(q) \in {"ARRAY", "FUNCTION"} => P!Quals(q) = {}
    BY <1>1, TidyKind
  <2>2. P!Kind(r) \in {"ARRAY", "FUNCTION"} => P!Kind(p) = P!Kind(r) /\ P!Kind(q) = P!Kind(r)
    BY <1>3 DEF Meets
  <2> QED BY <2>1, <2>2
<1>5. /\ Tidy(With(r, Q)) /\ P!Kind(With(r, Q)) = P!Kind(r) /\ P!Quals(With(r, Q)) = Q
      /\ With(With(r, Q), {}) = With(r, {})
  <2>1. P!Kind(r) \notin {"ARRAY", "FUNCTION"} => Tidy(With(r, Q))
    BY <1>3, <1>4, WithTidy
  <2>2. Q = {} => Tidy(With(r, Q))
    BY <1>3, UnqualifiedIs
  <2>3. P!Kind(With(r, Q)) = P!Kind(r) /\ P!Quals(With(r, Q)) = Q
    BY <1>3, WithTidy
  <2>4. With(With(r, Q), {}) = With(r, {})
    BY <1>3, WithTwice
  <2> QED BY <1>4, <2>1, <2>2, <2>3, <2>4
<1>6. PointerValue(j) /\ P!Inner(j) = With(r, Q)
  BY <1>2, <1>5, PointerIsValue DEF PointerValue
<1>7. Below(t, j) /\ Below(u, j)
  BY <1>5, <1>6 DEF Below
<1>8. Versions(j, t) \/ Meets(j, t)
  BY <1>3, <1>5, <1>6, Zenon DEF Versions, Meets
<1>9. Versions(j, u) \/ Meets(j, u)
  BY <1>3, <1>5, <1>6, Zenon DEF Versions, Meets
<1>10. P!PointerConvertible(j, t)
  BY <1>6, <1>7, <1>8, PointerPairs
<1>11. P!PointerConvertible(j, u)
  BY <1>6, <1>7, <1>9, PointerPairs
<1> QED BY <1>6, <1>10, <1>11

LEMMA CommonPointerIs ==
  ASSUME Assumed, NEW t, PointerValue(t), NEW u, PointerValue(u), NEW allow \in BOOLEAN
  PROVE  P!CommonPointer(t, u, allow)
           = IF Versions(t, u) \/ (allow /\ Meets(t, u)) THEN P!R!Joined(t, u) ELSE P!NoType
<1> DEFINE p == P!Inner(t)
           q == P!Inner(u)
           r == IF P!Kind(q) = "VOID" THEN q ELSE p
           s == IF P!Kind(p) # "VOID" /\ P!Kind(q) = "VOID" THEN q ELSE p
           Q == P!Quals(p) \cup P!Quals(q)
<1>1. Tidy(p) /\ Tidy(q)
  BY ValueTypeIs DEF PointerValue
<1>2. P!R!Joined(t, u) = P!PtrTo(With(r, Q))
  <2>1. /\ P!R!Inner(t) = p /\ P!R!Inner(u) = q /\ P!R!Quals(p) = P!Quals(p) /\ P!R!Quals(q) = P!Quals(q)
        /\ \A a : P!R!PtrTo(a) = P!PtrTo(a)
        /\ \A a, b : P!R!With(a, b) = With(a, b)
    BY SameTypes, Zenon
  <2>2. P!R!IsVoid(q) <=> P!Kind(q) = "VOID"
    BY SameClasses
  <2> QED BY <2>1, <2>2, Zenon DEF P!R!Joined
<1>3. P!CommonPointer(t, u, allow)
        = IF Versions(t, u) \/ (allow /\ Meets(t, u)) THEN P!PtrTo(P!Qualified(s, Q)) ELSE P!NoType
  <2>1. /\ P!Compatible(p, q, TRUE) <=> Versions(t, u)
        /\ P!VoidMeets(p, q) <=> Meets(t, u)
    BY PointerPairs
  <2>2. /\ P!IsVoid(p) <=> P!Kind(p) = "VOID"
        /\ P!IsVoid(q) <=> P!Kind(q) = "VOID"
    BY SameClasses
  <2> QED BY <2>1, <2>2, Zenon DEF P!CommonPointer
<1>4. ASSUME Versions(t, u) \/ Meets(t, u)
      PROVE  P!Qualified(s, Q) = With(r, Q)
  <2>1. Tidy(s) /\ (P!Kind(s) # "ARRAY" \/ Q = {})
    <3>1. /\ P!Kind(p) \in {"ARRAY", "FUNCTION"} => P!Quals(p) = {}
          /\ P!Kind(q) \in {"ARRAY", "FUNCTION"} => P!Quals(q) = {}
      BY <1>1, TidyKind
    <3>2. Versions(t, u) => P!Kind(p) = P!Kind(q)
      <4>1. P!Kind(With(p, {})) = P!Kind(p) /\ P!Kind(With(q, {})) = P!Kind(q)
        BY <1>1, UnqualifiedIs
      <4> QED BY <4>1, Zenon DEF Versions
    <3> QED BY <1>1, <1>4, <3>1, <3>2 DEF Meets
  <2>2. P!Qualified(s, Q) = With(s, Q)
    <3> HIDE DEF s, Q
    <3> QED BY <2>1, QualifiedIs
  <2>3. With(s, Q) = With(r, Q)
    <3>1. P!Kind(p) = "VOID" /\ P!Kind(q) = "VOID" => With(p, Q) = With(q, Q)
      BY <1>1, VoidIs
    <3> QED BY <3>1, Zenon
  <2> QED BY <2>2, <2>3
<1> QED BY <1>2, <1>3, <1>4, Zenon

\* An object is pointed to where the type pointed to is complete.
LEMMA ObjectPointerIs ==
  ASSUME NEW t, Tidy(t)
  PROVE  /\ P!R!ToObject(t) <=> P!ObjectPointer(t)
         /\ P!ObjectPointer(t) <=> /\ P!Kind(t) = "POINTER"
                                   /\ P!Kind(P!Inner(t)) \notin {"VOID", "STRUCT", "FUNCTION"}
<1>1. CASE P!Kind(t) = "POINTER"
  <2> DEFINE p == P!Inner(t)
  <2>1. Tidy(p)
    BY <1>1, InnerTidy DEF P!Derived
  <2>2. P!Complete(p) <=> P!Kind(p) \notin {"VOID", "STRUCT", "FUNCTION"}
    BY <2>1, CompleteIs
  <2>3. P!IsPointer(t) /\ P!R!IsPointer(t)
    BY <1>1, SameClasses
  <2>4. /\ P!R!IsIncomplete(p) <=> P!Kind(p) \in {"VOID", "STRUCT"}
        /\ P!R!IsFunction(p) <=> P!Kind(p) = "FUNCTION"
    BY SameClasses
  <2>5. P!R!Inner(t) = p
    BY SameTypes
  <2> HIDE DEF p
  <2>6. P!ObjectPointer(t) <=> P!Kind(p) \notin {"VOID", "STRUCT", "FUNCTION"}
    BY <2>2, <2>3 DEF P!ObjectPointer, p
  <2>7. P!R!ToObject(t) <=> P!Kind(p) \notin {"VOID", "STRUCT", "FUNCTION"}
    BY <2>3, <2>4, <2>5 DEF P!R!ToObject
  <2> QED BY <1>1, <2>6, <2>7 DEF p
<1>2. CASE P!Kind(t) # "POINTER"
  <2>1. ~P!IsPointer(t) /\ ~P!R!IsPointer(t)
    BY <1>2, SameClasses
  <2> QED BY <1>2, <2>1 DEF P!ObjectPointer, P!R!ToObject
<1> QED BY <1>1, <1>2

Numeric(t) == P!Kind(t) \in P!ArithmeticKinds

\* Which conversions Sema has, and what of: they are those C has for assignments.
ConvertsTo(x, to) ==
  LET from == P!Value(x)
  IN  \/ from = to
      \/ Numeric(to) /\ Numeric(from)
      \/ P!Kind(to) = "POINTER" /\ P!NullConstant(x)
      \/ P!PointerConvertible(to, from)

LEMMA ConvertIs ==
  ASSUME Assumed, NEW x, Good(x), NEW type, Tidy(type), P!Kind(type) \notin {"ARRAY", "FUNCTION"}
  PROVE  P!Convert(x, type) = IF ConvertsTo(x, With(type, {})) THEN With(type, {}) ELSE P!NoType
<1> DEFINE to == With(type, {})
           from == P!Value(x)
<1>1. ValueType(from) /\ ValueType(to) /\ P!Unqualified(type) = to
  BY ValueIs, UnqualifiedIs DEF ValueType
<1>2. P!Compatible(to, from, TRUE) <=> to = from
  BY <1>1, SameValueType
<1>3. /\ P!IsArithmetic(to) <=> Numeric(to)
      /\ P!IsArithmetic(from) <=> Numeric(from)
      /\ P!IsPointer(to) <=> P!Kind(to) = "POINTER"
  BY SameClasses DEF Numeric
<1> HIDE DEF to, from
<1>4. P!Convert(x, type) = IF to = from THEN from
                           ELSE IF \/ Numeric(to) /\ Numeric(from)
                                   \/ P!Kind(to) = "POINTER" /\ P!NullConstant(x)
                                   \/ P!PointerConvertible(to, from)
                                THEN to ELSE P!NoType
  BY <1>1, <1>2, <1>3, Zenon DEF P!Convert, from
<1>5. ConvertsTo(x, to) <=> \/ from = to
                            \/ Numeric(to) /\ Numeric(from)
                            \/ P!Kind(to) = "POINTER" /\ P!NullConstant(x)
                            \/ P!PointerConvertible(to, from)
  BY Zenon DEF ConvertsTo, from
<1>6. P!Convert(x, type) = IF ConvertsTo(x, to) THEN to ELSE P!NoType
  BY <1>4, <1>5, Zenon
<1> QED BY <1>6 DEF to

LEMMA ConvertValue ==
  ASSUME Assumed, NEW x, Good(x), NEW to, ValueType(to), ConvertsTo(x, to)
  PROVE  P!Convert(x, to) = to
<1>1. Tidy(to) /\ With(to, {}) = to /\ P!Kind(to) \notin {"ARRAY", "FUNCTION"}
  BY ValueTypeIs DEF ValueType
<1> QED BY <1>1, ConvertIs

LEMMA AssignableIs ==
  ASSUME Assumed, NEW x, Good(x), NEW to, ValueType(to), P!Kind(to) \in P!ArithmeticKinds \cup {"POINTER"}
  PROVE  P!R!Assignable(to, x) <=> ConvertsTo(x, to)
<1> DEFINE from == P!Value(x)
<1>1. ValueType(from) /\ P!R!Decayed(x) = from
  BY ValueIs
<1>2. /\ P!R!IsArithmetic(to) <=> Numeric(to)
      /\ P!R!IsArithmetic(from) <=> Numeric(from)
      /\ P!R!IsPointer(to) <=> P!Kind(to) = "POINTER"
      /\ P!R!IsPointer(from) <=> P!Kind(from) = "POINTER"
      /\ P!IsPointer(to) <=> P!Kind(to) = "POINTER"
      /\ P!IsPointer(from) <=> P!Kind(from) = "POINTER"
  BY SameClasses DEF Numeric
<1>3. P!R!IsZero(x) <=> P!NullConstant(x)
  BY DEF P!R!IsZero, P!NullConstant
<1>4. (P!R!ToVersions(to, from) \/ P!R!ToVoid(to, from))
        /\ P!R!Quals(P!R!Inner(from)) \subseteq P!R!Quals(P!R!Inner(to))
      <=> P!PointerConvertible(to, from)
  <2>1. CASE P!Kind(to) = "POINTER" /\ P!Kind(from) = "POINTER"
    <3>1. PointerValue(to) /\ PointerValue(from)
      BY <1>1, <2>1 DEF PointerValue
    <3>2. /\ P!R!ToVersions(to, from) <=> Versions(to, from)
          /\ P!R!ToVoid(to, from) <=> Meets(to, from)
          /\ P!PointerConvertible(to, from) <=> Below(from, to) /\ (Versions(to, from) \/ Meets(to, from))
      BY <3>1, PointerPairs
    <3>3. P!R!Quals(P!R!Inner(from)) \subseteq P!R!Quals(P!R!Inner(to)) <=> Below(from, to)
      BY SameTypes DEF Below
    <3> QED BY <3>2, <3>3
  <2>2. CASE ~(P!Kind(to) = "POINTER" /\ P!Kind(from) = "POINTER")
    BY <1>2, <2>2 DEF P!R!ToVersions, P!R!ToVoid, P!PointerConvertible
  <2> QED BY <2>1, <2>2
<1>5. from = to => (Numeric(to) /\ Numeric(from)) \/ P!PointerConvertible(to, from)
  <2>1. SUFFICES ASSUME from = to, P!Kind(to) = "POINTER"
                 PROVE  P!PointerConvertible(to, from)
    BY DEF Numeric
  <2>2. PointerValue(to) /\ PointerValue(from)
    BY <1>1, <2>1 DEF PointerValue
  <2>3. Below(from, to) /\ Versions(to, from)
    BY <2>1 DEF Below, Versions
  <2> QED BY <2>2, <2>3, PointerPairs
<1>6. P!R!Assignable(to, x) <=> \/ Numeric(to) /\ Numeric(from)
                                \/ P!PointerConvertible(to, from)
                                \/ P!Kind(to) = "POINTER" /\ P!NullConstant(x)
  BY <1>1, <1>2, <1>3, <1>4, Zenon DEF P!R!Assignable
<1> QED BY <1>5, <1>6 DEF ConvertsTo

\* The types arithmetic is done in.
LEMMA PromotedIs ==
  ASSUME Target, NEW t, ValueType(t), Numeric(t)
  PROVE  /\ P!PromotedType(t) = P!R!Promote(t) /\ ValueType(P!PromotedType(t))
         /\ Numeric(P!PromotedType(t))
         /\ P!Kind(t) \in P!Integral => P!Kind(P!PromotedType(t)) \in P!Integral
         /\ P!Kind(t) \notin P!Integral => P!PromotedType(t) = t
<1>1. /\ P!R!Promotion(P!Kind(t)) = P!Promoted(P!Kind(t)) /\ P!Promoted(P!Kind(t)) \in P!ArithmeticKinds
      /\ P!Kind(t) \in P!Integral => P!Promoted(P!Kind(t)) \in P!Integral
      /\ P!Kind(t) \notin P!Integral => P!Promoted(P!Kind(t)) = P!Kind(t)
  BY ConversionsAgree, KindsDiffer DEF Numeric
<1>2. P!R!Promote(t) = P!Basic(P!Promoted(P!Kind(t)))
  BY <1>1, SameTypes DEF P!R!Promote
<1>3. t = P!Basic(P!Kind(t)) /\ P!Unqualified(t) = t
  BY ValueTypeIs DEF Numeric
<1>4. P!PromotedType(t) = P!Basic(P!Promoted(P!Kind(t)))
  <2>1. P!IsIntegral(t) <=> P!Kind(t) \in P!Integral
    BY SameClasses
  <2> QED BY <1>1, <1>3, <2>1 DEF P!PromotedType
<1>5. ValueType(P!Basic(P!Promoted(P!Kind(t)))) /\ P!Kind(P!Basic(P!Promoted(P!Kind(t)))) = P!Promoted(P!Kind(t))
  BY <1>1, BasicIsValue
<1> QED BY <1>1, <1>2, <1>3, <1>4, <1>5 DEF Numeric

LEMMA CommonTypeIs ==
  ASSUME Target, NEW t, Numeric(t), NEW u, Numeric(u)
  PROVE  /\ P!CommonArithmetic(t, u) = P!R!Common(t, u)
         /\ ValueType(P!CommonArithmetic(t, u)) /\ Numeric(P!CommonArithmetic(t, u))
<1>1. /\ P!R!CommonType(P!Kind(t), P!Kind(u)) = P!UsualArithmetic(P!Kind(t), P!Kind(u))
      /\ P!UsualArithmetic(P!Kind(t), P!Kind(u)) \in P!ArithmeticKinds
  BY ConversionsAgree DEF Numeric
<1>2. P!R!Common(t, u) = P!Basic(P!UsualArithmetic(P!Kind(t), P!Kind(u)))
  BY <1>1, SameTypes DEF P!R!Common
<1>3. P!CommonArithmetic(t, u) = P!Basic(P!UsualArithmetic(P!Kind(t), P!Kind(u)))
  BY DEF P!CommonArithmetic
<1>4. ValueType(P!CommonArithmetic(t, u)) /\ P!Kind(P!CommonArithmetic(t, u)) \in P!ArithmeticKinds
  BY <1>1, <1>3, BasicIsValue
<1>5. P!CommonArithmetic(t, u) = P!R!Common(t, u)
  BY <1>1, <1>2, <1>3
<1> QED BY <1>4, <1>5 DEF Numeric

-----------------------------------------------------------------------------
(* Answers: what Sema says of an operator is what C admits.                    *)

Answers(said) ==
  /\ Tidy(said.type) /\ said.lvalue \in BOOLEAN
  /\ said.lvalue => P!Kind(said.type) \notin {"VOID", "FUNCTION"}
  /\ ~said.lvalue => P!Kind(said.type) # "ARRAY" /\ P!Quals(said.type) = {}

Agreed(said, admitted) == \/ said = P!Refused /\ admitted = {}
                          \/ said # P!Refused /\ admitted = {said} /\ Answers(said)

LEMMA SaidFields ==
  /\ \A type, lvalue, ops : P!Said(type, lvalue, ops).type = type
  /\ \A type, lvalue, ops : P!Said(type, lvalue, ops).lvalue = lvalue
  /\ \A type, lvalue, ops : P!Said(type, lvalue, ops).operands = ops
BY DEF P!Said

LEMMA RefusedIs ==
  P!Refused.type = P!NoType
BY SaidFields, Zenon DEF P!Refused

LEMMA AnswerIs ==
  ASSUME NEW type, Tidy(type), NEW lvalue \in BOOLEAN, NEW ops,
         lvalue => P!Kind(type) \notin {"VOID", "FUNCTION"},
         ~lvalue => P!Kind(type) # "ARRAY" /\ P!Quals(type) = {}
  PROVE  Agreed(P!Said(type, lvalue, ops), {P!Said(type, lvalue, ops)})
<1> DEFINE said == P!Said(type, lvalue, ops)
<1>1. said.type = type
  BY SaidFields, Zenon
<1>0. said.lvalue = lvalue
  BY SaidFields
<1>2. said # P!Refused
  <2>1. type # P!NoType
    BY TidyKind
  <2> QED BY <1>1, <2>1, RefusedIs, Zenon
<1>3. Answers(said)
  BY <1>0, <1>1, Zenon DEF Answers
<1> QED BY <1>2, <1>3, Zenon DEF Agreed

LEMMA ValueAnswer ==
  ASSUME NEW type, ValueType(type), NEW ops
  PROVE  /\ Agreed(P!Said(type, FALSE, ops), {P!Said(type, FALSE, ops)})
         /\ P!R!Value_(type, ops) = {P!Said(type, FALSE, ops)}
<1>1. Tidy(type) /\ P!Kind(type) # "ARRAY" /\ P!Quals(type) = {}
  BY DEF ValueType
<1>2. PICK lvalue \in BOOLEAN : lvalue = FALSE
  BY Zenon
<1>3. Agreed(P!Said(type, lvalue, ops), {P!Said(type, lvalue, ops)})
  BY <1>1, <1>2, AnswerIs
<1>4. Agreed(P!Said(type, FALSE, ops), {P!Said(type, FALSE, ops)})
  BY <1>2, <1>3, Zenon
<1>5. P!R!Value_(type, ops) = {P!Said(type, FALSE, ops)}
  BY SameTypes, Zenon DEF P!R!Value_
<1> QED BY <1>4, <1>5

LEMMA SameAnswer ==
  ASSUME NEW type, ValueType(type), NEW ops,
         NEW said, said = P!Said(type, FALSE, ops), NEW admitted, admitted = P!R!Value_(type, ops)
  PROVE  Agreed(said, admitted) /\ said.type = type
<1>1. Agreed(said, admitted)
  BY ValueAnswer
<1>2. said.type = type
  BY SaidFields, Zenon
<1> QED BY <1>1, <1>2

LEMMA NoAnswer ==
  Agreed(P!Refused, {})
BY DEF Agreed

LEMMA IntIsValue ==
  /\ ValueType(P!IntTy) /\ P!R!Basic("INT") = P!IntTy /\ P!Kind(P!IntTy) = "INT"
  /\ \A s \in BOOLEAN : ValueType(P!SizeType(s)) /\ P!Kind(P!SizeType(s)) \in {"LONG", "ULONG"}
<1>1. {"INT", "LONG", "ULONG"} \subseteq P!ArithmeticKinds \cup {"VOID"}
  BY KindsDiffer
<1>2. P!R!Basic("INT") = P!IntTy
  BY SameTypes DEF P!IntTy
<1>3. \A k \in {"INT", "LONG", "ULONG"} : ValueType(P!Basic(k)) /\ P!Kind(P!Basic(k)) = k
  BY <1>1, BasicIsValue
<1> QED BY <1>2, <1>3 DEF P!IntTy, P!SizeType

LEMMA AddressAgrees ==
  ASSUME NEW x, Good(x)
  PROVE  Agreed(P!AddressTypes(x), P!R!AddressOf(x))
<1> DEFINE said == P!Said(P!PtrTo(x.type), FALSE, <<x.type>>)
           taken == (x.lvalue \/ P!Kind(x.type) = "FUNCTION") /\ x.form # "register"
<1>1. P!AddressTypes(x) = IF taken THEN said ELSE P!Refused
  BY SameClasses, Zenon DEF P!AddressTypes
<1>2. Agreed(said, {said}) /\ P!R!Value_(P!PtrTo(x.type), <<x.type>>) = {said}
  BY PointerIsValue, ValueAnswer DEF Good
<1>3. x.form = "register" => P!Kind(x.type) # "FUNCTION"
  BY DEF Good, P!ProperOperand
<1>4. P!R!AddressOf(x) = IF taken THEN {said} ELSE {}
  <2>1. P!R!PtrTo(x.type) = P!PtrTo(x.type) /\ (P!R!IsFunction(x.type) <=> P!Kind(x.type) = "FUNCTION")
    BY SameClasses, SameTypes
  <2> QED BY <1>2, <1>3, <2>1, Zenon DEF P!R!AddressOf
<1> QED BY <1>1, <1>2, <1>4, NoAnswer, Zenon

LEMMA DereferenceAgrees ==
  ASSUME NEW x, Good(x)
  PROVE  LET said == P!DereferenceTypes(x)
             admitted == P!R!Dereference(x)
         IN  Agreed(said, IF P!R!VoidPointer(x) THEN P!Stricter(said, admitted) ELSE admitted)
<1> DEFINE t == P!Value(x)
           p == P!Inner(t)
<1>1. ValueType(t) /\ P!R!Decayed(x) = t
  BY ValueIs
<1>2. CASE P!Kind(t) = "POINTER"
  <2>1. Tidy(p) /\ P!R!Inner(t) = p /\ P!IsPointer(t) /\ P!R!IsPointer(t)
    BY <1>1, <1>2, ValueTypeIs, SameClasses, SameTypes
  <2>2. /\ P!R!IsFunction(p) <=> P!Kind(p) = "FUNCTION"
        /\ P!IsFunction(p) <=> P!Kind(p) = "FUNCTION"
        /\ P!R!IsVoid(p) <=> P!Kind(p) = "VOID"
        /\ P!IsVoid(p) <=> P!Kind(p) = "VOID"
    BY SameClasses
  <2>3. PICK l \in BOOLEAN : l = (P!Kind(p) # "FUNCTION")
    BY Zenon
  <2> HIDE DEF t, p
  <2>4. P!R!Dereference(x) = {P!Said(p, l, <<t>>)}
    <3>1. P!R!Dereference(x) = {P!R!Answer(p, l, <<t>>)}
      BY <1>1, <2>1, <2>2, <2>3, Zenon DEF P!R!Dereference, p
    <3> QED BY <3>1, SameTypes, Zenon
  <2>5. P!DereferenceTypes(x) = IF P!Kind(p) # "VOID" THEN P!Said(p, l, <<t>>) ELSE P!Refused
    BY <2>1, <2>2, <2>3, Zenon DEF P!DereferenceTypes, p, t
  <2>6. P!R!VoidPointer(x) <=> P!Kind(p) = "VOID"
    BY <1>1, <2>1, <2>2 DEF P!R!VoidPointer
  <2>7. ASSUME P!Kind(p) # "VOID"
        PROVE  Agreed(P!Said(p, l, <<t>>), {P!Said(p, l, <<t>>)})
    <3>1. l => P!Kind(p) \notin {"VOID", "FUNCTION"}
      BY <2>3, <2>7
    <3>2. ~l => P!Kind(p) # "ARRAY" /\ P!Quals(p) = {}
      BY <2>1, <2>3, TidyKind
    <3> QED BY <2>1, <3>1, <3>2, AnswerIs
  <2> QED BY <2>4, <2>5, <2>6, <2>7, NoAnswer, Zenon DEF P!Stricter
<1>3. CASE P!Kind(t) # "POINTER"
  <2>1. ~P!IsPointer(t) /\ ~P!R!IsPointer(t)
    BY <1>3, SameClasses
  <2>2. P!R!Dereference(x) = {} /\ P!DereferenceTypes(x) = P!Refused /\ ~P!R!VoidPointer(x)
    BY <1>1, <2>1, Zenon DEF P!R!Dereference, P!DereferenceTypes, P!R!VoidPointer
  <2> QED BY <2>2, NoAnswer, Zenon
<1> QED BY <1>2, <1>3

LEMMA ModifiableIs ==
  ASSUME NEW x, Good(x)
  PROVE  /\ P!R!IsModifiable(x) <=> P!Modifiable(x)
         /\ P!Modifiable(x) => /\ P!Kind(x.type) \in P!ArithmeticKinds \cup {"POINTER"}
                               /\ P!Value(x) = With(x.type, {}) /\ P!Unqualified(x.type) = With(x.type, {})
                               /\ P!R!Bare(x.type) = With(x.type, {})
<1>1. Tidy(x.type) /\ (x.lvalue => P!Kind(x.type) \notin {"VOID", "FUNCTION"})
  BY DEF Good, P!ProperOperand
<1>2. P!Complete(x.type) <=> P!Kind(x.type) \notin {"VOID", "STRUCT", "FUNCTION"}
  BY <1>1, CompleteIs
<1>3. /\ P!R!IsIncomplete(x.type) <=> P!Kind(x.type) \in {"VOID", "STRUCT"}
      /\ P!IsArray(x.type) <=> P!Kind(x.type) = "ARRAY"
      /\ P!R!IsArray(x.type) <=> P!Kind(x.type) = "ARRAY"
  BY SameClasses
<1>4. P!R!Quals(x.type) = P!Quals(x.type)
  BY SameTypes
<1>5. P!R!IsModifiable(x) <=> P!Modifiable(x)
  BY <1>1, <1>2, <1>3, <1>4 DEF P!R!IsModifiable, P!Modifiable
<1>6. ASSUME P!Modifiable(x)
      PROVE  P!Kind(x.type) \notin {"ARRAY", "VOID", "STRUCT", "FUNCTION"}
  BY <1>2, <1>3, <1>6 DEF P!Modifiable
<1>7. P!Kind(x.type) \in P!ArithmeticKinds \cup {"VOID", "POINTER", "STRUCT", "ARRAY", "FUNCTION"}
  BY <1>1, TidyKind
<1>8. P!Unqualified(x.type) = With(x.type, {}) /\ P!R!Bare(x.type) = With(x.type, {})
  BY <1>1, UnqualifiedIs, SameTypes
<1> QED BY <1>5, <1>6, <1>7, <1>8, ValueIs

LEMMA IncDecAgrees ==
  ASSUME NEW x, Good(x)
  PROVE  Agreed(P!IncDecTypes(x), P!R!IncDec(x))
<1> DEFINE t == With(x.type, {})
           said == P!Said(t, FALSE, <<x.type>>)
           fits == P!Kind(x.type) \in P!ArithmeticKinds \/ P!ObjectPointer(x.type)
<1>1. /\ P!R!IsModifiable(x) <=> P!Modifiable(x)
      /\ P!Modifiable(x) => P!Kind(x.type) \in P!ArithmeticKinds \cup {"POINTER"}
      /\ P!Unqualified(x.type) = t /\ P!R!Bare(x.type) = t
  BY ModifiableIs, UnqualifiedIs, SameTypes DEF Good
<1>2. /\ P!R!IsArithmetic(x.type) <=> P!Kind(x.type) \in P!ArithmeticKinds
      /\ P!IsArithmetic(x.type) <=> P!Kind(x.type) \in P!ArithmeticKinds
      /\ P!R!ToObject(x.type) <=> P!ObjectPointer(x.type)
  BY SameClasses, ObjectPointerIs DEF Good
<1>3. P!IncDecTypes(x) = IF P!Modifiable(x) /\ fits THEN said ELSE P!Refused
  BY <1>1, <1>2, Zenon DEF P!IncDecTypes
<1>4. P!R!IncDec(x) = IF P!Modifiable(x) /\ fits THEN P!R!Value_(t, <<x.type>>) ELSE {}
  BY <1>1, <1>2, Zenon DEF P!R!IncDec
<1>5. P!Modifiable(x) => ValueType(t)
  <2>1. Tidy(t) /\ P!Kind(t) = P!Kind(x.type) /\ P!Quals(t) = {}
    BY UnqualifiedIs DEF Good
  <2> QED BY <1>1, <2>1, KindsDiffer DEF ValueType
<1>6. P!Modifiable(x) => Agreed(said, {said}) /\ P!R!Value_(t, <<x.type>>) = {said}
  BY <1>5, ValueAnswer
<1> QED BY <1>3, <1>4, <1>6, NoAnswer, Zenon

LEMMA SizeofAgrees ==
  ASSUME NEW x, Good(x)
  PROVE  Agreed(P!SizeofTypes(x), P!R!Sizeof(x, P!SizeType(FALSE)))
<1>1. P!Complete(x.type) <=> ~(P!R!IsIncomplete(x.type) \/ P!R!IsFunction(x.type))
  BY CompleteIs, SameClasses DEF Good
<1>2. ValueType(P!SizeType(FALSE))
  BY IntIsValue
<1>3. /\ Agreed(P!Said(P!SizeType(FALSE), FALSE, <<x.type>>), {P!Said(P!SizeType(FALSE), FALSE, <<x.type>>)})
      /\ P!R!Value_(P!SizeType(FALSE), <<x.type>>) = {P!Said(P!SizeType(FALSE), FALSE, <<x.type>>)}
  BY <1>2, ValueAnswer
<1> QED BY <1>1, <1>3, NoAnswer, Zenon DEF P!SizeofTypes, P!R!Sizeof

LEMMA UnaryAgrees ==
  ASSUME Target, NEW x, Good(x), NEW op \in {"POS", "NEG", "BITNOT", "NOT"}
  PROVE  /\ Agreed(P!UnaryTypes(op, x), P!R!Unary(op, x))
         /\ op \in {"POS", "NEG"} /\ P!NullConstant(x) => P!Kind(P!UnaryTypes(op, x).type) \in P!Integral
<1> DEFINE t == P!Value(x)
           k == P!Kind(t)
           promoted == P!PromotedType(t)
<1>1. ValueType(t) /\ P!R!Decayed(x) = t /\ (P!NullConstant(x) => k \in P!Integral)
  BY ValueIs
<1>2. /\ P!R!IsScalar(t) <=> k \in P!ArithmeticKinds \cup {"POINTER"}
      /\ P!IsScalar(t) <=> k \in P!ArithmeticKinds \cup {"POINTER"}
      /\ P!R!IsInteger(t) <=> k \in P!Integral
      /\ P!IsIntegral(t) <=> k \in P!Integral
      /\ P!IsArithmetic(t) <=> k \in P!ArithmeticKinds
      /\ P!R!Kind(t) = k
  BY SameClasses, SameTypes
<1>3. k \in P!ArithmeticKinds =>
        /\ P!R!Promote(t) = promoted /\ ValueType(promoted)
        /\ k \in P!Integral => P!Kind(promoted) \in P!Integral
        /\ k \notin P!Integral => promoted = t
  BY <1>1, PromotedIs DEF Numeric
<1>4. /\ P!ArithmeticKinds = P!Integral \cup P!Floating /\ P!Integral \cap P!Floating = {}
      /\ P!R!Floating = P!Floating
  BY KindsDiffer DEF P!R!Floating, P!Floating
<1> HIDE DEF t, k, promoted
<1>5. CASE op = "NOT"
  <2> DEFINE said == P!Said(P!IntTy, FALSE, <<t>>)
             scalar == k \in P!ArithmeticKinds \cup {"POINTER"}
  <2>1. P!UnaryTypes(op, x) = IF scalar THEN said ELSE P!Refused
    BY <1>2, <1>5, Zenon DEF P!UnaryTypes, t
  <2>2. P!R!Unary(op, x) = IF scalar THEN P!R!Value_(P!IntTy, <<t>>) ELSE {}
    <3>1. op \notin {"POS", "NEG", "BITNOT"} /\ op \notin {"POS", "NEG"}
      BY <1>5
    <3>2. P!R!Basic("INT") = P!IntTy
      BY IntIsValue
    <3>3. CASE scalar
      BY <1>1, <1>2, <1>5, <3>1, <3>2, <3>3, Zenon DEF P!R!Unary
    <3>4. CASE ~scalar
      BY <1>1, <1>2, <1>5, <3>1, <3>4, Zenon DEF P!R!Unary
    <3> QED BY <3>3, <3>4
  <2>3. Agreed(said, {said}) /\ P!R!Value_(P!IntTy, <<t>>) = {said}
    BY IntIsValue, ValueAnswer
  <2> QED BY <1>5, <2>1, <2>2, <2>3, NoAnswer
<1>6. CASE op # "NOT"
  <2> DEFINE said == P!Said(promoted, FALSE, <<promoted>>)
             fits == k \in P!ArithmeticKinds /\ (op = "BITNOT" => k \in P!Integral)
  <2>1. P!UnaryTypes(op, x) = IF fits THEN said ELSE P!Refused
    BY <1>2, <1>6, Zenon DEF P!UnaryTypes, t, promoted
  <2>2. P!R!Unary(op, x) = IF fits THEN P!R!Value_(promoted, <<promoted>>) ELSE {}
    <3>1. CASE k \in P!Integral
      BY <1>1, <1>2, <1>3, <1>4, <1>6, <3>1 DEF P!R!Unary
    <3>2. CASE k \in P!Floating
      BY <1>1, <1>2, <1>3, <1>4, <1>6, <3>2 DEF P!R!Unary
    <3>3. CASE k \notin P!ArithmeticKinds
      BY <1>1, <1>2, <1>3, <1>4, <1>6, <3>3 DEF P!R!Unary
    <3> QED BY <1>4, <3>1, <3>2, <3>3
  <2>3. fits => Agreed(said, {said}) /\ P!R!Value_(promoted, <<promoted>>) = {said}
    <3>1. fits => ValueType(promoted)
      BY <1>3
    <3> HIDE DEF fits
    <3> QED BY <3>1, ValueAnswer
  <2>4. said.type = promoted
    BY SaidFields, Zenon
  <2>5. k \in P!Integral => P!UnaryTypes(op, x).type = promoted
    BY <1>4, <2>1, <2>4
  <2>6. Agreed(P!UnaryTypes(op, x), P!R!Unary(op, x))
    BY <2>1, <2>2, <2>3, NoAnswer, Zenon
  <2> QED BY <1>1, <1>3, <1>4, <2>5, <2>6
<1> QED BY <1>5, <1>6

\* Both operands converted to one type.
LEMMA MeetIs ==
  ASSUME Assumed, NEW x, Good(x), NEW y, Good(y), NEW r, ValueType(r), NEW to, ValueType(to),
         ConvertsTo(x, to), ConvertsTo(y, to)
  PROVE  Agreed(P!Meet(r, x, y, to), P!R!Value_(r, <<to, to>>)) /\ P!Meet(r, x, y, to).type = r
<1>1. P!Convert(x, to) = to /\ P!Convert(y, to) = to
  BY ConvertValue
<1>2. P!Meet(r, x, y, to) = P!Said(r, FALSE, <<to, to>>)
  BY <1>1, Zenon DEF P!Meet
<1> QED BY <1>2, SameAnswer

\* What is said of the classes of two operands, in Sema's words and in C's.
LEMMA ClassesOfTwo ==
  ASSUME NEW x, Good(x), NEW y, Good(y)
  PROVE  LET a == P!Value(x)
             b == P!Value(y)
         IN  /\ ValueType(a) /\ ValueType(b) /\ P!R!Decayed(x) = a /\ P!R!Decayed(y) = b
             /\ P!NullConstant(x) => P!Kind(a) \in P!Integral
             /\ P!NullConstant(y) => P!Kind(b) \in P!Integral
             /\ P!R!IsZero(x) <=> P!NullConstant(x)
             /\ P!R!IsZero(y) <=> P!NullConstant(y)
             /\ P!IsArithmetic(a) <=> Numeric(a)
             /\ P!IsArithmetic(b) <=> Numeric(b)
             /\ P!R!IsArithmetic(a) <=> Numeric(a)
             /\ P!R!IsArithmetic(b) <=> Numeric(b)
             /\ P!IsPointer(a) <=> P!Kind(a) = "POINTER"
             /\ P!IsPointer(b) <=> P!Kind(b) = "POINTER"
             /\ P!R!IsPointer(a) <=> P!Kind(a) = "POINTER"
             /\ P!R!IsPointer(b) <=> P!Kind(b) = "POINTER"
             /\ P!IsIntegral(a) <=> P!Kind(a) \in P!Integral
             /\ P!IsIntegral(b) <=> P!Kind(b) \in P!Integral
             /\ P!R!IsInteger(a) <=> P!Kind(a) \in P!Integral
             /\ P!R!IsInteger(b) <=> P!Kind(b) \in P!Integral
             /\ P!R!IsScalar(a) <=> Numeric(a) \/ P!Kind(a) = "POINTER"
             /\ P!R!IsScalar(b) <=> Numeric(b) \/ P!Kind(b) = "POINTER"
             /\ P!IsScalar(a) <=> Numeric(a) \/ P!Kind(a) = "POINTER"
             /\ P!IsScalar(b) <=> Numeric(b) \/ P!Kind(b) = "POINTER"
             /\ P!Kind(a) \in P!Integral => Numeric(a)
             /\ P!Kind(b) \in P!Integral => Numeric(b)
             /\ P!Kind(a) = "POINTER" => ~Numeric(a)
             /\ P!Kind(b) = "POINTER" => ~Numeric(b)
<1> DEFINE a == P!Value(x)
           b == P!Value(y)
<1>1. /\ ValueType(a) /\ ValueType(b) /\ P!R!Decayed(x) = a /\ P!R!Decayed(y) = b
      /\ P!NullConstant(x) => P!Kind(a) \in P!Integral
      /\ P!NullConstant(y) => P!Kind(b) \in P!Integral
  BY ValueIs
<1>2. /\ P!R!IsZero(x) <=> P!NullConstant(x)
      /\ P!R!IsZero(y) <=> P!NullConstant(y)
  BY DEF P!R!IsZero, P!NullConstant
<1>3. ASSUME NEW t
      PROVE  /\ P!IsArithmetic(t) <=> Numeric(t)
             /\ P!R!IsArithmetic(t) <=> Numeric(t)
             /\ P!IsPointer(t) <=> P!Kind(t) = "POINTER"
             /\ P!R!IsPointer(t) <=> P!Kind(t) = "POINTER"
             /\ P!IsIntegral(t) <=> P!Kind(t) \in P!Integral
             /\ P!R!IsInteger(t) <=> P!Kind(t) \in P!Integral
             /\ P!R!IsScalar(t) <=> Numeric(t) \/ P!Kind(t) = "POINTER"
             /\ P!IsScalar(t) <=> Numeric(t) \/ P!Kind(t) = "POINTER"
             /\ P!Kind(t) \in P!Integral => Numeric(t)
             /\ P!Kind(t) = "POINTER" => ~Numeric(t)
  BY SameClasses, KindsDiffer DEF Numeric
<1> HIDE DEF a, b
<1> QED BY <1>1, <1>2, <1>3 DEF a, b

LEMMA CompareAgrees ==
  ASSUME Target, Assumed, NEW x, Good(x), NEW y, Good(y), NEW op \in P!Comparisons
  PROVE  LET said == P!CompareTypes(op, x, y)
             admitted == P!R!Comparison_(op, x, y)
             open == op \in {"LT", "GT", "LEQ", "GEQ"} /\ P!R!VoidPointer(x) /\ P!R!VoidPointer(y)
         IN  /\ Agreed(said, IF open THEN P!Stricter(said, admitted) ELSE admitted)
             /\ said = P!Refused \/ said.type = P!IntTy
<1> DEFINE a == P!Value(x)
           b == P!Value(y)
           eq == op \in {"EQ", "NEQ"}
           open == op \in {"LT", "GT", "LEQ", "GEQ"} /\ P!R!VoidPointer(x) /\ P!R!VoidPointer(y)
           said == P!CompareTypes(op, x, y)
           admitted == P!R!Comparison_(op, x, y)
           common == IF P!IsPointer(a) /\ P!IsPointer(b)
                          /\ (eq \/ ~(P!IsFunction(P!Inner(a)) \/ P!IsVoid(P!Inner(a))))
                     THEN P!CommonPointer(a, b, eq) ELSE P!NoType
<1>1. /\ ValueType(a) /\ ValueType(b) /\ P!R!Decayed(x) = a /\ P!R!Decayed(y) = b
      /\ P!NullConstant(x) => P!Kind(a) \in P!Integral
      /\ P!NullConstant(y) => P!Kind(b) \in P!Integral
      /\ P!R!IsZero(x) <=> P!NullConstant(x)
      /\ P!R!IsZero(y) <=> P!NullConstant(y)
      /\ P!IsArithmetic(a) <=> Numeric(a)
      /\ P!IsArithmetic(b) <=> Numeric(b)
      /\ P!R!IsArithmetic(a) <=> Numeric(a)
      /\ P!R!IsArithmetic(b) <=> Numeric(b)
      /\ P!IsPointer(a) <=> P!Kind(a) = "POINTER"
      /\ P!IsPointer(b) <=> P!Kind(b) = "POINTER"
      /\ P!R!IsPointer(a) <=> P!Kind(a) = "POINTER"
      /\ P!R!IsPointer(b) <=> P!Kind(b) = "POINTER"
      /\ P!Kind(a) \in P!Integral => Numeric(a)
      /\ P!Kind(b) \in P!Integral => Numeric(b)
      /\ P!Kind(a) = "POINTER" => ~Numeric(a)
      /\ P!Kind(b) = "POINTER" => ~Numeric(b)
  BY ClassesOfTwo
<1>2. said = CASE P!IsArithmetic(a) /\ P!IsArithmetic(b) -> P!Meet(P!IntTy, x, y, P!CommonArithmetic(a, b))
               [] common # P!NoType                  -> P!Meet(P!IntTy, x, y, common)
               [] eq /\ P!IsPointer(a) /\ P!NullConstant(y) -> P!Said(P!IntTy, FALSE, <<a, P!Convert(y, a)>>)
               [] eq /\ P!IsPointer(b) /\ P!NullConstant(x) -> P!Said(P!IntTy, FALSE, <<P!Convert(x, b), b>>)
               [] OTHER                              -> P!Refused
  BY Zenon DEF P!CompareTypes
<1>3. admitted = CASE P!R!IsArithmetic(a) /\ P!R!IsArithmetic(b) ->
                        P!R!Value_(P!IntTy, <<P!R!Common(a, b), P!R!Common(a, b)>>)
                   [] P!R!ToVersions(a, b) /\ (eq \/ ~P!R!IsFunction(P!R!Inner(a))) ->
                        P!R!Value_(P!IntTy, <<P!R!Joined(a, b), P!R!Joined(a, b)>>)
                   [] eq /\ P!R!ToVoid(a, b) /\ ~P!R!ToVersions(a, b) ->
                        P!R!Value_(P!IntTy, <<P!R!Joined(a, b), P!R!Joined(a, b)>>)
                   [] eq /\ P!R!IsPointer(a) /\ P!R!IsZero(y) -> P!R!Value_(P!IntTy, <<a, a>>)
                   [] eq /\ P!R!IsPointer(b) /\ P!R!IsZero(x) -> P!R!Value_(P!IntTy, <<b, b>>)
                   [] OTHER -> {}
  <2>1. P!R!Basic("INT") = P!IntTy
    BY IntIsValue
  <2> HIDE DEF a, b
  <2> QED BY <1>1, <2>1, Zenon DEF P!R!Comparison_
<1>4. ValueType(P!IntTy)
  BY IntIsValue
<1> HIDE DEF a, b, said, admitted, common
<1>5. ASSUME P!Kind(a) # "POINTER" \/ P!Kind(b) # "POINTER"
      PROVE  ~P!R!ToVersions(a, b) /\ ~P!R!ToVoid(a, b) /\ common = P!NoType /\ ~open
  <2>1. ~P!R!VoidPointer(x) \/ ~P!R!VoidPointer(y)
    BY <1>1, <1>5 DEF P!R!VoidPointer
  <2> QED BY <1>1, <1>5, <2>1, Zenon DEF P!R!ToVersions, P!R!ToVoid, common
<1>6. CASE Numeric(a) /\ Numeric(b)
  <2> DEFINE c == P!CommonArithmetic(a, b)
  <2>1. c = P!R!Common(a, b) /\ ValueType(c) /\ Numeric(c)
    BY <1>6, CommonTypeIs
  <2>2. P!Kind(a) # "POINTER" /\ P!Kind(b) # "POINTER"
    BY <1>1, <1>6
  <2>3. admitted = P!R!Value_(P!IntTy, <<c, c>>) /\ ~open
    BY <1>1, <1>3, <1>5, <1>6, <2>1, <2>2, Zenon
  <2>4. said = P!Meet(P!IntTy, x, y, c)
    <3>1. common = P!NoType /\ ~P!IsPointer(a) /\ ~P!IsPointer(b)
      BY <1>1, <1>5, <2>2, Zenon
    <3> QED BY <1>1, <1>2, <1>6, <3>1, Zenon
  <2>5. ConvertsTo(x, c) /\ ConvertsTo(y, c)
    <3> HIDE DEF c
    <3> QED BY <1>6, <2>1, Zenon DEF ConvertsTo, a, b
  <2>6. Agreed(said, admitted) /\ said.type = P!IntTy
    <3> HIDE DEF c
    <3> QED BY <1>4, <2>1, <2>3, <2>4, <2>5, MeetIs
  <2> QED BY <2>3, <2>6, Zenon DEF said, admitted
<1>7. CASE P!Kind(a) = "POINTER" /\ P!Kind(b) = "POINTER"
  <2> DEFINE j == P!R!Joined(a, b)
             f == P!Kind(P!Inner(a)) = "FUNCTION"
             v == P!Kind(P!Inner(a)) = "VOID"
             w == P!Kind(P!Inner(b)) = "VOID"
  <2>1. PointerValue(a) /\ PointerValue(b)
    BY <1>1, <1>7 DEF PointerValue
  <2>2. /\ P!IsFunction(P!Inner(a)) <=> f
        /\ P!R!IsFunction(P!R!Inner(a)) <=> f
        /\ P!IsVoid(P!Inner(a)) <=> v
        /\ P!R!IsVoid(P!R!Inner(a)) <=> v
        /\ P!R!IsVoid(P!R!Inner(b)) <=> w
    BY SameClasses, SameTypes
  <2>3. (P!R!ToVersions(a, b) <=> Versions(a, b)) /\ (P!R!ToVoid(a, b) <=> Meets(a, b))
    BY <2>1, PointerPairs
  <2>4. open <=> ~eq /\ v /\ w
    <3>1. P!R!VoidPointer(x) <=> v
      BY <1>1, <1>7, <2>2 DEF P!R!VoidPointer
    <3>2. P!R!VoidPointer(y) <=> w
      BY <1>1, <1>7, <2>2 DEF P!R!VoidPointer
    <3>3. op \in {"LT", "GT", "LEQ", "GEQ"} <=> ~eq
      BY DEF P!Comparisons
    <3> QED BY <3>1, <3>2, <3>3
  <2>5. common = IF eq \/ ~(f \/ v) THEN P!CommonPointer(a, b, eq) ELSE P!NoType
    BY <1>1, <1>7, <2>2, Zenon DEF common
  <2>6. P!CommonPointer(a, b, eq) = IF Versions(a, b) \/ (eq /\ Meets(a, b)) THEN j ELSE P!NoType
    <3>1. eq \in BOOLEAN
      OBVIOUS
    <3> HIDE DEF eq
    <3> QED BY <2>1, <3>1, CommonPointerIs DEF j
  <2>7. Versions(a, b) => (v <=> w)
    <3>1. Tidy(P!Inner(a)) /\ Tidy(P!Inner(b))
      BY <2>1, ValueTypeIs DEF PointerValue
    <3>2. P!Kind(With(P!Inner(a), {})) = P!Kind(P!Inner(a)) /\ P!Kind(With(P!Inner(b), {})) = P!Kind(P!Inner(b))
      BY <3>1, UnqualifiedIs
    <3> QED BY <3>2, Zenon DEF Versions
  <2> DEFINE joins == (Versions(a, b) /\ (eq \/ ~(f \/ v))) \/ (eq /\ Meets(a, b))
  <2>8. v => ~f
    OBVIOUS
  <2> HIDE DEF j, f, v, w, eq, open
  <2>9. CASE joins
    <3>1. common = j
      BY <2>5, <2>6, <2>9
    <3>2. PointerValue(j) /\ P!PointerConvertible(j, a) /\ P!PointerConvertible(j, b)
      BY <2>1, <2>9, JoinedIs DEF j
    <3>3. j # P!NoType
      BY <3>2, ValueTypeIs DEF PointerValue
    <3>4. said = P!Meet(P!IntTy, x, y, j)
      BY <1>1, <1>2, <1>7, <3>1, <3>3, Zenon
    <3>5. admitted = P!R!Value_(P!IntTy, <<j, j>>)
      <4>1. CASE Versions(a, b)
        <5>1. P!R!ToVersions(a, b) /\ (eq \/ ~f) /\ ~P!R!IsArithmetic(a)
          BY <1>1, <1>7, <2>3, <2>8, <2>9, <4>1 DEF Meets, f
        <5>2. ~P!R!IsZero(x) /\ ~P!R!IsZero(y)
          BY <1>1, <1>7
        <5> QED BY <1>3, <2>2, <5>1, <5>2, Zenon DEF j
      <4>2. CASE ~Versions(a, b)
        <5>1. ~P!R!ToVersions(a, b) /\ eq /\ P!R!ToVoid(a, b) /\ ~P!R!IsArithmetic(a)
          BY <1>1, <1>7, <2>3, <2>9, <4>2
        <5>2. ~P!R!IsZero(x) /\ ~P!R!IsZero(y)
          BY <1>1, <1>7
        <5> QED BY <1>3, <2>2, <5>1, <5>2, Zenon DEF j
      <4> QED BY <4>1, <4>2
    <3>6. ConvertsTo(x, j) /\ ConvertsTo(y, j)
      BY <3>2, Zenon DEF ConvertsTo, a, b
    <3>7. Agreed(said, admitted) /\ said.type = P!IntTy
      BY <1>4, <3>2, <3>4, <3>5, <3>6, MeetIs DEF PointerValue
    <3>8. said # P!Refused
      BY <1>4, <3>7, RefusedIs, ValueTypeIs
    <3> QED BY <3>7, <3>8, Zenon DEF P!Stricter, said, admitted, open
  <2>10. CASE ~joins
    <3>1. common = P!NoType
      BY <2>5, <2>6, <2>10
    <3>2. ~P!IsArithmetic(a) /\ ~P!NullConstant(x) /\ ~P!NullConstant(y)
      BY <1>1, <1>7
    <3>3. said = P!Refused
      BY <1>2, <3>1, <3>2, Zenon
    <3>4. ~open => admitted = {}
      <4>1. SUFFICES ASSUME ~open
                     PROVE  admitted = {}
        OBVIOUS
      <4>2. ~(P!R!ToVersions(a, b) /\ (eq \/ ~f)) /\ ~(eq /\ P!R!ToVoid(a, b))
        BY <2>3, <2>4, <2>7, <2>10, <4>1
      <4>3. ~P!R!IsArithmetic(a) /\ ~P!R!IsZero(x) /\ ~P!R!IsZero(y)
        BY <1>1, <3>2
      <4> QED BY <1>3, <2>2, <4>2, <4>3, Zenon
    <3> QED BY <3>3, <3>4, NoAnswer, Zenon DEF P!Stricter, said, admitted, open
  <2> QED BY <2>9, <2>10
<1>8. CASE eq /\ P!Kind(a) = "POINTER" /\ P!NullConstant(y)
  <2>1. Numeric(b) /\ P!Kind(b) # "POINTER" /\ ~Numeric(a) /\ ~P!NullConstant(x)
    BY <1>1, <1>8
  <2>2. ~P!R!ToVersions(a, b) /\ ~P!R!ToVoid(a, b) /\ common = P!NoType /\ ~open
    BY <1>5, <2>1
  <2>3. ConvertsTo(y, a)
    BY <1>8, Zenon DEF ConvertsTo
  <2>4. P!Convert(y, a) = a
    BY <1>1, <2>3, ConvertValue
  <2> HIDE DEF eq, open
  <2>5. said = P!Said(P!IntTy, FALSE, <<a, a>>)
    BY <1>1, <1>2, <1>8, <2>1, <2>2, <2>4, Zenon
  <2>6. admitted = P!R!Value_(P!IntTy, <<a, a>>)
    BY <1>1, <1>3, <1>8, <2>1, <2>2, Zenon
  <2>7. Agreed(said, admitted) /\ said.type = P!IntTy
    BY <1>4, <2>5, <2>6, SameAnswer
  <2> QED BY <2>2, <2>7, Zenon DEF said, admitted, open
<1>9. CASE eq /\ P!Kind(b) = "POINTER" /\ P!NullConstant(x)
  <2>1. Numeric(a) /\ P!Kind(a) # "POINTER" /\ ~Numeric(b) /\ ~P!NullConstant(y)
    BY <1>1, <1>9
  <2>2. ~P!R!ToVersions(a, b) /\ ~P!R!ToVoid(a, b) /\ common = P!NoType /\ ~open
    BY <1>5, <2>1
  <2>3. ConvertsTo(x, b)
    BY <1>9, Zenon DEF ConvertsTo
  <2>4. P!Convert(x, b) = b
    BY <1>1, <2>3, ConvertValue
  <2> HIDE DEF eq, open
  <2>5. said = P!Said(P!IntTy, FALSE, <<b, b>>)
    BY <1>1, <1>2, <1>9, <2>1, <2>2, <2>4, Zenon
  <2>6. admitted = P!R!Value_(P!IntTy, <<b, b>>)
    BY <1>1, <1>3, <1>9, <2>1, <2>2, Zenon
  <2>7. Agreed(said, admitted) /\ said.type = P!IntTy
    BY <1>4, <2>5, <2>6, SameAnswer
  <2> QED BY <2>2, <2>7, Zenon DEF said, admitted, open
<1>10. CASE /\ ~(Numeric(a) /\ Numeric(b)) /\ ~(P!Kind(a) = "POINTER" /\ P!Kind(b) = "POINTER")
            /\ ~(eq /\ P!Kind(a) = "POINTER" /\ P!NullConstant(y))
            /\ ~(eq /\ P!Kind(b) = "POINTER" /\ P!NullConstant(x))
  <2>2. ~P!R!ToVersions(a, b) /\ ~P!R!ToVoid(a, b) /\ common = P!NoType /\ ~open
    BY <1>5, <1>10
  <2> HIDE DEF eq, open
  <2>5. said = P!Refused
    BY <1>1, <1>2, <1>10, <2>2, Zenon
  <2>6. admitted = {}
    BY <1>1, <1>3, <1>10, <2>2, Zenon
  <2> QED BY <2>2, <2>5, <2>6, NoAnswer, Zenon DEF said, admitted, open
<1> HIDE DEF eq, open
<1>11. /\ Agreed(said, IF open THEN P!Stricter(said, admitted) ELSE admitted)
       /\ said = P!Refused \/ said.type = P!IntTy
  BY <1>6, <1>7, <1>8, <1>9, <1>10, Zenon DEF said, admitted, open
<1> QED BY <1>11, Zenon DEF said, admitted, open

\* What + and - answer, and what of: numbers, a pointer and an integer, or two pointers.
LEMMA AdditiveAgrees ==
  ASSUME Target, Assumed, NEW x, Good(x), NEW y, Good(y), NEW op \in {"ADD", "SUB"}
  PROVE  LET a == P!Value(x)
             b == P!Value(y)
             said == P!AdditiveTypes(op, x, y)
         IN  /\ Agreed(said, P!R!Additive(op, a, b, P!SizeType(TRUE)))
             /\ Numeric(a) /\ Numeric(b) => Numeric(said.type)
             /\ P!ObjectPointer(a) /\ P!Kind(b) \in P!Integral => said.type = a
             /\ ~Numeric(a) /\ ~(P!ObjectPointer(a) /\ P!Kind(b) \in P!Integral) =>
                  said = P!Refused \/ Numeric(said.type)
             /\ Numeric(a) /\ ~Numeric(b) => said = P!Refused \/ P!Kind(said.type) = "POINTER"
<1> DEFINE a == P!Value(x)
           b == P!Value(y)
           size == P!SizeType(TRUE)
           said == P!AdditiveTypes(op, x, y)
           admitted == P!R!Additive(op, a, b, size)
<1>1. /\ ValueType(a) /\ ValueType(b)
      /\ P!IsArithmetic(a) <=> Numeric(a)
      /\ P!IsArithmetic(b) <=> Numeric(b)
      /\ P!R!IsArithmetic(a) <=> Numeric(a)
      /\ P!R!IsArithmetic(b) <=> Numeric(b)
      /\ P!IsIntegral(a) <=> P!Kind(a) \in P!Integral
      /\ P!IsIntegral(b) <=> P!Kind(b) \in P!Integral
      /\ P!R!IsInteger(a) <=> P!Kind(a) \in P!Integral
      /\ P!R!IsInteger(b) <=> P!Kind(b) \in P!Integral
      /\ P!Kind(a) \in P!Integral => Numeric(a)
      /\ P!Kind(b) \in P!Integral => Numeric(b)
      /\ P!Kind(a) = "POINTER" => ~Numeric(a)
      /\ P!Kind(b) = "POINTER" => ~Numeric(b)
  BY ClassesOfTwo
<1>2. /\ P!R!ToObject(a) <=> P!ObjectPointer(a)
      /\ P!R!ToObject(b) <=> P!ObjectPointer(b)
      /\ P!ObjectPointer(a) => P!Kind(a) = "POINTER"
      /\ P!ObjectPointer(b) => P!Kind(b) = "POINTER"
  BY <1>1, ObjectPointerIs DEF ValueType
<1>3. P!ObjectPointer(a) => (P!R!ToVersions(a, b) <=> P!ObjectPointer(b) /\ P!Compatible(P!Inner(a), P!Inner(b), TRUE))
  <2>1. CASE P!Kind(a) = "POINTER" /\ P!Kind(b) = "POINTER"
    <3>1. PointerValue(a) /\ PointerValue(b)
      BY <1>1, <2>1 DEF PointerValue
    <3>2. /\ P!Compatible(P!Inner(a), P!Inner(b), TRUE) <=> Versions(a, b)
          /\ P!R!ToVersions(a, b) <=> Versions(a, b)
      BY <3>1, PointerPairs
    <3>3. Tidy(P!Inner(a)) /\ Tidy(P!Inner(b))
      BY <3>1, ValueTypeIs DEF PointerValue
    <3>4. Versions(a, b) => P!Kind(P!Inner(a)) = P!Kind(P!Inner(b))
      <4>1. P!Kind(With(P!Inner(a), {})) = P!Kind(P!Inner(a)) /\ P!Kind(With(P!Inner(b), {})) = P!Kind(P!Inner(b))
        BY <3>3, UnqualifiedIs
      <4> QED BY <4>1, Zenon DEF Versions
    <3>5. /\ P!ObjectPointer(a) <=> P!Kind(P!Inner(a)) \notin {"VOID", "STRUCT", "FUNCTION"}
          /\ P!ObjectPointer(b) <=> P!Kind(P!Inner(b)) \notin {"VOID", "STRUCT", "FUNCTION"}
      BY <1>1, <2>1, ObjectPointerIs DEF ValueType
    <3> QED BY <3>2, <3>4, <3>5
  <2>2. CASE ~(P!Kind(a) = "POINTER" /\ P!Kind(b) = "POINTER")
    <3>1. /\ P!R!IsPointer(a) <=> P!Kind(a) = "POINTER"
          /\ P!R!IsPointer(b) <=> P!Kind(b) = "POINTER"
      BY SameClasses
    <3> QED BY <1>2, <2>2, <3>1 DEF P!R!ToVersions
  <2> QED BY <2>1, <2>2
<1>4. said = CASE P!IsArithmetic(a) /\ P!IsArithmetic(b) ->
                    P!Meet(P!CommonArithmetic(a, b), x, y, P!CommonArithmetic(a, b))
               [] P!ObjectPointer(a) /\ P!IsIntegral(b) ->
                    P!Said(a, FALSE, <<a, P!Convert(y, P!PromotedType(b))>>)
               [] op = "ADD" /\ P!IsIntegral(a) /\ P!ObjectPointer(b) ->
                    P!Said(b, FALSE, <<P!Convert(x, P!PromotedType(a)), b>>)
               [] op = "SUB" /\ P!ObjectPointer(a) /\ P!ObjectPointer(b) /\ P!Compatible(P!Inner(a), P!Inner(b), TRUE) ->
                    P!Said(size, FALSE, <<a, b>>)
               [] OTHER -> P!Refused
  BY Zenon DEF P!AdditiveTypes
<1>5. admitted = CASE P!R!IsArithmetic(a) /\ P!R!IsArithmetic(b) ->
                        P!R!Value_(P!R!Common(a, b), <<P!R!Common(a, b), P!R!Common(a, b)>>)
                   [] P!R!ToObject(a) /\ P!R!IsInteger(b) -> P!R!Value_(a, <<a, P!R!Promote(b)>>)
                   [] op = "ADD" /\ P!R!IsInteger(a) /\ P!R!ToObject(b) -> P!R!Value_(b, <<P!R!Promote(a), b>>)
                   [] op = "SUB" /\ P!R!ToObject(a) /\ P!R!ToVersions(a, b) -> P!R!Value_(size, <<a, b>>)
                   [] OTHER -> {}
  BY Zenon DEF P!R!Additive
<1>6. ASSUME NEW z, Good(z), P!Kind(P!Value(z)) \in P!Integral
      PROVE  P!Convert(z, P!PromotedType(P!Value(z))) = P!PromotedType(P!Value(z))
             /\ P!R!Promote(P!Value(z)) = P!PromotedType(P!Value(z))
  <2> DEFINE t == P!Value(z)
             p == P!PromotedType(t)
  <2>1. ValueType(t) /\ Numeric(t)
    BY <1>6, ValueIs, KindsDiffer DEF Numeric
  <2>2. P!R!Promote(t) = p /\ ValueType(p) /\ Numeric(p)
    BY <2>1, PromotedIs
  <2>3. ConvertsTo(z, p)
    <3> HIDE DEF p
    <3> QED BY <2>1, <2>2, Zenon DEF ConvertsTo
  <2> QED BY <1>6, <2>2, <2>3, ConvertValue
<1>7. ValueType(size) /\ Numeric(size)
  BY IntIsValue, KindsDiffer DEF Numeric
<1> HIDE DEF a, b, size, said, admitted
<1>8. CASE Numeric(a) /\ Numeric(b)
  <2> DEFINE c == P!CommonArithmetic(a, b)
  <2>1. c = P!R!Common(a, b) /\ ValueType(c) /\ Numeric(c)
    BY <1>8, CommonTypeIs
  <2>2. ~P!ObjectPointer(a) /\ ~P!ObjectPointer(b)
    BY <1>1, <1>2, <1>8
  <2>3. ConvertsTo(x, c) /\ ConvertsTo(y, c)
    <3> HIDE DEF c
    <3> QED BY <1>8, <2>1, Zenon DEF ConvertsTo, a, b
  <2>4. said = P!Meet(c, x, y, c)
    BY <1>1, <1>4, <1>8, <2>2, Zenon
  <2>5. admitted = P!R!Value_(c, <<c, c>>)
    BY <1>1, <1>2, <1>5, <1>8, <2>1, <2>2, Zenon
  <2>6. Agreed(said, admitted)
    <3> HIDE DEF c
    <3> QED BY <2>1, <2>3, <2>4, <2>5, MeetIs
  <2>7. said.type = c
    <3>1. said = P!Said(c, FALSE, <<P!Convert(x, c), P!Convert(y, c)>>)
      BY <2>4, Zenon DEF P!Meet
    <3> QED BY <3>1, SaidFields, Zenon
  <2> QED BY <1>8, <2>1, <2>2, <2>6, <2>7, Zenon DEF said, admitted, a, b, size
<1>9. CASE P!ObjectPointer(a) /\ P!Kind(b) \in P!Integral
  <2> DEFINE p == P!PromotedType(b)
  <2>1. ~Numeric(a) /\ ~P!ObjectPointer(b) /\ P!Kind(a) \notin P!Integral
    BY <1>1, <1>2, <1>9
  <2>2. P!Convert(y, p) = p /\ P!R!Promote(b) = p
    BY <1>6, <1>9 DEF b
  <2>3. said = P!Said(a, FALSE, <<a, p>>)
    BY <1>1, <1>4, <1>9, <2>1, <2>2, Zenon
  <2>4. admitted = P!R!Value_(a, <<a, p>>)
    <3>1. ~P!R!ToVersions(a, b)
      BY <1>3, <1>9, <2>1
    <3> QED BY <1>1, <1>2, <1>5, <1>9, <2>1, <2>2, <3>1, Zenon
  <2>5. Agreed(said, admitted)
    BY <1>1, <2>3, <2>4, ValueAnswer
  <2>6. said.type = a
    BY <2>3, SaidFields, Zenon
  <2> QED BY <1>9, <2>1, <2>5, <2>6, Zenon DEF said, admitted, a, b, size
<1>10. CASE op = "ADD" /\ P!Kind(a) \in P!Integral /\ P!ObjectPointer(b)
  <2> DEFINE p == P!PromotedType(a)
  <2>1. ~Numeric(b) /\ ~P!ObjectPointer(a) /\ P!Kind(b) \notin P!Integral /\ op # "SUB" /\ Numeric(a) /\ P!Kind(b) = "POINTER"
    BY <1>1, <1>2, <1>10
  <2>2. P!Convert(x, p) = p /\ P!R!Promote(a) = p
    BY <1>6, <1>10 DEF a
  <2>3. said = P!Said(b, FALSE, <<p, b>>)
    BY <1>1, <1>4, <1>10, <2>1, <2>2, Zenon
  <2>4. admitted = P!R!Value_(b, <<p, b>>)
    BY <1>1, <1>2, <1>5, <1>10, <2>1, <2>2, Zenon
  <2>5. Agreed(said, admitted)
    BY <1>1, <2>3, <2>4, ValueAnswer
  <2>6. said.type = b
    BY <2>3, SaidFields, Zenon
  <2> QED BY <1>10, <2>1, <2>5, <2>6, Zenon DEF said, admitted, a, b, size
<1>11. CASE op = "SUB" /\ P!ObjectPointer(a) /\ P!R!ToVersions(a, b)
  <2>1. /\ ~Numeric(a) /\ ~Numeric(b) /\ P!Kind(a) \notin P!Integral /\ P!Kind(b) \notin P!Integral
        /\ P!ObjectPointer(b) /\ P!Compatible(P!Inner(a), P!Inner(b), TRUE) /\ op # "ADD"
    BY <1>1, <1>2, <1>3, <1>11
  <2>2. said = P!Said(size, FALSE, <<a, b>>)
    BY <1>1, <1>4, <1>11, <2>1, Zenon
  <2>3. admitted = P!R!Value_(size, <<a, b>>)
    BY <1>1, <1>2, <1>5, <1>11, <2>1, Zenon
  <2>4. Agreed(said, admitted)
    BY <1>7, <2>2, <2>3, ValueAnswer
  <2>5. Numeric(said.type)
    <3>1. said.type = size
      BY <2>2, SaidFields, Zenon
    <3> QED BY <1>7, <3>1, Zenon
  <2> QED BY <1>11, <2>1, <2>4, <2>5, Zenon DEF said, admitted, a, b, size
<1>12. CASE /\ ~(Numeric(a) /\ Numeric(b)) /\ ~(P!ObjectPointer(a) /\ P!Kind(b) \in P!Integral)
            /\ ~(op = "ADD" /\ P!Kind(a) \in P!Integral /\ P!ObjectPointer(b))
            /\ ~(op = "SUB" /\ P!ObjectPointer(a) /\ P!R!ToVersions(a, b))
  <2>1. said = P!Refused
    BY <1>1, <1>3, <1>4, <1>12, Zenon
  <2>2. admitted = {}
    BY <1>1, <1>2, <1>5, <1>12, Zenon
  <2> QED BY <1>12, <2>1, <2>2, NoAnswer, Zenon DEF said, admitted, a, b, size
<1> QED BY <1>8, <1>9, <1>10, <1>11, <1>12, Zenon DEF said, admitted, a, b, size

\* What the operators on numbers answer.
LEMMA NumbersAgree ==
  ASSUME Target, Assumed, NEW x, Good(x), NEW y, Good(y), NEW op \in {"LSHIFT", "MUL", "MOD", "BITAND"}
  PROVE  LET a == P!Value(x)
             b == P!Value(y)
             said == P!BinaryTypes(op, x, y)
         IN  /\ Agreed(said, P!R!OnNumbers(op, a, b))
             /\ said = P!Refused \/ (Numeric(a) /\ Numeric(b) /\ Numeric(said.type))
<1> DEFINE a == P!Value(x)
           b == P!Value(y)
           said == P!BinaryTypes(op, x, y)
           admitted == P!R!OnNumbers(op, a, b)
           integral == P!Kind(a) \in P!Integral /\ P!Kind(b) \in P!Integral
<1>1. /\ ValueType(a) /\ ValueType(b)
      /\ P!IsArithmetic(a) <=> Numeric(a)
      /\ P!IsArithmetic(b) <=> Numeric(b)
      /\ P!R!IsArithmetic(a) <=> Numeric(a)
      /\ P!R!IsArithmetic(b) <=> Numeric(b)
      /\ P!IsIntegral(a) <=> P!Kind(a) \in P!Integral
      /\ P!IsIntegral(b) <=> P!Kind(b) \in P!Integral
      /\ P!R!IsInteger(a) <=> P!Kind(a) \in P!Integral
      /\ P!R!IsInteger(b) <=> P!Kind(b) \in P!Integral
      /\ P!Kind(a) \in P!Integral => Numeric(a)
      /\ P!Kind(b) \in P!Integral => Numeric(b)
  BY ClassesOfTwo
<1>2. ASSUME NEW z, Good(z), P!Kind(P!Value(z)) \in P!Integral
      PROVE  /\ P!Convert(z, P!PromotedType(P!Value(z))) = P!PromotedType(P!Value(z))
             /\ P!R!Promote(P!Value(z)) = P!PromotedType(P!Value(z))
             /\ ValueType(P!PromotedType(P!Value(z))) /\ Numeric(P!PromotedType(P!Value(z)))
  <2> DEFINE t == P!Value(z)
             p == P!PromotedType(t)
  <2>1. ValueType(t) /\ Numeric(t)
    BY <1>2, ValueIs, KindsDiffer DEF Numeric
  <2>2. P!R!Promote(t) = p /\ ValueType(p) /\ Numeric(p)
    BY <2>1, PromotedIs
  <2>3. ConvertsTo(z, p)
    <3> HIDE DEF p
    <3> QED BY <2>1, <2>2, Zenon DEF ConvertsTo
  <2> QED BY <1>2, <2>2, <2>3, ConvertValue
<1>3. CASE op = "LSHIFT"
  <2> DEFINE p == P!PromotedType(a)
             q == P!PromotedType(b)
  <2>1. op \notin {"AND", "OR"} \cup P!Comparisons \cup {"ADD", "SUB", "MUL", "MOD", "BITAND", "COMMA"}
    BY <1>3 DEF P!Comparisons
  <2>2. said = IF ~integral THEN P!Refused ELSE P!Said(p, FALSE, <<P!Convert(x, p), P!Convert(y, q)>>)
    <3>1. /\ op # "COMMA" /\ op \notin {"AND", "OR"} /\ op \notin P!Comparisons
          /\ op \notin {"ADD", "SUB"} /\ op \notin {"MUL", "MOD", "BITAND"}
      BY <2>1
    <3> QED BY <1>1, <1>3, <3>1, Zenon DEF P!BinaryTypes
  <2>3. admitted = IF integral THEN P!R!Value_(P!R!Promote(a), <<P!R!Promote(a), P!R!Promote(b)>>) ELSE {}
    <3>1. op \in {"LSHIFT", "RSHIFT"} /\ op # "MUL" /\ op \notin {"MOD", "BITAND"}
      BY <1>3
    <3>2. CASE integral
      BY <1>1, <3>1, <3>2, Zenon DEF P!R!OnNumbers
    <3>3. CASE ~integral
      BY <1>1, <3>1, <3>3, Zenon DEF P!R!OnNumbers
    <3> QED BY <3>2, <3>3
  <2>4. CASE integral
    <3>1. /\ P!Convert(x, p) = p /\ P!R!Promote(a) = p /\ ValueType(p) /\ Numeric(p)
          /\ P!Convert(y, q) = q /\ P!R!Promote(b) = q
      BY <1>2, <2>4
    <3>2. said = P!Said(p, FALSE, <<p, q>>) /\ admitted = P!R!Value_(p, <<p, q>>)
      BY <2>2, <2>3, <2>4, <3>1, Zenon
    <3> DEFINE ops == <<p, q>>
    <3> HIDE DEF said, admitted, p, q, ops
    <3>3. Agreed(said, admitted) /\ said.type = p
      <4>1. ValueType(p)
        BY <3>1
      <4>2. said = P!Said(p, FALSE, ops) /\ admitted = P!R!Value_(p, ops)
        BY <3>2 DEF ops
      <4> QED BY <4>1, <4>2, SameAnswer
    <3> QED BY <1>1, <2>4, <3>1, <3>3, Zenon DEF said, admitted
  <2>5. CASE ~integral
    BY <2>2, <2>3, <2>5, NoAnswer, Zenon
  <2> QED BY <2>4, <2>5
<1>4. CASE op \in {"MUL", "MOD", "BITAND"}
  <2> DEFINE c == P!CommonArithmetic(a, b)
             fits == Numeric(a) /\ Numeric(b) /\ (op # "MUL" => integral)
  <2>1. said = IF fits THEN P!Meet(c, x, y, c) ELSE P!Refused
    <3>1. /\ op # "COMMA" /\ op \notin {"AND", "OR"} /\ op \notin P!Comparisons
          /\ op \notin {"ADD", "SUB"} /\ op # "LSHIFT"
      BY <1>4 DEF P!Comparisons
    <3> QED BY <1>1, <1>4, <3>1, Zenon DEF P!BinaryTypes
  <2>2. admitted = IF fits THEN P!R!Value_(P!R!Common(a, b), <<P!R!Common(a, b), P!R!Common(a, b)>>) ELSE {}
    <3>1. op \notin {"LSHIFT", "RSHIFT"} /\ (op = "MUL" \/ op \in {"MOD", "BITAND"}) /\ (op = "MUL" <=> op \notin {"MOD", "BITAND"})
      BY <1>4
    <3>2. CASE fits
      BY <1>1, <3>1, <3>2, Zenon DEF P!R!OnNumbers
    <3>3. CASE ~fits
      BY <1>1, <3>1, <3>3, Zenon DEF P!R!OnNumbers
    <3> QED BY <3>2, <3>3
  <2>3. CASE fits
    <3>1. c = P!R!Common(a, b) /\ ValueType(c) /\ Numeric(c)
      BY <2>3, CommonTypeIs
    <3>2. ConvertsTo(x, c) /\ ConvertsTo(y, c)
      <4> HIDE DEF c
      <4> QED BY <2>3, <3>1, Zenon DEF ConvertsTo
    <3>3. said = P!Meet(c, x, y, c) /\ admitted = P!R!Value_(c, <<c, c>>)
      BY <2>1, <2>2, <2>3, <3>1, Zenon
    <3> HIDE DEF c, said, admitted
    <3>4. Agreed(said, admitted)
      BY <3>1, <3>2, <3>3, MeetIs
    <3>5. said = P!Said(c, FALSE, <<P!Convert(x, c), P!Convert(y, c)>>)
      BY <3>3, Zenon DEF P!Meet
    <3>6. said.type = c
      BY <3>5, SaidFields, Zenon
    <3> QED BY <2>3, <3>1, <3>4, <3>6, Zenon DEF said, admitted
  <2>4. CASE ~fits
    BY <2>1, <2>2, <2>4, NoAnswer, Zenon
  <2> QED BY <2>3, <2>4
<1> QED BY <1>3, <1>4, Zenon

\* The operators that compound assignments have.
LEMMA AssignmentsAgree ==
  ASSUME Target, Assumed, NEW x, Good(x), NEW y, Good(y), NEW op \in P!Assignments
  PROVE  LET a == P!Value(x)
             b == P!Value(y)
             said == P!BinaryTypes(op, x, y)
             moved == op \in {"ADD", "SUB"} /\ P!ObjectPointer(a) /\ P!Kind(b) \in P!Integral
         IN  /\ Agreed(said, P!R!BinaryAnswers(op, x, y, P!SizeType(TRUE)))
             /\ Numeric(a) /\ Numeric(b) => said = P!Refused \/ Numeric(said.type)
             /\ moved => said.type = a
             /\ ~Numeric(a) /\ ~moved => said = P!Refused \/ Numeric(said.type)
             /\ Numeric(a) /\ ~Numeric(b) => said = P!Refused \/ P!Kind(said.type) = "POINTER"
<1> DEFINE a == P!Value(x)
           b == P!Value(y)
           said == P!BinaryTypes(op, x, y)
           admitted == P!R!BinaryAnswers(op, x, y, P!SizeType(TRUE))
<1>1. P!R!Decayed(x) = a /\ P!R!Decayed(y) = b
  BY ValueIs
<1>2. /\ op # "COMMA" /\ op \notin {"AND", "OR"} /\ op \notin P!Comparisons /\ op \notin P!R!Comparison
      /\ op \in {"ADD", "SUB"} \/ op \in {"LSHIFT", "MUL", "MOD", "BITAND"}
  BY DEF P!Assignments, P!Comparisons, P!R!Comparison
<1>3. CASE op \in {"ADD", "SUB"}
  <2>1. op # "LSHIFT" /\ op \notin {"MUL", "MOD", "BITAND"}
    BY <1>3
  <2>2. said = P!AdditiveTypes(op, x, y)
    BY <1>2, <1>3, <2>1, Zenon DEF P!BinaryTypes
  <2>3. admitted = P!R!Additive(op, a, b, P!SizeType(TRUE))
    BY <1>1, <1>2, <1>3, Zenon DEF P!R!BinaryAnswers
  <2> HIDE DEF said, admitted
  <2>4. /\ Agreed(said, admitted)
        /\ Numeric(a) /\ Numeric(b) => Numeric(said.type)
        /\ P!ObjectPointer(a) /\ P!Kind(b) \in P!Integral => said.type = a
        /\ ~Numeric(a) /\ ~(P!ObjectPointer(a) /\ P!Kind(b) \in P!Integral) =>
             said = P!Refused \/ Numeric(said.type)
        /\ Numeric(a) /\ ~Numeric(b) => said = P!Refused \/ P!Kind(said.type) = "POINTER"
    BY <1>3, <2>2, <2>3, AdditiveAgrees
  <2> QED BY <1>3, <2>4, Zenon DEF said, admitted
<1>4. CASE op \in {"LSHIFT", "MUL", "MOD", "BITAND"}
  <2>1. op \notin {"ADD", "SUB"}
    BY <1>4
  <2>2. admitted = P!R!OnNumbers(op, a, b)
    BY <1>1, <1>2, <2>1, Zenon DEF P!R!BinaryAnswers
  <2>3. Agreed(said, admitted) /\ (said = P!Refused \/ (Numeric(a) /\ Numeric(b) /\ Numeric(said.type)))
    BY <1>4, <2>2, NumbersAgree
  <2> QED BY <2>1, <2>3, Zenon
<1> QED BY <1>2, <1>3, <1>4, Zenon

\* Those that stand by themselves.
LEMMA BinaryAgrees ==
  ASSUME Target, Assumed, NEW x, Good(x), NEW y, Good(y),
         NEW op \in P!Assignments \cup P!Comparisons \cup {"COMMA", "AND", "OR"}
  PROVE  LET said == P!BinaryTypes(op, x, y)
             admitted == P!R!BinaryAnswers(op, x, y, P!SizeType(TRUE))
             open == op \in {"LT", "GT", "LEQ", "GEQ"} /\ P!R!VoidPointer(x) /\ P!R!VoidPointer(y)
         IN  Agreed(said, IF open THEN P!Stricter(said, admitted) ELSE admitted)
<1> DEFINE a == P!Value(x)
           b == P!Value(y)
           said == P!BinaryTypes(op, x, y)
           admitted == P!R!BinaryAnswers(op, x, y, P!SizeType(TRUE))
           open == op \in {"LT", "GT", "LEQ", "GEQ"} /\ P!R!VoidPointer(x) /\ P!R!VoidPointer(y)
<1>1. /\ ValueType(a) /\ ValueType(b) /\ P!R!Decayed(x) = a /\ P!R!Decayed(y) = b
      /\ P!R!IsScalar(a) <=> Numeric(a) \/ P!Kind(a) = "POINTER"
      /\ P!R!IsScalar(b) <=> Numeric(b) \/ P!Kind(b) = "POINTER"
      /\ P!IsScalar(a) <=> Numeric(a) \/ P!Kind(a) = "POINTER"
      /\ P!IsScalar(b) <=> Numeric(b) \/ P!Kind(b) = "POINTER"
  BY ClassesOfTwo
<1>2. CASE op \in P!Assignments
  <2>1. op \notin {"LT", "GT", "LEQ", "GEQ"}
    BY <1>2 DEF P!Assignments
  <2>2. Agreed(said, admitted)
    BY <1>2, AssignmentsAgree
  <2> QED BY <2>1, <2>2, Zenon
<1>3. CASE op \in P!Comparisons
  <2>1. /\ op # "COMMA" /\ op \notin {"AND", "OR"} /\ op \notin {"ADD", "SUB"} /\ op # "LSHIFT"
        /\ op \notin {"MUL", "MOD", "BITAND"} /\ op \in P!R!Comparison
    BY <1>3 DEF P!Comparisons, P!R!Comparison
  <2>2. said = P!CompareTypes(op, x, y)
    BY <1>3, <2>1, Zenon DEF P!BinaryTypes
  <2>3. admitted = P!R!Comparison_(op, x, y)
    BY <2>1, Zenon DEF P!R!BinaryAnswers
  <2>4. Agreed(P!CompareTypes(op, x, y),
               IF open THEN P!Stricter(P!CompareTypes(op, x, y), P!R!Comparison_(op, x, y))
               ELSE P!R!Comparison_(op, x, y))
    BY <1>3, CompareAgrees
  <2> QED BY <2>2, <2>3, <2>4, Zenon
<1>4. CASE op = "COMMA"
  <2>1. /\ op \notin {"AND", "OR"} /\ op \notin {"ADD", "SUB"} /\ op # "LSHIFT"
        /\ op \notin {"MUL", "MOD", "BITAND"} /\ op \notin P!R!Comparison /\ op \notin P!Comparisons
        /\ op \notin {"LT", "GT", "LEQ", "GEQ"}
    BY <1>4 DEF P!Comparisons, P!R!Comparison
  <2>2. said = P!Said(b, FALSE, <<a, b>>)
    BY <1>4, <2>1, Zenon DEF P!BinaryTypes
  <2>3. admitted = P!R!Value_(b, <<a, b>>)
    BY <1>1, <1>4, <2>1, Zenon DEF P!R!BinaryAnswers
  <2>4. Agreed(said, admitted)
    <3> HIDE DEF a, b, said, admitted
    <3> QED BY <1>1, <2>2, <2>3, SameAnswer
  <2> QED BY <2>1, <2>4, Zenon
<1>5. CASE op \in {"AND", "OR"}
  <2>1. /\ op # "COMMA" /\ op \notin {"ADD", "SUB"} /\ op # "LSHIFT"
        /\ op \notin {"MUL", "MOD", "BITAND"} /\ op \notin P!R!Comparison /\ op \notin P!Comparisons
        /\ op \notin {"LT", "GT", "LEQ", "GEQ"}
    BY <1>5 DEF P!Comparisons, P!R!Comparison
  <2>2. said = IF P!IsScalar(a) /\ P!IsScalar(b) THEN P!Said(P!IntTy, FALSE, <<a, b>>) ELSE P!Refused
    BY <1>5, <2>1, Zenon DEF P!BinaryTypes
  <2>3. admitted = IF P!IsScalar(a) /\ P!IsScalar(b) THEN P!R!Value_(P!IntTy, <<a, b>>) ELSE {}
    <3>1. P!R!Basic("INT") = P!IntTy
      BY IntIsValue
    <3> QED BY <1>1, <1>5, <2>1, <3>1, Zenon DEF P!R!BinaryAnswers
  <2>4. Agreed(P!Said(P!IntTy, FALSE, <<a, b>>), P!R!Value_(P!IntTy, <<a, b>>))
    BY IntIsValue, ValueAnswer
  <2> QED BY <2>1, <2>2, <2>3, <2>4, NoAnswer, Zenon
<1> QED BY <1>2, <1>3, <1>4, <1>5, Zenon

LEMMA AssignAgrees ==
  ASSUME Target, Assumed, NEW x, Good(x), NEW y, Good(y)
  PROVE  Agreed(P!AssignTypes(x, y), P!R!Assignment(x, y))
<1> DEFINE t == With(x.type, {})
           said == P!AssignTypes(x, y)
           admitted == P!R!Assignment(x, y)
<1>1. (P!R!IsModifiable(x) <=> P!Modifiable(x)) /\ P!R!Bare(x.type) = t /\ P!Unqualified(x.type) = t
  BY ModifiableIs, UnqualifiedIs, SameTypes DEF Good
<1>2. CASE P!Modifiable(x)
  <2>1. P!Kind(x.type) \in P!ArithmeticKinds \cup {"POINTER"}
    BY <1>2, ModifiableIs
  <2>2. Tidy(t) /\ P!Kind(t) = P!Kind(x.type) /\ P!Quals(t) = {} /\ Tidy(x.type)
    BY UnqualifiedIs DEF Good
  <2>3. P!Kind(x.type) \notin {"ARRAY", "FUNCTION"}
    BY <2>1, KindsDiffer
  <2>4. ValueType(t)
    BY <2>2, <2>3 DEF ValueType
  <2>5. P!Convert(y, x.type) = IF ConvertsTo(y, t) THEN t ELSE P!NoType
    BY <2>2, <2>3, ConvertIs
  <2>6. P!R!Assignable(t, y) <=> ConvertsTo(y, t)
    <3> HIDE DEF t
    <3> QED BY <2>1, <2>2, <2>4, AssignableIs
  <2>7. t # P!NoType
    BY <2>4, ValueTypeIs
  <2> HIDE DEF t
  <2>8. said = IF ConvertsTo(y, t) THEN P!Said(t, FALSE, <<x.type, t>>) ELSE P!Refused
    BY <1>1, <1>2, <2>5, <2>7, Zenon DEF P!AssignTypes
  <2>9. admitted = IF ConvertsTo(y, t) THEN P!R!Value_(t, <<x.type, t>>) ELSE {}
    BY <1>1, <1>2, <2>6, Zenon DEF P!R!Assignment
  <2>10. Agreed(P!Said(t, FALSE, <<x.type, t>>), P!R!Value_(t, <<x.type, t>>))
    BY <2>4, ValueAnswer
  <2> QED BY <2>8, <2>9, <2>10, NoAnswer, Zenon
<1>3. CASE ~P!Modifiable(x)
  <2>1. said = P!Refused /\ admitted = {}
    BY <1>1, <1>3, Zenon DEF P!AssignTypes, P!R!Assignment
  <2> QED BY <2>1, NoAnswer, Zenon
<1> QED BY <1>2, <1>3

LEMMA CompoundAgrees ==
  ASSUME Target, Assumed, NEW x, Good(x), NEW y, Good(y), NEW op \in P!Assignments
  PROVE  Agreed(P!CompoundTypes(op, x, y), P!R!CompoundAssignment(op, x, y, P!SizeType(TRUE)))
<1> DEFINE t == With(x.type, {})
           b == P!Value(y)
           computed == P!BinaryTypes(op, x, y)
           answers == P!R!BinaryAnswers(op, x, y, P!SizeType(TRUE))
           said == P!CompoundTypes(op, x, y)
           admitted == P!R!CompoundAssignment(op, x, y, P!SizeType(TRUE))
           moved == op \in {"ADD", "SUB"} /\ P!ObjectPointer(t) /\ P!Kind(b) \in P!Integral
           fits == (P!IsArithmetic(x.type) /\ P!IsArithmetic(computed.type)) \/ P!Compatible(x.type, computed.type, TRUE)
<1>1. (P!R!IsModifiable(x) <=> P!Modifiable(x)) /\ P!R!Bare(x.type) = t /\ P!Unqualified(x.type) = t
  BY ModifiableIs, UnqualifiedIs, SameTypes DEF Good
<1>2. CASE P!Modifiable(x)
  <2>1. P!Kind(x.type) \in P!ArithmeticKinds \cup {"POINTER"} /\ P!Value(x) = t
    BY <1>2, ModifiableIs
  <2>2. Tidy(t) /\ P!Kind(t) = P!Kind(x.type) /\ P!Quals(t) = {} /\ Tidy(x.type)
    BY UnqualifiedIs DEF Good
  <2>3. ValueType(t)
    BY <2>1, <2>2, KindsDiffer DEF ValueType
  <2>4. /\ P!R!IsArithmetic(t) <=> Numeric(t)
        /\ P!R!IsArithmetic(b) <=> Numeric(b)
        /\ P!R!IsInteger(b) <=> P!Kind(b) \in P!Integral
        /\ P!R!Decayed(y) = b
        /\ P!Kind(t) = "POINTER" => ~Numeric(t)
        /\ P!Kind(b) \in P!Integral => Numeric(b)
    BY <2>1, ClassesOfTwo
  <2>5. /\ P!R!ToObject(t) <=> P!ObjectPointer(t)
        /\ P!ObjectPointer(t) => P!Kind(t) = "POINTER"
    BY <2>2, ObjectPointerIs
  <2>6. /\ Agreed(computed, answers)
        /\ Numeric(t) /\ Numeric(b) => computed = P!Refused \/ Numeric(computed.type)
        /\ moved => computed.type = t
        /\ ~Numeric(t) /\ ~moved => computed = P!Refused \/ Numeric(computed.type)
        /\ Numeric(t) /\ ~Numeric(b) => computed = P!Refused \/ P!Kind(computed.type) = "POINTER"
    BY <2>1, AssignmentsAgree
  <2> DEFINE new == P!Said(t, FALSE, <<x.type, computed.operands[2]>>)
             open == (Numeric(t) /\ Numeric(b)) \/ moved
  <2>7. said = IF computed = P!Refused \/ ~fits THEN P!Refused ELSE new
    <3> HIDE DEF t, b, computed
    <3> QED BY <1>1, <1>2, Zenon DEF P!CompoundTypes, computed
  <2>8. admitted = IF open THEN {P!R!Answer(t, FALSE, <<x.type, r.operands[2]>>) : r \in answers} ELSE {}
    <3> HIDE DEF t, b, answers
    <3> QED BY <1>1, <1>2, <2>4, <2>5, Zenon DEF P!R!CompoundAssignment, answers
  <2>9. \A ops : P!R!Answer(t, FALSE, ops) = P!Said(t, FALSE, ops)
    BY SameTypes, Zenon
  <2> HIDE DEF t, b, said, admitted, moved, fits
  <2>10. CASE computed = P!Refused
    <3>1. answers = {}
      BY <2>6, <2>10 DEF Agreed
    <3>2. said = P!Refused /\ admitted = {}
      BY <2>7, <2>8, <2>10, <3>1, Zenon
    <3> QED BY <3>2, NoAnswer, Zenon DEF said, admitted
  <2>11. CASE computed # P!Refused
    <3>1. answers = {computed} /\ Tidy(computed.type)
      BY <2>6, <2>11 DEF Agreed, Answers
    <3> DEFINE u == computed.type
    <3>2. fits <=> (Numeric(t) /\ Numeric(u)) \/ t = With(u, {})
      <4>1. P!IsArithmetic(u) <=> Numeric(u)
        BY SameClasses DEF Numeric
      <4>2. P!IsArithmetic(x.type) <=> Numeric(t)
        BY <2>2, SameClasses DEF Numeric
      <4>3. P!Compatible(x.type, u, TRUE) <=> t = With(u, {})
        BY <2>2, <3>1, CompatibleIs DEF t
      <4> QED BY <4>1, <4>2, <4>3, Zenon DEF fits
    <3>3. fits <=> open
      <4> HIDE DEF u
      <4>1. P!Kind(With(u, {})) = P!Kind(u)
        BY <3>1, UnqualifiedIs DEF u
      <4>2. With(t, {}) = t
        BY <2>3, ValueTypeIs
      <4>3. CASE Numeric(t) /\ Numeric(b)
        BY <2>6, <2>11, <3>2, <4>3 DEF u
      <4>4. CASE moved
        BY <2>6, <3>2, <4>2, <4>4 DEF u
      <4>5. CASE ~Numeric(t) /\ ~moved
        <5>1. Numeric(u) /\ ~Numeric(t)
          BY <2>6, <2>11, <4>5 DEF u
        <5>2. P!Kind(t) # P!Kind(u)
          BY <5>1 DEF Numeric
        <5> QED BY <3>2, <4>1, <4>5, <5>1, <5>2
      <4>6. CASE Numeric(t) /\ ~Numeric(b)
        <5>1. P!Kind(u) = "POINTER"
          BY <2>6, <2>11, <4>6 DEF u
        <5>2. ~Numeric(u) /\ P!Kind(t) # "POINTER"
          BY <2>4, <4>6, <5>1, KindsDiffer DEF Numeric
        <5>3. ~moved
          BY <2>4, <4>6 DEF moved
        <5> QED BY <3>2, <4>1, <4>6, <5>1, <5>2, <5>3
      <4> QED BY <4>3, <4>4, <4>5, <4>6
    <3>4. CASE open
      <4> HIDE DEF open, computed, answers
      <4>1. said = new
        BY <2>7, <2>11, <3>3, <3>4, Zenon
      <4>2. admitted = {P!R!Answer(t, FALSE, <<x.type, r.operands[2]>>) : r \in {computed}}
        BY <2>8, <3>1, <3>4, Zenon
      <4>3. admitted = {P!R!Answer(t, FALSE, <<x.type, computed.operands[2]>>)}
        <5> DEFINE F(r) == P!R!Answer(t, FALSE, <<x.type, r.operands[2]>>)
        <5>1. admitted = {F(r) : r \in {computed}}
          BY <4>2
        <5> HIDE DEF F
        <5>2. admitted = {F(computed)}
          BY <5>1
        <5> QED BY <5>2 DEF F
      <4>4. admitted = {new}
        BY <2>9, <4>3, Zenon
      <4>5. Agreed(new, {new})
        BY <2>3, ValueAnswer
      <4> QED BY <4>1, <4>4, <4>5, Zenon DEF said, admitted
    <3>5. CASE ~open
      <4> HIDE DEF open, computed, answers
      <4>1. said = P!Refused /\ admitted = {}
        BY <2>7, <2>8, <3>3, <3>5, Zenon
      <4> QED BY <4>1, NoAnswer, Zenon DEF said, admitted
    <3> QED BY <3>4, <3>5
  <2> QED BY <2>10, <2>11
<1>3. CASE ~P!Modifiable(x)
  <2>1. said = P!Refused /\ admitted = {}
    <3> HIDE DEF computed, answers
    <3> QED BY <1>1, <1>3, Zenon DEF P!CompoundTypes, P!R!CompoundAssignment
  <2> QED BY <2>1, NoAnswer, Zenon
<1> QED BY <1>2, <1>3

LEMMA IndexAgrees ==
  ASSUME Target, Assumed, NEW x, Good(x), NEW y, Good(y)
  PROVE  Agreed(P!IndexTypes(x, y), P!R!Index(x, y))
<1> DEFINE a == P!Value(x)
           b == P!Value(y)
           said == P!IndexTypes(x, y)
           admitted == P!R!Index(x, y)
<1>1. /\ ValueType(a) /\ ValueType(b) /\ P!R!Decayed(x) = a /\ P!R!Decayed(y) = b
      /\ P!IsIntegral(a) <=> P!Kind(a) \in P!Integral
      /\ P!IsIntegral(b) <=> P!Kind(b) \in P!Integral
      /\ P!R!IsInteger(a) <=> P!Kind(a) \in P!Integral
      /\ P!R!IsInteger(b) <=> P!Kind(b) \in P!Integral
      /\ P!Kind(a) \in P!Integral => Numeric(a)
      /\ P!Kind(b) \in P!Integral => Numeric(b)
      /\ P!Kind(a) = "POINTER" => ~Numeric(a)
      /\ P!Kind(b) = "POINTER" => ~Numeric(b)
  BY ClassesOfTwo
<1>2. /\ P!R!ToObject(a) <=> P!ObjectPointer(a)
      /\ P!R!ToObject(b) <=> P!ObjectPointer(b)
      /\ P!ObjectPointer(a) => P!Kind(a) = "POINTER" /\ P!Kind(P!Inner(a)) \notin {"VOID", "STRUCT", "FUNCTION"}
      /\ P!ObjectPointer(b) => P!Kind(b) = "POINTER" /\ P!Kind(P!Inner(b)) \notin {"VOID", "STRUCT", "FUNCTION"}
  BY <1>1, ObjectPointerIs DEF ValueType
<1>3. ASSUME NEW z, Good(z), P!Kind(P!Value(z)) \in P!Integral
      PROVE  P!Convert(z, P!PromotedType(P!Value(z))) = P!PromotedType(P!Value(z))
             /\ P!R!Promote(P!Value(z)) = P!PromotedType(P!Value(z))
  <2> DEFINE t == P!Value(z)
             p == P!PromotedType(t)
  <2>1. ValueType(t) /\ Numeric(t)
    BY <1>3, ValueIs, KindsDiffer DEF Numeric
  <2>2. P!R!Promote(t) = p /\ ValueType(p) /\ Numeric(p)
    BY <2>1, PromotedIs
  <2>3. ConvertsTo(z, p)
    <3> HIDE DEF p
    <3> QED BY <2>1, <2>2, Zenon DEF ConvertsTo
  <2> QED BY <1>3, <2>2, <2>3, ConvertValue
<1>4. ASSUME NEW t, ValueType(t), P!ObjectPointer(t), NEW ops
      PROVE  /\ P!R!Answer(P!R!Inner(t), TRUE, ops) = P!Said(P!Inner(t), TRUE, ops)
             /\ Agreed(P!Said(P!Inner(t), TRUE, ops), {P!Said(P!Inner(t), TRUE, ops)})
  <2>1. P!Kind(t) = "POINTER" /\ P!Kind(P!Inner(t)) \notin {"VOID", "STRUCT", "FUNCTION"}
    BY <1>4, ObjectPointerIs DEF ValueType
  <2>2. Tidy(P!Inner(t))
    BY <1>4, <2>1, ValueTypeIs
  <2>3. PICK l \in BOOLEAN : l = TRUE
    BY Zenon
  <2>4. Agreed(P!Said(P!Inner(t), l, ops), {P!Said(P!Inner(t), l, ops)})
    BY <2>1, <2>2, <2>3, AnswerIs
  <2>5. P!R!Answer(P!R!Inner(t), TRUE, ops) = P!Said(P!Inner(t), TRUE, ops)
    BY SameTypes, Zenon
  <2> QED BY <2>3, <2>4, <2>5, Zenon
<1> HIDE DEF a, b, said, admitted
<1>5. CASE P!ObjectPointer(a) /\ P!Kind(b) \in P!Integral
  <2> DEFINE p == P!PromotedType(b)
  <2>1. P!Kind(a) \notin P!Integral /\ ~P!ObjectPointer(b)
    BY <1>1, <1>2, <1>5
  <2>2. P!Convert(y, p) = p /\ P!R!Promote(b) = p
    BY <1>3, <1>5 DEF b
  <2>3. said = P!Said(P!Inner(a), TRUE, <<a, p>>)
    BY <1>1, <1>5, <2>1, <2>2, Zenon DEF P!IndexTypes, said, a, b
  <2>4. admitted = {P!R!Answer(P!R!Inner(a), TRUE, <<a, p>>)}
    BY <1>1, <1>2, <1>5, <2>1, <2>2, Zenon DEF P!R!Index, admitted
  <2>5. admitted = {said} /\ Agreed(said, {said})
    BY <1>1, <1>4, <1>5, <2>3, <2>4, Zenon
  <2> QED BY <2>5, Zenon DEF said, admitted
<1>6. CASE P!Kind(a) \in P!Integral /\ P!ObjectPointer(b)
  <2> DEFINE p == P!PromotedType(a)
  <2>1. P!Kind(b) \notin P!Integral /\ ~P!ObjectPointer(a)
    BY <1>1, <1>2, <1>6
  <2>2. P!Convert(x, p) = p /\ P!R!Promote(a) = p
    BY <1>3, <1>6 DEF a
  <2>3. said = P!Said(P!Inner(b), TRUE, <<p, b>>)
    BY <1>1, <1>6, <2>1, <2>2, Zenon DEF P!IndexTypes, said, a, b
  <2>4. admitted = {P!R!Answer(P!R!Inner(b), TRUE, <<p, b>>)}
    BY <1>1, <1>2, <1>6, <2>1, <2>2, Zenon DEF P!R!Index, admitted
  <2>5. admitted = {said} /\ Agreed(said, {said})
    BY <1>1, <1>4, <1>6, <2>3, <2>4, Zenon
  <2> QED BY <2>5, Zenon DEF said, admitted
<1>7. CASE ~(P!ObjectPointer(a) /\ P!Kind(b) \in P!Integral) /\ ~(P!Kind(a) \in P!Integral /\ P!ObjectPointer(b))
  <2>1. said = P!Refused
    BY <1>1, <1>7, Zenon DEF P!IndexTypes, said, a, b
  <2>2. admitted = {}
    BY <1>1, <1>2, <1>7, Zenon DEF P!R!Index, admitted
  <2> QED BY <2>1, <2>2, NoAnswer, Zenon DEF said, admitted
<1> QED BY <1>5, <1>6, <1>7

LEMMA ConditionalAgrees ==
  ASSUME Target, Assumed, NEW x, Good(x), NEW y, Good(y), NEW z, Good(z), NEW c, c.type = z.type
  PROVE  Agreed(P!ConditionalTypes(z, x, y), P!R!Conditional(c, x, y))
<1> DEFINE a == P!Value(x)
           b == P!Value(y)
           tested == P!IsScalar(P!Value(z))
           said == P!ConditionalTypes(z, x, y)
           admitted == P!R!Conditional(c, x, y)
           common == CASE P!IsArithmetic(a) /\ P!IsArithmetic(b) -> P!CommonArithmetic(a, b)
                       [] P!IsVoid(a) /\ P!IsVoid(b)             -> a
                       [] P!IsPointer(a) /\ P!NullConstant(y)    -> a
                       [] P!IsPointer(b) /\ P!NullConstant(x)    -> b
                       [] P!IsPointer(a) /\ P!IsPointer(b)       -> P!CommonPointer(a, b, TRUE)
                       [] OTHER -> IF P!Compatible(a, b, TRUE) THEN P!Unqualified(a) ELSE P!NoType
<1>1. /\ ValueType(a) /\ ValueType(b) /\ P!R!Decayed(x) = a /\ P!R!Decayed(y) = b
      /\ P!NullConstant(x) => P!Kind(a) \in P!Integral
      /\ P!NullConstant(y) => P!Kind(b) \in P!Integral
      /\ P!R!IsZero(x) <=> P!NullConstant(x)
      /\ P!R!IsZero(y) <=> P!NullConstant(y)
      /\ P!IsArithmetic(a) <=> Numeric(a)
      /\ P!IsArithmetic(b) <=> Numeric(b)
      /\ P!R!IsArithmetic(a) <=> Numeric(a)
      /\ P!R!IsArithmetic(b) <=> Numeric(b)
      /\ P!IsPointer(a) <=> P!Kind(a) = "POINTER"
      /\ P!IsPointer(b) <=> P!Kind(b) = "POINTER"
      /\ P!R!IsPointer(a) <=> P!Kind(a) = "POINTER"
      /\ P!R!IsPointer(b) <=> P!Kind(b) = "POINTER"
      /\ P!R!IsScalar(a) <=> Numeric(a) \/ P!Kind(a) = "POINTER"
      /\ P!Kind(a) \in P!Integral => Numeric(a)
      /\ P!Kind(b) \in P!Integral => Numeric(b)
      /\ P!Kind(a) = "POINTER" => ~Numeric(a)
      /\ P!Kind(b) = "POINTER" => ~Numeric(b)
  BY ClassesOfTwo
<1>2. P!R!IsScalar(P!R!Decayed(c)) <=> tested
  <2>1. P!R!Decayed(c) = P!R!Decayed(z)
    BY Zenon DEF P!R!Decayed
  <2>2. P!R!Decayed(z) = P!Value(z)
    BY ValueIs
  <2>3. P!R!IsScalar(P!Value(z)) <=> tested
    BY SameClasses
  <2> QED BY <2>1, <2>2, <2>3, Zenon
<1>3. /\ P!IsVoid(a) <=> P!Kind(a) = "VOID"
      /\ P!IsVoid(b) <=> P!Kind(b) = "VOID"
      /\ P!Kind(a) = "VOID" => ~Numeric(a) /\ P!Kind(a) # "POINTER" /\ a = P!Basic("VOID")
      /\ P!Kind(b) = "VOID" => ~Numeric(b) /\ P!Kind(b) # "POINTER" /\ b = P!Basic("VOID")
      /\ P!Unqualified(a) = a /\ a # P!NoType /\ b # P!NoType
      /\ P!Compatible(a, b, TRUE) <=> a = b
  <2>1. \A t : P!IsVoid(t) <=> P!Kind(t) = "VOID"
    BY SameClasses
  <2>2. /\ P!Kind(a) = "VOID" => a = P!Basic("VOID")
        /\ P!Kind(b) = "VOID" => b = P!Basic("VOID")
        /\ P!Unqualified(a) = a /\ a # P!NoType /\ b # P!NoType
    <3>1. \A t : ValueType(t) => /\ P!Kind(t) = "VOID" => t = P!Basic("VOID")
                                 /\ P!Unqualified(t) = t /\ t # P!NoType
      BY ValueTypeIs
    <3> QED BY <1>1, <3>1, Zenon
  <2>3. P!Compatible(a, b, TRUE) <=> a = b
    BY <1>1, SameValueType
  <2> QED BY <2>1, <2>2, <2>3, KindsDiffer DEF Numeric
<1>4. said = IF ~tested \/ common = P!NoType THEN P!Refused ELSE P!Meet(common, x, y, common)
  BY Zenon DEF P!ConditionalTypes
<1>5. admitted = CASE ~tested -> {}
                   [] tested /\ P!R!IsArithmetic(a) /\ P!R!IsArithmetic(b) ->
                        P!R!Value_(P!R!Common(a, b), <<P!R!Common(a, b), P!R!Common(a, b)>>)
                   [] tested /\ ~P!R!IsScalar(a) /\ a = b -> P!R!Value_(a, <<a, a>>)
                   [] tested /\ P!R!IsPointer(a) /\ P!R!IsZero(y) -> P!R!Value_(a, <<a, a>>)
                   [] tested /\ P!R!IsPointer(b) /\ P!R!IsZero(x) -> P!R!Value_(b, <<b, b>>)
                   [] tested /\ (P!R!ToVersions(a, b) \/ P!R!ToVoid(a, b)) ->
                        P!R!Value_(P!R!Joined(a, b), <<P!R!Joined(a, b), P!R!Joined(a, b)>>)
                   [] OTHER -> {}
  <2> HIDE DEF a, b, tested
  <2> QED BY <1>1, <1>2, Zenon DEF P!R!Conditional
<1> HIDE DEF a, b, tested, said, admitted, common
<1>6. ASSUME tested, NEW to, ValueType(to), common = to, admitted = P!R!Value_(to, <<to, to>>),
             ConvertsTo(x, to), ConvertsTo(y, to)
      PROVE  Agreed(said, admitted)
  <2>1. to # P!NoType
    BY <1>6, ValueTypeIs
  <2>2. said = P!Meet(to, x, y, to)
    BY <1>4, <1>6, <2>1, Zenon
  <2> QED BY <1>6, <2>2, MeetIs
<1>7. ~(P!Kind(a) = "POINTER" /\ P!Kind(b) = "POINTER") => ~P!R!ToVersions(a, b) /\ ~P!R!ToVoid(a, b)
  BY <1>1, Zenon DEF P!R!ToVersions, P!R!ToVoid
<1>8. CASE ~tested
  <2>1. said = P!Refused
    BY <1>4, <1>8, Zenon
  <2>2. admitted = {}
    BY <1>5, <1>8, Zenon
  <2> QED BY <2>1, <2>2, NoAnswer, Zenon DEF said, admitted
<1>9. CASE tested /\ Numeric(a) /\ Numeric(b)
  <2> DEFINE r == P!CommonArithmetic(a, b)
  <2>1. r = P!R!Common(a, b) /\ ValueType(r) /\ Numeric(r)
    BY <1>9, CommonTypeIs
  <2>2. P!Kind(a) # "POINTER" /\ P!Kind(b) # "POINTER" /\ P!Kind(a) # "VOID" /\ P!Kind(b) # "VOID"
    BY <1>1, <1>3, <1>9
  <2>3. common = r
    BY <1>1, <1>3, <1>9, <2>2, Zenon DEF common
  <2>4. admitted = P!R!Value_(r, <<r, r>>)
    BY <1>1, <1>5, <1>7, <1>9, <2>1, <2>2, Zenon
  <2>5. ConvertsTo(x, r) /\ ConvertsTo(y, r)
    <3> HIDE DEF r
    <3> QED BY <1>9, <2>1, Zenon DEF ConvertsTo, a, b
  <2> HIDE DEF r
  <2>6. Agreed(said, admitted)
    BY <1>6, <1>9, <2>1, <2>3, <2>4, <2>5
  <2> QED BY <2>6, Zenon DEF said, admitted
<1>10. CASE tested /\ P!Kind(a) = "POINTER" /\ P!NullConstant(y)
  <2>1. Numeric(b) /\ P!Kind(b) # "POINTER" /\ ~Numeric(a) /\ ~P!NullConstant(x) /\ P!Kind(a) # "VOID"
    BY <1>1, <1>10
  <2>2. common = a
    BY <1>1, <1>3, <1>10, <2>1, Zenon DEF common
  <2>3. admitted = P!R!Value_(a, <<a, a>>)
    BY <1>1, <1>5, <1>7, <1>10, <2>1, Zenon
  <2>4. ConvertsTo(x, a) /\ ConvertsTo(y, a)
    BY <1>10, Zenon DEF ConvertsTo, a
  <2>5. Agreed(said, admitted)
    BY <1>1, <1>6, <1>10, <2>2, <2>3, <2>4
  <2> QED BY <2>5, Zenon DEF said, admitted
<1>11. CASE tested /\ P!Kind(b) = "POINTER" /\ P!NullConstant(x)
  <2>1. Numeric(a) /\ P!Kind(a) # "POINTER" /\ ~Numeric(b) /\ ~P!NullConstant(y) /\ P!Kind(b) # "VOID"
    BY <1>1, <1>11
  <2>2. common = b
    BY <1>1, <1>3, <1>11, <2>1, Zenon DEF common
  <2>3. admitted = P!R!Value_(b, <<b, b>>)
    BY <1>1, <1>5, <1>7, <1>11, <2>1, Zenon
  <2>4. ConvertsTo(x, b) /\ ConvertsTo(y, b)
    BY <1>11, Zenon DEF ConvertsTo, b
  <2>5. Agreed(said, admitted)
    BY <1>1, <1>6, <1>11, <2>2, <2>3, <2>4
  <2> QED BY <2>5, Zenon DEF said, admitted
<1>12. CASE tested /\ P!Kind(a) = "POINTER" /\ P!Kind(b) = "POINTER"
  <2> DEFINE j == P!R!Joined(a, b)
  <2>1. PointerValue(a) /\ PointerValue(b)
    BY <1>1, <1>12 DEF PointerValue
  <2>2. (P!R!ToVersions(a, b) <=> Versions(a, b)) /\ (P!R!ToVoid(a, b) <=> Meets(a, b))
    BY <2>1, PointerPairs
  <2>3. P!CommonPointer(a, b, TRUE) = IF Versions(a, b) \/ Meets(a, b) THEN j ELSE P!NoType
    <3>1. PICK allow \in BOOLEAN : allow = TRUE
      BY Zenon
    <3>2. P!CommonPointer(a, b, allow) = IF Versions(a, b) \/ (allow /\ Meets(a, b)) THEN j ELSE P!NoType
      BY <2>1, CommonPointerIs
    <3> QED BY <3>1, <3>2, Zenon
  <2>4. ~Numeric(a) /\ ~Numeric(b) /\ ~P!NullConstant(x) /\ ~P!NullConstant(y) /\ P!Kind(a) # "VOID"
    BY <1>1, <1>12
  <2>5. common = P!CommonPointer(a, b, TRUE)
    BY <1>1, <1>3, <1>12, <2>4, Zenon DEF common
  <2>6. CASE Versions(a, b) \/ Meets(a, b)
    <3>1. PointerValue(j) /\ P!PointerConvertible(j, a) /\ P!PointerConvertible(j, b)
      BY <2>1, <2>6, JoinedIs
    <3>2. admitted = P!R!Value_(j, <<j, j>>)
      BY <1>1, <1>5, <1>12, <2>2, <2>4, <2>6, Zenon
    <3> HIDE DEF j
    <3>3. ConvertsTo(x, j) /\ ConvertsTo(y, j)
      BY <3>1, Zenon DEF ConvertsTo, a, b
    <3>4. common = j
      BY <2>3, <2>5, <2>6, Zenon
    <3>5. Agreed(said, admitted)
      BY <1>6, <1>12, <3>1, <3>2, <3>3, <3>4 DEF PointerValue
    <3> QED BY <3>5, Zenon DEF said, admitted
  <2>7. CASE ~(Versions(a, b) \/ Meets(a, b))
    <3>1. said = P!Refused
      BY <1>4, <2>3, <2>5, <2>7, Zenon
    <3>2. admitted = {}
      BY <1>1, <1>5, <1>12, <2>2, <2>4, <2>7, Zenon
    <3> QED BY <3>1, <3>2, NoAnswer, Zenon DEF said, admitted
  <2> QED BY <2>6, <2>7
<1>13. CASE /\ tested /\ ~(Numeric(a) /\ Numeric(b)) /\ ~(P!Kind(a) = "POINTER" /\ P!NullConstant(y))
            /\ ~(P!Kind(b) = "POINTER" /\ P!NullConstant(x))
            /\ ~(P!Kind(a) = "POINTER" /\ P!Kind(b) = "POINTER")
  <2>1. common = IF a = b THEN a ELSE P!NoType
    <3>1. CASE P!Kind(a) = "VOID" /\ P!Kind(b) = "VOID"
      BY <1>1, <1>3, <1>13, <3>1, Zenon DEF common
    <3>2. CASE ~(P!Kind(a) = "VOID" /\ P!Kind(b) = "VOID")
      BY <1>1, <1>3, <1>13, <3>2, Zenon DEF common
    <3> QED BY <3>1, <3>2
  <2>2. CASE a = b
    <3>1. ~P!R!IsScalar(a)
      BY <1>1, <1>13, <2>2
    <3>2. admitted = P!R!Value_(a, <<a, a>>)
      BY <1>1, <1>5, <1>7, <1>13, <2>2, <3>1, Zenon
    <3>3. ConvertsTo(x, a) /\ ConvertsTo(y, a)
      BY <2>2, Zenon DEF ConvertsTo, a, b
    <3>4. Agreed(said, admitted)
      BY <1>1, <1>6, <1>13, <2>1, <2>2, <3>2, <3>3
    <3> QED BY <3>4, Zenon DEF said, admitted
  <2>3. CASE a # b
    <3>1. said = P!Refused
      BY <1>4, <2>1, <2>3, Zenon
    <3>2. admitted = {}
      BY <1>1, <1>5, <1>7, <1>13, <2>3, Zenon
    <3> QED BY <3>1, <3>2, NoAnswer, Zenon DEF said, admitted
  <2> QED BY <2>2, <2>3
<1> QED BY <1>8, <1>9, <1>10, <1>11, <1>12, <1>13

LEMMA FunctionTypeIs ==
  ASSUME Assumed, NEW f, Tidy(f), P!Kind(f) = "FUNCTION"
  PROVE  /\ P!IsSequence(f[1].params)
         /\ \A i \in DOMAIN f[1].params :
              Tidy(f[1].params[i]) /\ P!Kind(f[1].params[i]) \in P!ArithmeticKinds \cup {"POINTER"}
         /\ ValueType(P!Inner(f)) /\ P!Kind(P!Inner(f)) \notin {"ARRAY", "FUNCTION"}
<1>1. /\ Len(f) \in Nat \ {0} /\ 1 \in 1 .. Len(f) /\ f \in Seq({f[i] : i \in DOMAIN f})
      /\ P!ProperLevel(f[1])
      /\ f[1].kind = "FUNCTION" => SubSeq(f, 1, Len(f)) \in P!FunctionTypes(KnownTypes)
  BY TidyShape
<1>2. f[1].kind = "FUNCTION"
  BY DEF P!Kind
<1>3. SubSeq(f, 1, Len(f)) = f
  BY <1>1, SubSeqFull
<1>4. f \in P!FunctionTypes(KnownTypes)
  BY <1>1, <1>2, <1>3
<1>5. P!IsSequence(f[1].params)
  BY <1>1, <1>2, LevelMade
<1>6. \A i \in DOMAIN f[1].params : f[1].params[i] \in KnownTypes /\ P!IsScalar(f[1].params[i])
  BY <1>4 DEF Assumed, P!Conventional
<1>7. \A i \in DOMAIN f[1].params :
        Tidy(f[1].params[i]) /\ P!Kind(f[1].params[i]) \in P!ArithmeticKinds \cup {"POINTER"}
  BY <1>6, KnownTidy, SameClasses
<1>8. /\ Tidy(P!Inner(f)) /\ P!Kind(P!Inner(f)) \notin {"ARRAY", "FUNCTION"}
      /\ P!Quals(P!Inner(f)) = {}
  BY InnerTidy DEF P!Derived
<1> QED BY <1>5, <1>7, <1>8 DEF ValueType

\* The default promotions of arguments.
LEMMA DefaultIs ==
  ASSUME Target, NEW x, Good(x)
  PROVE  /\ P!DefaultPromote(x) = P!R!DefaultPromote(P!R!Decayed(x))
         /\ P!DefaultPromote(x) # P!NoType
<1> DEFINE t == P!Value(x)
<1>1. ValueType(t) /\ P!R!Decayed(x) = t
  BY ValueIs
<1>2. Numeric(t) => /\ P!PromotedType(t) = P!R!Promote(t) /\ ValueType(P!PromotedType(t))
                    /\ P!Kind(t) \notin P!Integral => P!PromotedType(t) = t
  BY <1>1, PromotedIs
<1>3. P!DefaultPromote(x) = IF P!Kind(t) = "FLOAT" THEN P!Basic("DOUBLE") ELSE P!PromotedType(t)
  BY Zenon DEF P!DefaultPromote
<1>4. P!R!DefaultPromote(t) = CASE P!Kind(t) = "FLOAT" -> P!Basic("DOUBLE")
                                [] P!R!IsInteger(t)    -> P!R!Promote(t)
                                [] OTHER               -> t
  <2>1. P!R!Kind(t) = P!Kind(t) /\ P!R!Basic("DOUBLE") = P!Basic("DOUBLE")
    BY SameTypes
  <2> HIDE DEF t
  <2> QED BY <2>1, Zenon DEF P!R!DefaultPromote
<1>5. P!R!IsInteger(t) <=> P!Kind(t) \in P!Integral
  BY SameClasses
<1>6. /\ P!Kind(t) = "FLOAT" => P!Kind(t) \notin P!Integral
      /\ P!Kind(t) \in P!Integral => Numeric(t)
      /\ "DOUBLE" \in P!ArithmeticKinds
  BY KindsDiffer DEF Numeric
<1>7. P!Kind(t) \notin P!Integral => P!PromotedType(t) = t
  <2>1. (P!IsIntegral(t) <=> P!Kind(t) \in P!Integral) /\ P!Unqualified(t) = t
    BY <1>1, SameClasses, ValueTypeIs
  <2> QED BY <2>1, Zenon DEF P!PromotedType
<1>8. P!Basic("DOUBLE") # P!NoType
  <2>1. ValueType(P!Basic("DOUBLE"))
    BY <1>6, BasicIsValue
  <2> QED BY <2>1, ValueTypeIs
<1>9. t # P!NoType
  BY <1>1, ValueTypeIs
<1>10. P!Kind(t) \in P!Integral => P!PromotedType(t) # P!NoType
  <2>1. Numeric(t) => P!PromotedType(t) # P!NoType
    BY <1>2, ValueTypeIs
  <2> QED BY <1>6, <2>1
<1> HIDE DEF t
<1>11. CASE P!Kind(t) = "FLOAT"
  BY <1>1, <1>3, <1>4, <1>5, <1>6, <1>8, <1>11, Zenon
<1>12. CASE P!Kind(t) # "FLOAT" /\ P!Kind(t) \in P!Integral
  BY <1>1, <1>2, <1>3, <1>4, <1>5, <1>6, <1>10, <1>12, Zenon
<1>13. CASE P!Kind(t) # "FLOAT" /\ P!Kind(t) \notin P!Integral
  BY <1>1, <1>3, <1>4, <1>5, <1>7, <1>9, <1>13, Zenon
<1> QED BY <1>11, <1>12, <1>13

LEMMA CallAgrees ==
  ASSUME Target, Assumed, NEW x, Good(x), NEW args, P!IsSequence(args), \A i \in DOMAIN args : Good(args[i])
  PROVE  Agreed(P!CallTypes(x, args), P!R!Call(x, args))
<1> DEFINE callee == P!Value(x)
           ft == P!Inner(callee)
           f == ft[1]
           returned == P!Inner(ft)
           n == Len(args)
           m == Len(f.params)
           Passed(i) == IF f.proto /\ i <= m THEN P!Convert(args[i], f.params[i])
                        ELSE P!DefaultPromote(args[i])
           Meant(i) == IF f.proto /\ i <= m THEN With(f.params[i], {})
                       ELSE P!R!DefaultPromote(P!R!Decayed(args[i]))
           said == P!CallTypes(x, args)
           admitted == P!R!Call(x, args)
           counts == f.proto => m <= n /\ (m < n => f.variadic)
           taken == f.proto => \A i \in DOMAIN f.params : P!R!Assignable(With(f.params[i], {}), args[i])
<1>1. ValueType(callee) /\ P!R!Decayed(x) = callee
  BY ValueIs
<1>2. n \in Nat /\ DOMAIN args = 1 .. n
  BY SequenceIs
<1>3. CASE P!Kind(callee) = "POINTER" /\ P!Kind(ft) = "FUNCTION"
  <2>1. Tidy(ft)
    BY <1>1, <1>3, ValueTypeIs
  <2>2. /\ P!IsSequence(f.params)
        /\ \A i \in DOMAIN f.params : Tidy(f.params[i]) /\ P!Kind(f.params[i]) \in P!ArithmeticKinds \cup {"POINTER"}
        /\ ValueType(returned) /\ P!Kind(returned) \notin {"ARRAY", "FUNCTION"}
    BY <1>3, <2>1, FunctionTypeIs
  <2>3. m \in Nat /\ DOMAIN f.params = 1 .. m
    BY <2>2, SequenceIs
  <2>4. /\ P!IsPointer(callee) /\ P!IsFunction(ft)
        /\ P!R!IsPointer(callee) /\ P!R!IsFunction(ft)
        /\ P!IsVoid(returned) <=> P!Kind(returned) = "VOID"
    BY <1>3, SameClasses
  <2>5. P!Complete(returned) <=> P!Kind(returned) \notin {"VOID", "STRUCT", "FUNCTION"}
    BY <2>2, CompleteIs DEF ValueType
  <2>6. P!Unqualified(returned) = returned /\ With(returned, {}) = returned
    BY <2>2, ValueTypeIs
  <2>7. /\ P!R!Inner(callee) = ft /\ P!R!Inner(ft) = returned /\ P!R!Kind(returned) = P!Kind(returned)
        /\ \A t : P!R!Bare(t) = With(t, {})
    BY SameTypes, Zenon
  <2> DEFINE incomplete == P!Kind(returned) = "STRUCT"
             ops == <<callee>> \o [i \in DOMAIN args |-> Passed(i)]
  <2>8. ASSUME NEW i \in DOMAIN args, f.proto, i <= m
        PROVE  /\ Passed(i) = IF P!R!Assignable(With(f.params[i], {}), args[i]) THEN Meant(i) ELSE P!NoType
               /\ Meant(i) # P!NoType
    <3> DEFINE p == f.params[i]
               to == With(p, {})
    <3>1. i \in DOMAIN f.params
      BY <1>2, <2>3, <2>8
    <3>2. Tidy(p) /\ P!Kind(p) \in P!ArithmeticKinds \cup {"POINTER"} /\ Good(args[i])
      BY <2>2, <3>1
    <3>3. P!Kind(p) \notin {"ARRAY", "FUNCTION"}
      BY <3>2, KindsDiffer
    <3>4. Tidy(to) /\ P!Kind(to) = P!Kind(p) /\ P!Quals(to) = {}
      BY <3>2, UnqualifiedIs
    <3>5. ValueType(to) /\ P!Kind(to) \in P!ArithmeticKinds \cup {"POINTER"}
      BY <3>2, <3>3, <3>4 DEF ValueType
    <3>6. P!Convert(args[i], p) = IF ConvertsTo(args[i], to) THEN to ELSE P!NoType
      BY <3>2, <3>3, ConvertIs
    <3>7. P!R!Assignable(to, args[i]) <=> ConvertsTo(args[i], to)
      <4> HIDE DEF to
      <4> QED BY <3>2, <3>5, AssignableIs
    <3>8. to # P!NoType
      BY <3>5, ValueTypeIs
    <3>9. Passed(i) = P!Convert(args[i], p) /\ Meant(i) = to
      BY <2>8
    <3> QED BY <3>6, <3>7, <3>8, <3>9, Zenon
  <2>9. ASSUME NEW i \in DOMAIN args, ~(f.proto /\ i <= m)
        PROVE  Passed(i) = Meant(i) /\ Meant(i) # P!NoType
    <3>1. Passed(i) = P!DefaultPromote(args[i]) /\ Meant(i) = P!R!DefaultPromote(P!R!Decayed(args[i]))
      BY <2>9, Zenon
    <3> QED BY <3>1, DefaultIs, Zenon
  <2>10. counts => ((\E i \in DOMAIN args : Passed(i) = P!NoType) <=> ~taken)
    <3>1. SUFFICES ASSUME counts
                   PROVE  (\E i \in DOMAIN args : Passed(i) = P!NoType) <=> ~taken
      OBVIOUS
    <3>2. ASSUME NEW i \in DOMAIN args, Passed(i) = P!NoType
          PROVE  ~taken
      <4>1. f.proto /\ i <= m /\ ~P!R!Assignable(With(f.params[i], {}), args[i])
        BY <2>8, <2>9, <3>2, Zenon
      <4>2. i \in DOMAIN f.params
        BY <1>2, <2>3, <4>1
      <4> QED BY <4>1, <4>2, Zenon
    <3>3. ASSUME ~taken
          PROVE  \E i \in DOMAIN args : Passed(i) = P!NoType
      <4>1. PICK i \in DOMAIN f.params : f.proto /\ ~P!R!Assignable(With(f.params[i], {}), args[i])
        BY <3>3, Zenon
      <4>2. m <= n
        BY <3>1, <4>1, Zenon
      <4>3. i \in DOMAIN args /\ i <= m
        BY <1>2, <2>3, <4>2
      <4> QED BY <2>8, <4>1, <4>3, Zenon
    <3> QED BY <3>2, <3>3, Zenon
  <2>11. said = IF ~counts THEN P!Refused
                ELSE IF \E i \in DOMAIN args : Passed(i) = P!NoType THEN P!Refused
                ELSE IF incomplete THEN P!Refused
                ELSE P!Said(returned, FALSE, ops)
    <3>1. (f.proto /\ (n < m \/ (~f.variadic /\ n # m))) <=> ~counts
      <4>1. /\ n < m <=> ~(m <= n)
            /\ m <= n => (n # m <=> m < n)
        BY <1>2, <2>3
      <4> HIDE DEF n, m, f
      <4> QED BY <4>1, Zenon
    <3>2. (~P!IsVoid(returned) /\ ~P!Complete(returned)) <=> incomplete
      BY <2>2, <2>4, <2>5
    <3>3. said = IF ~(P!IsPointer(callee) /\ P!IsFunction(ft)) THEN P!Refused
                 ELSE IF f.proto /\ (n < m \/ (~f.variadic /\ n # m)) THEN P!Refused
                 ELSE IF \E i \in DOMAIN args : Passed(i) = P!NoType THEN P!Refused
                 ELSE IF ~P!IsVoid(returned) /\ ~P!Complete(returned) THEN P!Refused
                 ELSE P!Said(P!Unqualified(returned), FALSE, ops)
      BY Zenon DEF P!CallTypes
    <3> HIDE DEF said, callee, ft, f, returned, n, m, Passed, counts, incomplete, ops
    <3> QED BY <2>4, <2>6, <3>1, <3>2, <3>3, Zenon
  <2>12. admitted = IF counts /\ taken /\ ~incomplete
                    THEN P!R!Value_(returned, <<callee>> \o [i \in DOMAIN args |-> Meant(i)]) ELSE {}
    <3>1. (f.proto => n >= m /\ (n > m => f.variadic)
                      /\ \A i \in DOMAIN f.params : P!R!Assignable(With(f.params[i], {}), args[i]))
          <=> counts /\ taken
      <4>1. (n >= m <=> m <= n) /\ (n > m <=> m < n)
        BY <1>2, <2>3
      <4> HIDE DEF n, m, f
      <4> QED BY <4>1, Zenon
    <3>2. admitted = IF /\ P!R!IsPointer(callee) /\ P!R!IsFunction(ft) /\ P!Kind(returned) # "STRUCT"
                        /\ f.proto => n >= m /\ (n > m => f.variadic)
                             /\ \A i \in DOMAIN f.params : P!R!Assignable(With(f.params[i], {}), args[i])
                     THEN P!R!Value_(With(returned, {}), <<callee>> \o [i \in DOMAIN args |-> Meant(i)])
                     ELSE {}
      BY <1>1, <2>7, Zenon DEF P!R!Call
    <3> HIDE DEF admitted, callee, ft, f, returned, n, m, Meant, counts, taken
    <3> QED BY <2>4, <2>6, <3>1, <3>2, Zenon
  <2>13. CASE counts /\ taken /\ ~incomplete
    <3>1. ~\E i \in DOMAIN args : Passed(i) = P!NoType
      BY <2>10, <2>13, Zenon
    <3>2. \A i \in DOMAIN args : Passed(i) = Meant(i)
      <4>1. TAKE i \in DOMAIN args
      <4>2. CASE f.proto /\ i <= m
        BY <2>8, <3>1, <4>2, Zenon
      <4>3. CASE ~(f.proto /\ i <= m)
        BY <2>9, <4>3, Zenon
      <4> QED BY <4>2, <4>3, Zenon
    <3>3. [i \in DOMAIN args |-> Passed(i)] = [i \in DOMAIN args |-> Meant(i)]
      <4> HIDE DEF Passed, Meant
      <4> QED BY <3>2
    <3> HIDE DEF said, admitted, callee, returned, counts, taken, incomplete, Passed, Meant, ops
    <3>4. said = P!Said(returned, FALSE, ops)
      BY <2>11, <2>13, <3>1, Zenon
    <3>5. admitted = P!R!Value_(returned, ops)
      BY <2>12, <2>13, <3>3, Zenon DEF ops
    <3>6. Agreed(said, admitted)
      BY <2>2, <3>4, <3>5, SameAnswer
    <3> QED BY <3>6, Zenon DEF said, admitted
  <2>14. CASE ~(counts /\ taken /\ ~incomplete)
    <3> HIDE DEF said, admitted, callee, returned, counts, taken, incomplete, Passed, Meant, ops
    <3>1. said = P!Refused
      BY <2>10, <2>11, <2>14, Zenon
    <3>2. admitted = {}
      BY <2>12, <2>14, Zenon
    <3> QED BY <3>1, <3>2, NoAnswer, Zenon DEF said, admitted
  <2> QED BY <2>13, <2>14, Zenon
<1>4. CASE ~(P!Kind(callee) = "POINTER" /\ P!Kind(ft) = "FUNCTION")
  <2>1. /\ P!IsPointer(callee) <=> P!Kind(callee) = "POINTER"
        /\ P!R!IsPointer(callee) <=> P!Kind(callee) = "POINTER"
        /\ P!IsFunction(ft) <=> P!Kind(ft) = "FUNCTION"
        /\ P!R!IsFunction(ft) <=> P!Kind(ft) = "FUNCTION"
        /\ P!R!Inner(callee) = ft
    BY SameClasses, SameTypes
  <2>2. said = P!Refused
    BY <1>4, <2>1, Zenon DEF P!CallTypes
  <2>3. admitted = {}
    BY <1>1, <1>4, <2>1, Zenon DEF P!R!Call
  <2> QED BY <2>2, <2>3, NoAnswer, Zenon
<1> QED BY <1>3, <1>4

-----------------------------------------------------------------------------
(* What is generated: code and place have the type that the AST's is lowered to. *)

LEMMA InnerWith ==
  ASSUME NEW t, Tidy(t), P!Kind(t) = "POINTER"
  PROVE  P!Inner(With(t, {})) = P!Inner(t)
<1> DEFINE u == With(t, {})
<1>1. /\ Tidy(u) /\ P!Kind(u) = "POINTER" /\ Len(u) = Len(t) /\ Len(t) \in Nat \ {0}
      /\ \A i \in 1 .. Len(t) : i # 1 => u[i] = t[i]
  BY UnqualifiedIs, WithTidy, TidyShape
<1> HIDE DEF u
<1>2. /\ Tidy(P!Inner(u)) /\ Len(P!Inner(u)) = Len(t) - 1
      /\ \A i \in 1 .. Len(t) - 1 : P!Inner(u)[i] = u[i + 1]
  BY <1>1, InnerTidy DEF P!Derived
<1>3. /\ Tidy(P!Inner(t)) /\ Len(P!Inner(t)) = Len(t) - 1
      /\ \A i \in 1 .. Len(t) - 1 : P!Inner(t)[i] = t[i + 1]
  BY InnerTidy DEF P!Derived
<1>4. Len(t) - 1 \in Nat \ {0}
  BY <1>3, TidyShape
<1>5. \A i \in 1 .. Len(t) - 1 : P!Inner(u)[i] = P!Inner(t)[i]
  BY <1>1, <1>2, <1>3
<1>6. P!Inner(u) = P!Inner(t)
  BY <1>2, <1>3, <1>4, <1>5, SameType
<1> QED BY <1>6 DEF u

\* Qualifiers of the value do not count.
LEMMA LowerWith ==
  ASSUME NEW t, Tidy(t)
  PROVE  P!Lower(With(t, {})) = P!Lower(t)
<1> DEFINE u == With(t, {})
<1>1. P!Kind(u) = P!Kind(t)
  BY UnqualifiedIs
<1>2. /\ P!IsArithmetic(u) <=> P!IsArithmetic(t)
      /\ P!IsPointer(u) <=> P!IsPointer(t)
      /\ P!IsIntegral(u) <=> P!IsIntegral(t)
      /\ P!IsPointer(t) <=> P!Kind(t) = "POINTER"
      /\ ~(P!IsPointer(t) /\ P!IsArithmetic(t))
  BY <1>1, SameClasses, KindsDiffer
<1>3. P!IsPointer(t) => P!Inner(u) = P!Inner(t)
  BY <1>2, InnerWith
<1> HIDE DEF u
<1>4. P!LowerArithmetic(u) = P!LowerArithmetic(t)
  BY <1>1, <1>2, Zenon DEF P!LowerArithmetic
<1>5. CASE P!IsArithmetic(t)
  BY <1>2, <1>4, <1>5, Zenon DEF P!Lower, u
<1>6. CASE P!IsPointer(t)
  BY <1>2, <1>3, <1>6, Zenon DEF P!Lower, u
<1>7. CASE ~P!IsArithmetic(t) /\ ~P!IsPointer(t)
  BY <1>2, <1>7, Zenon DEF P!Lower, u
<1> QED BY <1>5, <1>6, <1>7

LEMMA TreeFields ==
  /\ \A said, form, code, place : P!Tree(said, form, code, place).type = said.type
  /\ \A said, form, code, place : P!Tree(said, form, code, place).lvalue = said.lvalue
  /\ \A said, form, code, place : P!Tree(said, form, code, place).form = form
  /\ \A said, form, code, place : P!Tree(said, form, code, place).code = code
  /\ \A said, form, code, place : P!Tree(said, form, code, place).place = place
BY DEF P!Tree

Lowered(c, t) == c = P!NoCode \/ c = P!Lower(t)
Placed(c, t)  == \/ c = P!NoCode
                 \/ c = P!Lower(t) /\ Numeric(t) /\ "volatile" \notin P!Quals(t)

Coded(x) == Good(x) /\ Lowered(x.code, x.type) /\ Placed(x.place, x.type)

LEMMA CodedTree ==
  ASSUME NEW said, Answers(said), NEW form, form # "register",
         form = "zero" => ~said.lvalue /\ P!Kind(said.type) \in P!Integral,
         NEW code, Lowered(code, said.type), NEW place, Placed(place, said.type)
  PROVE  Coded(P!Tree(said, form, code, place))
<1> DEFINE x == P!Tree(said, form, code, place)
<1>1. x.type = said.type
  BY TreeFields
<1>2. x.lvalue = said.lvalue
  BY TreeFields
<1>3. x.form = form /\ x.code = code /\ x.place = place
  BY TreeFields
<1> HIDE DEF x
<1>4. P!NullConstant(x) <=> form = "zero"
  BY <1>3 DEF P!NullConstant
<1>5. P!IsIntegral(said.type) <=> P!Kind(said.type) \in P!Integral
  BY SameClasses
<1>6. P!ProperOperand(x)
  BY <1>1, <1>2, <1>3, <1>4, <1>5, Zenon DEF P!ProperOperand, Answers
<1>7. Good(x)
  BY <1>1, <1>6 DEF Good, Answers
<1>8. Coded(x)
  BY <1>1, <1>3, <1>7, Zenon DEF Coded
<1> QED BY <1>8 DEF x

\* An operand.
LEMMA LeafIs ==
  ASSUME Assumed, NEW o \in Leaves \cup Conditions \cup Further
  PROVE  Coded(P!Leaf(o)) /\ P!Leaf(o).type = o.type
<1>1. o.type \in KnownTypes /\ P!ProperOperand(o)
  BY DEF Assumed, P!Conventional
<1>2. Tidy(o.type)
  BY <1>1, KnownTidy
<1> DEFINE named == o.form \in {"name", "register"}
           code == IF named THEN P!Named(o.type) ELSE IF o.form = "other" THEN P!NoCode ELSE P!Lower(o.type)
           place == IF named THEN P!Slot(o.type) ELSE P!NoCode
           x == P!Tree(o, o.form, code, place)
<1>3. P!Leaf(o) = x
  BY Zenon DEF P!Leaf
<1>4. P!IsScalar(o.type) /\ ~P!IsPointer(o.type) => Numeric(o.type)
  BY SameClasses DEF Numeric
<1>5. Lowered(code, o.type)
  BY Zenon DEF Lowered, P!Named
<1>6. Placed(place, o.type)
  BY <1>4, Zenon DEF Placed, P!Slot, P!Named
<1> HIDE DEF code, place
<1>7. x.type = o.type
  BY TreeFields
<1>8. x.lvalue = o.lvalue
  BY TreeFields
<1>9. x.form = o.form /\ x.code = code /\ x.place = place
  BY TreeFields
<1> HIDE DEF x
<1>10. P!NullConstant(x) <=> P!NullConstant(o)
  BY <1>9 DEF P!NullConstant
<1>11. P!ProperOperand(x)
  BY <1>1, <1>7, <1>8, <1>9, <1>10, Zenon DEF P!ProperOperand
<1>12. Coded(x)
  BY <1>2, <1>5, <1>6, <1>7, <1>9, <1>11, Zenon DEF Coded, Good
<1> QED BY <1>3, <1>7, <1>12

\* The value of an operand, behind no cast.
LEMMA CastOwn ==
  ASSUME Assumed, NEW x, Coded(x)
  PROVE  Lowered(P!Cast(x, P!Value(x)), P!Value(x))
<1> DEFINE t == P!Value(x)
<1>1. Good(x) /\ Tidy(x.type) /\ Lowered(x.code, x.type)
  BY DEF Coded, Good
<1>2. /\ ValueType(t)
      /\ P!Kind(x.type) \notin {"ARRAY", "FUNCTION"} => t = With(x.type, {})
  BY <1>1, ValueIs
<1>3. P!Unqualified(t) = t /\ P!Compatible(t, t, TRUE)
  BY <1>2, ValueTypeIs, SameValueType
<1>4. /\ P!IsArray(x.type) <=> P!Kind(x.type) = "ARRAY"
      /\ P!IsFunction(x.type) <=> P!Kind(x.type) = "FUNCTION"
  BY SameClasses
<1> HIDE DEF t
<1>5. P!Cast(x, t) = IF P!IsArray(x.type) \/ P!IsFunction(x.type) THEN P!NoCode ELSE x.code
  BY <1>3, Zenon DEF P!Cast, t
<1>6. CASE P!Kind(x.type) \in {"ARRAY", "FUNCTION"}
  <2>1. P!Cast(x, t) = P!NoCode
    BY <1>4, <1>5, <1>6
  <2> QED BY <2>1, Zenon DEF Lowered, t
<1>7. CASE P!Kind(x.type) \notin {"ARRAY", "FUNCTION"}
  <2>1. P!Cast(x, t) = x.code
    BY <1>4, <1>5, <1>7
  <2>2. P!Lower(t) = P!Lower(x.type)
    BY <1>1, <1>2, <1>7, LowerWith
  <2> QED BY <1>1, <2>1, <2>2, Zenon DEF Lowered, t
<1> QED BY <1>6, <1>7

\* A pointer has a value if it points to an arithmetic object that is not volatile.
LEMMA LowerPointer ==
  ASSUME NEW t, P!Kind(t) = "POINTER"
  PROVE  /\ P!Lower(t) # P!NoCode => Numeric(P!Inner(t)) /\ "volatile" \notin P!Quals(P!Inner(t))
         /\ /\ Numeric(P!Inner(t)) /\ "volatile" \notin P!Quals(P!Inner(t))
            /\ P!Lower(P!Inner(t)) # P!NoCode
            => P!Lower(t) = <<"ptr">> \o P!Lower(P!Inner(t))
<1> DEFINE p == P!Inner(t)
<1>1. P!IsPointer(t) /\ ~P!IsArithmetic(t) /\ (P!IsArithmetic(p) <=> Numeric(p))
  BY SameClasses, KindsDiffer DEF Numeric
<1> HIDE DEF p
<1>2. P!Lower(t) = IF P!IsArithmetic(p) /\ "volatile" \notin P!Quals(p) /\ P!LowerArithmetic(p) # P!NoCode
                   THEN <<"ptr">> \o P!LowerArithmetic(p) ELSE P!NoCode
  BY <1>1, Zenon DEF P!Lower, p
<1>3. P!IsArithmetic(p) => P!Lower(p) = P!LowerArithmetic(p)
  <2>1. P!IsArithmetic(p) => ~P!IsPointer(p)
    BY SameClasses, KindsDiffer
  <2> QED BY <2>1, Zenon DEF P!Lower
<1> QED BY <1>1, <1>2, <1>3, Zenon DEF p

-----------------------------------------------------------------------------
(* The invariant: Sema has answered as C does, and every tree on the stack is a *)
(* proper operand whose code has the lowered type.                              *)

AllCoded(s) == P!IsSequence(s) /\ \A i \in DOMAIN s : Coded(s[i])

PointerInv == Target /\ sound /\ AllCoded(exprs)

LEMMA SameCode ==
  ASSUME target' = target
  PROVE  Target' = Target /\ \A x : Coded(x)' <=> Coded(x)
<1>1. \A k : P!Width(k)' = P!Width(k)
  BY DEF P!Width
<1>2. \A t : P!LowerArithmetic(t)' = P!LowerArithmetic(t)
  BY <1>1 DEF P!LowerArithmetic
<1>3. \A t : P!Lower(t)' = P!Lower(t)
  BY <1>2, Zenon DEF P!Lower
<1>4. \A c, t : (Lowered(c, t)' <=> Lowered(c, t)) /\ (Placed(c, t)' <=> Placed(c, t))
  BY <1>3, Zenon DEF Lowered, Placed
<1>5. \A x : Coded(x)' <=> Coded(x)
  BY <1>4, Zenon DEF Coded
<1>6. Target' = Target
  BY DEF Target
<1> QED BY <1>5, <1>6

LEMMA CodedSequence ==
  ASSUME NEW s, AllCoded(s)
  PROVE  /\ Len(s) \in Nat /\ DOMAIN s = 1 .. Len(s) /\ \A i \in 1 .. Len(s) : Coded(s[i])
         /\ s \in Seq({s[i] : i \in DOMAIN s}) /\ \A x \in {s[i] : i \in DOMAIN s} : Coded(x)
<1>1. P!IsSequence(s) /\ \A i \in DOMAIN s : Coded(s[i])
  BY DEF AllCoded
<1> QED BY <1>1, SequenceIs

LEMMA CodedAll ==
  ASSUME NEW S, \A x \in S : Coded(x), NEW s \in Seq(S)
  PROVE  AllCoded(s)
<1>1. \A i \in DOMAIN s : s[i] \in S
  BY LenProperties, ElementOfSeq
<1> QED BY <1>1, IsSequenceOf DEF AllCoded

LEMMA StackIs ==
  ASSUME PointerInv
  PROVE  /\ Target /\ Len(exprs) \in Nat
         /\ Len(exprs) >= 1 => Coded(P!Left) /\ Coded(P!Right)
<1>1. Len(exprs) \in Nat /\ \A i \in 1 .. Len(exprs) : Coded(exprs[i])
  BY CodedSequence DEF PointerInv
<1>2. ASSUME Len(exprs) >= 1 PROVE Coded(P!Left) /\ Coded(P!Right)
  <2>1. 1 \in 1 .. Len(exprs) /\ Len(exprs) \in 1 .. Len(exprs)
    BY <1>1, <1>2
  <2> QED BY <1>1, <2>1 DEF P!Left, P!Right
<1> QED BY <1>1, <1>2 DEF PointerInv

\* The first trees of a stack and one more.
LEMMA PutOn ==
  ASSUME NEW s, AllCoded(s), NEW m \in 0 .. Len(s), NEW x, Coded(x)
  PROVE  AllCoded(Append(SubSeq(s, 1, m), x)) /\ AllCoded(Append(s, x))
<1> DEFINE S == {s[i] : i \in DOMAIN s} \cup {x}
<1>1. /\ Len(s) \in Nat /\ DOMAIN s = 1 .. Len(s)
      /\ s \in Seq({s[i] : i \in DOMAIN s}) /\ \A y \in {s[i] : i \in DOMAIN s} : Coded(y)
  BY CodedSequence
<1>2. s \in Seq(S)
  BY <1>1, SeqMonotonic, Zenon
<1>3. \A y \in S : Coded(y)
  BY <1>1, Zenon
<1>4. x \in S
  OBVIOUS
<1> HIDE DEF S
<1>5. \A i \in 1 .. m : s[i] \in S
  BY <1>1, <1>2, ElementOfSeq
<1>6. SubSeq(s, 1, m) \in Seq(S)
  BY <1>1, <1>2, <1>5, SubSeqProperties
<1>7. Append(SubSeq(s, 1, m), x) \in Seq(S) /\ Append(s, x) \in Seq(S)
  BY <1>2, <1>4, <1>6, AppendProperties
<1> QED BY <1>3, <1>7, CodedAll

LEMMA NothingCoded ==
  AllCoded(<<>>)
<1>1. <<>> \in Seq({}) /\ \A x \in {} : Coded(x)
  OBVIOUS
<1> QED BY <1>1, CodedAll

\* An answer that is C's, with code for it.
LEMMA ReducedKeeps ==
  ASSUME PointerInv, NEW n \in Nat, n <= Len(exprs), NEW said, NEW admitted, NEW form, NEW code, NEW place,
         Agreed(said, admitted), form # "register",
         said # P!Refused => /\ form = "zero" => ~said.lvalue /\ P!Kind(said.type) \in P!Integral
                             /\ Lowered(code, said.type) /\ Placed(place, said.type),
         P!Reduce(n, said, admitted, form, code, place)
  PROVE  PointerInv'
<1> DEFINE tree == P!Tree(said, form, code, place)
           m == Len(exprs) - n
<1>1. target' = target
  BY DEF P!Reduce
<1>2. sound' = TRUE
  <2>1. sound' = IF admitted = {} THEN said = P!Refused ELSE said \in admitted
    BY Zenon DEF P!Reduce
  <2> QED BY <2>1, Zenon DEF Agreed
<1>3. exprs' = IF said = P!Refused THEN <<>> ELSE Append(SubSeq(exprs, 1, m), tree)
  BY <1>2, Zenon DEF P!Reduce
<1>4. AllCoded(exprs')
  <2>1. CASE said = P!Refused
    BY <1>3, <2>1, NothingCoded
  <2>2. CASE said # P!Refused
    <3>1. Answers(said)
      BY <2>2 DEF Agreed
    <3>2. Coded(tree)
      BY <2>2, <3>1, CodedTree
    <3> HIDE DEF tree
    <3>3. m \in 0 .. Len(exprs)
      BY StackIs
    <3>4. AllCoded(Append(SubSeq(exprs, 1, m), tree))
      BY <3>2, <3>3, PutOn DEF PointerInv
    <3> QED BY <1>3, <2>2, <3>4
  <2> QED BY <2>1, <2>2
<1>5. \A x : Coded(x)' <=> Coded(x)
  BY <1>1, SameCode
<1>6. \A s : AllCoded(s)' <=> AllCoded(s)
  BY <1>5, Zenon DEF AllCoded
<1>7. Target'
  BY <1>1, SameCode DEF PointerInv
<1>8. AllCoded(exprs)'
  BY <1>4, <1>5 DEF AllCoded
<1> QED BY <1>2, <1>7, <1>8 DEF PointerInv

-----------------------------------------------------------------------------
(* Steps on expressions with pointers.                                         *)

LEMMA LeafKeeps ==
  ASSUME Assumed, PointerInv, NEW o \in Leaves, P!Operand(o)
  PROVE  PointerInv'
<1>1. exprs' = Append(exprs, P!Leaf(o)) /\ target' = target /\ sound' = sound
  BY DEF P!Operand
<1>2. Coded(P!Leaf(o))
  BY LeafIs
<1>3. Len(exprs) \in 0 .. Len(exprs)
  BY StackIs
<1>4. AllCoded(exprs')
  BY <1>1, <1>2, <1>3, PutOn DEF PointerInv
<1>5. \A x : Coded(x)' <=> Coded(x)
  BY <1>1, SameCode
<1>6. AllCoded(exprs)'
  BY <1>4, <1>5 DEF AllCoded
<1>7. Target'
  BY <1>1, SameCode DEF PointerInv
<1> QED BY <1>1, <1>6, <1>7 DEF PointerInv

LEMMA SaidIs ==
  ASSUME NEW said, NEW type, NEW ops, \E lvalue \in BOOLEAN : said = P!Said(type, lvalue, ops)
  PROVE  said.type = type /\ said.operands = ops
<1>1. PICK lvalue \in BOOLEAN : said = P!Said(type, lvalue, ops)
  OBVIOUS
<1>2. P!Said(type, lvalue, ops).type = type
  BY SaidFields
<1>3. P!Said(type, lvalue, ops).operands = ops
  BY SaidFields
<1> QED BY <1>1, <1>2, <1>3, Zenon

\* An answer without code.
LEMMA BareKeeps ==
  ASSUME PointerInv, NEW n \in Nat, n <= Len(exprs), NEW said, NEW admitted, Agreed(said, admitted),
         P!Reduce(n, said, admitted, "other", P!NoCode, P!NoCode)
  PROVE  PointerInv'
<1>1. Lowered(P!NoCode, said.type) /\ Placed(P!NoCode, said.type)
  BY Zenon DEF Lowered, Placed
<1>2. "other" # "register" /\ "other" # "zero"
  OBVIOUS
<1> QED BY <1>1, <1>2, ReducedKeeps

\* An answer with code for a value.
LEMMA ValueKeeps ==
  ASSUME PointerInv, NEW n \in Nat, n <= Len(exprs), NEW said, NEW admitted, NEW code,
         Agreed(said, admitted), said # P!Refused => Lowered(code, said.type),
         P!Reduce(n, said, admitted, "other", code, P!NoCode)
  PROVE  PointerInv'
<1>1. Placed(P!NoCode, said.type)
  BY Zenon DEF Placed
<1>2. "other" # "register" /\ "other" # "zero"
  OBVIOUS
<1> QED BY <1>1, <1>2, ReducedKeeps

LEMMA OneStands ==
  ASSUME PointerInv, P!One
  PROVE  Target /\ 1 <= Len(exprs) /\ Len(exprs) \in Nat /\ Coded(P!Right) /\ Good(P!Right)
<1>1. Len(exprs) >= 1
  BY DEF P!One
<1>2. Target /\ Coded(P!Right) /\ Len(exprs) \in Nat
  BY <1>1, StackIs
<1> QED BY <1>1, <1>2 DEF Coded

LEMMA TwoStand ==
  ASSUME PointerInv, P!Two
  PROVE  /\ Target /\ 2 <= Len(exprs) /\ Coded(P!Left) /\ Good(P!Left)
         /\ Coded(P!Right) /\ Good(P!Right)
<1>1. Len(exprs) = 2
  BY DEF P!Two
<1>2. Target /\ Coded(P!Left) /\ Coded(P!Right)
  BY <1>1, StackIs
<1> QED BY <1>1, <1>2 DEF Coded

LEMMA AddressKeeps ==
  ASSUME PointerInv, P!AddressOf
  PROVE  PointerInv'
<1> DEFINE x == P!Right
           said == P!AddressTypes(x)
           code == IF x.lvalue /\ x.place # P!NoCode THEN <<"ptr">> \o x.place ELSE P!NoCode
<1>1. P!One /\ P!Reduce(1, said, P!R!AddressOf(x), "other", code, P!NoCode)
  BY Zenon DEF P!AddressOf
<1>2. 1 \in Nat /\ 1 <= Len(exprs) /\ Good(x) /\ Tidy(x.type) /\ Placed(x.place, x.type)
  BY <1>1, OneStands DEF Coded, Good
<1>3. Agreed(said, P!R!AddressOf(x))
  BY <1>2, AddressAgrees
<1>4. ASSUME said # P!Refused PROVE Lowered(code, said.type)
  <2> DEFINE t == P!PtrTo(x.type)
  <2>1. said = P!Said(t, FALSE, <<x.type>>)
    BY <1>4, Zenon DEF P!AddressTypes
  <2>2. said.type = t
    <3>1. PICK lvalue \in BOOLEAN : lvalue = FALSE
      BY Zenon
    <3>2. said = P!Said(t, lvalue, <<x.type>>)
      BY <2>1, <3>1, Zenon
    <3> HIDE DEF said, t
    <3> QED BY <3>2, SaidIs
  <2>3. P!Kind(t) = "POINTER" /\ P!Inner(t) = x.type
    BY <1>2, PointerIsValue
  <2> HIDE DEF t, said
  <2>4. x.place # P!NoCode => P!Lower(t) = <<"ptr">> \o x.place
    <3>1. x.place # P!NoCode => /\ x.place = P!Lower(x.type) /\ Numeric(x.type)
                                /\ "volatile" \notin P!Quals(x.type)
      BY <1>2, Zenon DEF Placed
    <3> QED BY <2>3, <3>1, LowerPointer
  <2> QED BY <2>2, <2>4, Zenon DEF Lowered
<1> HIDE DEF said, code, x
<1> QED BY <1>1, <1>2, <1>3, <1>4, ValueKeeps

LEMMA DereferenceKeeps ==
  ASSUME Assumed, PointerInv, P!Dereference
  PROVE  PointerInv'
<1> DEFINE x == P!Right
           t == P!Value(x)
           p == P!Inner(t)
           said == P!DereferenceTypes(x)
           some == P!R!Dereference(x)
           admitted == IF P!R!VoidPointer(x) THEN P!Stricter(said, some) ELSE some
           place == IF said = P!Refused THEN P!NoCode ELSE P!Pointed(P!Cast(x, said.operands[1]), said.type)
<1>1. P!One /\ P!Reduce(1, said, admitted, "other", place, place)
  BY Zenon DEF P!Dereference
<1>2. 1 \in Nat /\ 1 <= Len(exprs) /\ Good(x) /\ Coded(x)
  BY <1>1, OneStands
<1>3. Agreed(said, admitted)
  BY <1>2, DereferenceAgrees
<1>4. ASSUME said # P!Refused PROVE Lowered(place, said.type) /\ Placed(place, said.type)
  <2>1. P!IsPointer(t) /\ said = P!Said(p, ~P!IsFunction(p), <<t>>)
    BY <1>4, Zenon DEF P!DereferenceTypes
  <2>2. said.type = p /\ said.operands = <<t>>
    <3>1. PICK lvalue \in BOOLEAN : lvalue = ~P!IsFunction(p)
      BY Zenon
    <3>2. said = P!Said(p, lvalue, <<t>>)
      BY <2>1, <3>1, Zenon
    <3> HIDE DEF said, p, t
    <3> QED BY <3>2, SaidIs
  <2>4. said.operands[1] = t
    BY <2>2
  <2>5. P!Kind(t) = "POINTER"
    BY <2>1, SameClasses
  <2> DEFINE c == P!Cast(x, t)
  <2>6. c = P!NoCode \/ c = P!Lower(t)
    BY <1>2, CastOwn DEF Lowered
  <2>7. place = P!Pointed(c, p)
    BY <1>4, <2>2, <2>4, Zenon
  <2>8. place = P!NoCode \/ (place = P!Lower(p) /\ c # P!NoCode)
    BY <2>7, Zenon DEF P!Pointed
  <2> HIDE DEF place, c, said, p
  <2>9. c # P!NoCode => Numeric(p) /\ "volatile" \notin P!Quals(p)
    BY <2>5, <2>6, LowerPointer DEF p
  <2> QED BY <2>2, <2>8, <2>9, Zenon DEF Lowered, Placed
<1> HIDE DEF said, admitted, place, x
<1>5. "other" # "register" /\ "other" # "zero"
  OBVIOUS
<1> QED BY <1>1, <1>2, <1>3, <1>4, <1>5, ReducedKeeps

LEMMA PrefixKeeps ==
  ASSUME PointerInv, NEW op \in {"POS", "NEG", "BITNOT", "NOT"}, P!Unary(op)
  PROVE  PointerInv'
<1> DEFINE x == P!Right
           said == P!UnaryTypes(op, x)
           admitted == P!R!Unary(op, x)
           form == IF op \in {"POS", "NEG"} /\ P!NullConstant(x) THEN "zero" ELSE "other"
<1>1. P!One /\ P!Reduce(1, said, admitted, form, P!NoCode, P!NoCode)
  BY Zenon DEF P!Unary
<1>2. 1 \in Nat /\ 1 <= Len(exprs) /\ Good(x) /\ Target
  BY <1>1, OneStands
<1>3. /\ Agreed(said, admitted)
      /\ op \in {"POS", "NEG"} /\ P!NullConstant(x) => P!Kind(said.type) \in P!Integral
  BY <1>2, UnaryAgrees
<1>4. form # "register" /\ (form = "zero" => op \in {"POS", "NEG"} /\ P!NullConstant(x))
  OBVIOUS
<1>5. \E type, ops : said = P!Said(type, FALSE, ops)
  <2>1. said = P!Said(P!NoType, FALSE, <<>>) \/ \E type, ops : said = P!Said(type, FALSE, ops)
    BY Zenon DEF P!UnaryTypes, P!Refused
  <2> QED BY <2>1, Zenon
<1>6. ~said.lvalue
  <2> HIDE DEF said
  <2>1. PICK type, ops : said = P!Said(type, FALSE, ops)
    BY <1>5, Zenon
  <2>2. PICK lvalue \in BOOLEAN : lvalue = FALSE
    BY Zenon
  <2>3. P!Said(type, lvalue, ops).lvalue = lvalue
    BY SaidFields
  <2> QED BY <2>1, <2>2, <2>3, Zenon
<1>7. Lowered(P!NoCode, said.type) /\ Placed(P!NoCode, said.type)
  BY Zenon DEF Lowered, Placed
<1> HIDE DEF said, admitted, form, x
<1> QED BY <1>1, <1>2, <1>3, <1>4, <1>6, <1>7, ReducedKeeps

\* The result of a comparison or of arithmetic on integers.
LEMMA BinaryCode ==
  ASSUME Target, Assumed, NEW x, Coded(x), NEW y, Coded(y),
         NEW op \in P!Assignments \cup P!Comparisons \cup {"COMMA", "AND", "OR"},
         P!BinaryTypes(op, x, y) # P!Refused
  PROVE  Lowered(P!EmitBinary(op, x, y, P!BinaryTypes(op, x, y)), P!BinaryTypes(op, x, y).type)
<1> DEFINE said == P!BinaryTypes(op, x, y)
           l == P!Cast(x, said.operands[1])
           r == P!Cast(y, said.operands[2])
           equal == l # P!NoCode /\ l = r /\ Head(l) = "i"
           compared == op \in P!Comparisons /\ equal /\ P!IsIntegral(said.operands[1])
           computed == op \in {"ADD", "SUB", "MUL"} /\ equal /\ P!IsIntegral(said.type)
                       /\ l = P!Lower(said.type)
           code == P!EmitBinary(op, x, y, said)
<1>1. code = CASE compared -> P!Lower(P!IntTy) [] computed -> l [] OTHER -> P!NoCode
  BY Zenon DEF P!EmitBinary
<1>2. op \in P!Comparisons => said.type = P!IntTy
  <2> HIDE DEF said
  <2> SUFFICES ASSUME op \in P!Comparisons PROVE said.type = P!IntTy
    OBVIOUS
  <2>1. Good(x) /\ Good(y)
    BY DEF Coded
  <2>2. P!CompareTypes(op, x, y) = P!Refused \/ P!CompareTypes(op, x, y).type = P!IntTy
    BY <2>1, CompareAgrees
  <2>3. op \notin {"COMMA", "AND", "OR", "ADD", "SUB"}
    BY DEF P!Comparisons
  <2>4. op # "COMMA" /\ op \notin {"AND", "OR"} /\ op \notin {"LSHIFT", "MUL", "MOD", "BITAND"}
        /\ op \notin {"ADD", "SUB"} /\ op # "LSHIFT" /\ op \notin {"MUL", "MOD", "BITAND"}
    BY DEF P!Comparisons
  <2>5. said = P!CompareTypes(op, x, y)
    BY <2>4, Zenon DEF P!BinaryTypes, said
  <2> QED BY <2>2, <2>5 DEF said
<1>3. op \in P!Comparisons => op \notin {"ADD", "SUB", "MUL"}
  BY DEF P!Comparisons
<1>4. ~(compared /\ computed)
  BY <1>3
<1> HIDE DEF code
<1>5. CASE compared
  <2>1. code = P!Lower(P!IntTy)
    BY <1>1, <1>4, <1>5, Zenon
  <2> QED BY <1>2, <1>5, <2>1, Zenon DEF Lowered, code
<1>6. CASE computed
  <2>1. code = l
    BY <1>1, <1>4, <1>6, Zenon
  <2> QED BY <1>6, <2>1, Zenon DEF Lowered, code
<1>7. CASE ~compared /\ ~computed
  <2>1. code = P!NoCode
    BY <1>1, <1>7, Zenon
  <2> QED BY <2>1, Zenon DEF Lowered, code
<1> QED BY <1>5, <1>6, <1>7

LEMMA PairKeeps ==
  ASSUME Assumed, PointerInv, NEW op \in P!Assignments \cup P!Comparisons \cup {"COMMA", "AND", "OR"},
         P!Binary(op)
  PROVE  PointerInv'
<1> DEFINE x == P!Left
           y == P!Right
           said == P!BinaryTypes(op, x, y)
           some == P!R!BinaryAnswers(op, x, y, P!SizeType(TRUE))
           open == op \in {"LT", "GT", "LEQ", "GEQ"} /\ P!R!VoidPointer(x) /\ P!R!VoidPointer(y)
           admitted == IF open THEN P!Stricter(said, some) ELSE some
           code == IF said = P!Refused THEN P!NoCode ELSE P!EmitBinary(op, x, y, said)
<1>1. P!Two /\ P!Reduce(2, said, admitted, "other", code, P!NoCode)
  BY Zenon DEF P!Binary
<1>2. 2 \in Nat /\ 2 <= Len(exprs) /\ Target /\ Good(x) /\ Good(y) /\ Coded(x) /\ Coded(y)
  BY <1>1, TwoStand
<1>3. Agreed(said, admitted)
  BY <1>2, BinaryAgrees
<1>4. said # P!Refused => Lowered(code, said.type)
  <2> SUFFICES ASSUME said # P!Refused PROVE Lowered(P!EmitBinary(op, x, y, said), said.type)
    BY Zenon
  <2> HIDE DEF x, y
  <2> QED BY <1>2, BinaryCode
<1> HIDE DEF said, admitted, code, x, y
<1> QED BY <1>1, <1>2, <1>3, <1>4, ValueKeeps

LEMMA AssignmentKeeps ==
  ASSUME Assumed, PointerInv, P!Assign
  PROVE  PointerInv'
<1> DEFINE x == P!Left
           y == P!Right
           said == P!AssignTypes(x, y)
           code == IF said = P!Refused THEN P!NoCode ELSE P!EmitAssign(x, y)
<1>1. P!Two /\ P!Reduce(2, said, P!R!Assignment(x, y), "other", code, P!NoCode)
  BY Zenon DEF P!Assign
<1>2. 2 \in Nat /\ 2 <= Len(exprs) /\ Target /\ Good(x) /\ Good(y) /\ Tidy(x.type) /\ Placed(x.place, x.type)
  BY <1>1, TwoStand DEF Coded, Good
<1>3. Agreed(said, P!R!Assignment(x, y))
  BY <1>2, AssignAgrees
<1>4. ASSUME said # P!Refused PROVE Lowered(code, said.type)
  <2> DEFINE t == P!Unqualified(x.type)
             ops == <<x.type, P!Convert(y, x.type)>>
  <2>1. said = P!Said(t, FALSE, ops)
    BY <1>4, Zenon DEF P!AssignTypes
  <2>2. said.type = t
    <3>1. PICK lvalue \in BOOLEAN : lvalue = FALSE
      BY Zenon
    <3>2. said = P!Said(t, lvalue, ops)
      BY <2>1, <3>1, Zenon
    <3> HIDE DEF said, t, ops
    <3> QED BY <3>2, SaidIs
  <2>3. P!Lower(t) = P!Lower(x.type)
    BY <1>2, LowerWith, UnqualifiedIs
  <2>4. code = P!NoCode \/ (code = x.place /\ x.place # P!NoCode)
    BY Zenon DEF P!EmitAssign
  <2>5. x.place # P!NoCode => x.place = P!Lower(x.type)
    BY <1>2, Zenon DEF Placed
  <2> QED BY <2>2, <2>3, <2>4, <2>5, Zenon DEF Lowered
<1> HIDE DEF said, code, x, y
<1> QED BY <1>1, <1>2, <1>3, <1>4, ValueKeeps

LEMMA ArmsKeep ==
  ASSUME Assumed, PointerInv, NEW c \in Conditions, P!Conditional(c)
  PROVE  PointerInv'
<1> DEFINE x == P!Left
           y == P!Right
           z == P!Leaf(c)
           said == P!ConditionalTypes(z, x, y)
<1>1. P!Two /\ P!Reduce(2, said, P!R!Conditional(c, x, y), "other", P!NoCode, P!NoCode)
  BY Zenon DEF P!Conditional
<1>2. 2 \in Nat /\ 2 <= Len(exprs) /\ Target /\ Good(x) /\ Good(y)
  BY <1>1, TwoStand
<1>3. Good(z) /\ c.type = z.type
  BY LeafIs DEF Coded
<1> HIDE DEF x, y, z
<1>4. Agreed(said, P!R!Conditional(c, x, y))
  BY <1>2, <1>3, ConditionalAgrees
<1> HIDE DEF said
<1> QED BY <1>1, <1>2, <1>4, BareKeeps

LEMMA CallKeeps ==
  ASSUME Assumed, PointerInv, NEW more, more = <<>> \/ \E o \in Further : more = <<o>>, P!Call(more)
  PROVE  PointerInv'
<1> DEFINE x == P!Left
           last == [i \in DOMAIN more |-> P!Leaf(more[i])]
           args == Tail(exprs) \o last
           said == P!CallTypes(x, args)
           n == Len(exprs)
           code == IF said = P!Refused THEN P!NoCode ELSE P!EmitCall(x, args, said)
<1>1. P!One /\ P!Reduce(n, said, P!R!Call(x, args), "other", code, P!NoCode)
  BY Zenon DEF P!Call
<1>2. n \in Nat /\ 1 <= n /\ Target /\ Coded(x) /\ Good(x)
  <2>1. n >= 1
    BY <1>1 DEF P!One
  <2> QED BY <2>1, StackIs DEF Coded
<1>3. P!IsSequence(args) /\ \A i \in DOMAIN args : Good(args[i])
  <2> DEFINE S == {exprs[i] : i \in DOMAIN exprs} \cup {P!Leaf(o) : o \in Further}
  <2>1. /\ exprs \in Seq({exprs[i] : i \in DOMAIN exprs})
        /\ \A e \in {exprs[i] : i \in DOMAIN exprs} : Coded(e)
    BY CodedSequence DEF PointerInv
  <2>2. exprs \in Seq(S)
    BY <2>1, SeqMonotonic, Zenon
  <2>3. \A e \in S : Coded(e)
    BY <2>1, LeafIs
  <2>4. last \in Seq(S)
    <3>1. CASE more = <<>>
      <4>1. last = <<>>
        BY <3>1
      <4> QED BY <4>1
    <3>2. CASE \E o \in Further : more = <<o>>
      <4>1. PICK o \in Further : more = <<o>>
        BY <3>2
      <4>2. DOMAIN more = {1} /\ more[1] = o
        BY <4>1
      <4>3. last = [i \in 1 .. 1 |-> P!Leaf(o)]
        BY <4>2
      <4>4. P!Leaf(o) \in S
        OBVIOUS
      <4> HIDE DEF S, last
      <4>5. [i \in 1 .. 1 |-> P!Leaf(o)] \in Seq(S)
        BY <4>4
      <4> QED BY <4>3, <4>5
    <3> QED BY <3>1, <3>2
  <2> HIDE DEF S, last
  <2>5. Tail(exprs) \in Seq(S)
    <3>1. exprs # <<>>
      BY <1>2
    <3> QED BY <2>2, <3>1, HeadTailProperties
  <2>6. args \in Seq(S)
    BY <2>4, <2>5, ConcatProperties
  <2> HIDE DEF args
  <2>7. AllCoded(args)
    BY <2>3, <2>6, CodedAll
  <2> QED BY <2>7 DEF AllCoded, Coded
<1> HIDE DEF x, args
<1>4. Agreed(said, P!R!Call(x, args))
  BY <1>2, <1>3, CallAgrees
<1>5. said # P!Refused => Lowered(code, said.type)
  BY Zenon DEF Lowered, P!EmitCall
<1> HIDE DEF said, code
<1> QED BY <1>1, <1>2, <1>4, <1>5, ValueKeeps

\* Every step.
LEMMA PointerStep ==
  ASSUME Assumed, PointerInv, P!Next
  PROVE  PointerInv'
<1>1. CASE \E o \in Leaves : P!Operand(o)
  BY <1>1, LeafKeeps
<1>2. CASE P!AddressOf
  BY <1>2, AddressKeeps
<1>3. CASE P!Dereference
  BY <1>3, DereferenceKeeps
<1>4. CASE P!IncDec
  <2>1. P!One /\ P!Reduce(1, P!IncDecTypes(P!Right), P!R!IncDec(P!Right), "other", P!NoCode, P!NoCode)
    BY <1>4, Zenon DEF P!IncDec
  <2>2. 1 \in Nat /\ 1 <= Len(exprs) /\ Good(P!Right)
    BY <2>1, OneStands
  <2> QED BY <2>1, <2>2, IncDecAgrees, BareKeeps
<1>5. CASE P!Sizeof
  <2>1. P!One /\ P!Reduce(1, P!SizeofTypes(P!Right), P!R!Sizeof(P!Right, P!SizeType(FALSE)), "other", P!NoCode, P!NoCode)
    BY <1>5, Zenon DEF P!Sizeof
  <2>2. 1 \in Nat /\ 1 <= Len(exprs) /\ Good(P!Right)
    BY <2>1, OneStands
  <2>3. Agreed(P!SizeofTypes(P!Right), P!R!Sizeof(P!Right, P!SizeType(FALSE)))
    BY <2>2, SizeofAgrees
  <2> DEFINE said == P!SizeofTypes(P!Right)
             admitted == P!R!Sizeof(P!Right, P!SizeType(FALSE))
  <2> HIDE DEF said, admitted
  <2> QED BY <2>1, <2>2, <2>3, BareKeeps DEF said, admitted
<1>6. CASE P!Member
  <2>1. P!One /\ P!Reduce(1, P!Refused, {}, "other", P!NoCode, P!NoCode)
    BY <1>6, Zenon DEF P!Member
  <2>2. 1 \in Nat /\ 1 <= Len(exprs)
    BY <2>1, OneStands
  <2> QED BY <2>1, <2>2, NoAnswer, BareKeeps
<1>7. CASE \E op \in {"POS", "NEG", "BITNOT", "NOT"} : P!Unary(op)
  BY <1>7, PrefixKeeps
<1>8. CASE \E o \in PointerOperators : IF o.compound THEN P!CompoundAssign(o.op) ELSE P!Binary(o.op)
  <2>1. PICK o \in PointerOperators : IF o.compound THEN P!CompoundAssign(o.op) ELSE P!Binary(o.op)
    BY <1>8
  <2>2. IF o.compound THEN o.op \in P!Assignments
        ELSE o.op \in P!Assignments \cup P!Comparisons \cup {"COMMA", "AND", "OR"}
    BY Zenon DEF Assumed, P!Conventional
  <2>3. CASE o.compound
    <3> DEFINE said == P!CompoundTypes(o.op, P!Left, P!Right)
               admitted == P!R!CompoundAssignment(o.op, P!Left, P!Right, P!SizeType(TRUE))
    <3>1. P!Two /\ P!Reduce(2, said, admitted, "other", P!NoCode, P!NoCode)
      BY <2>1, <2>3, Zenon DEF P!CompoundAssign
    <3>2. 2 \in Nat /\ 2 <= Len(exprs) /\ Target /\ Good(P!Left) /\ Good(P!Right)
      BY <3>1, TwoStand
    <3>3. o.op \in P!Assignments
      BY <2>2, <2>3
    <3>4. Agreed(said, admitted)
      BY <3>2, <3>3, CompoundAgrees
    <3> HIDE DEF said, admitted
    <3> QED BY <3>1, <3>2, <3>4, BareKeeps
  <2>4. CASE ~o.compound
    BY <2>1, <2>2, <2>4, PairKeeps
  <2> QED BY <2>3, <2>4
<1>9. CASE P!Assign
  BY <1>9, AssignmentKeeps
<1>10. CASE P!Index
  <2> DEFINE said == P!IndexTypes(P!Left, P!Right)
             admitted == P!R!Index(P!Left, P!Right)
  <2>1. P!Two /\ P!Reduce(2, said, admitted, "other", P!NoCode, P!NoCode)
    BY <1>10, Zenon DEF P!Index
  <2>2. 2 \in Nat /\ 2 <= Len(exprs) /\ Target /\ Good(P!Left) /\ Good(P!Right)
    BY <2>1, TwoStand
  <2>3. Agreed(said, admitted)
    BY <2>2, IndexAgrees
  <2> HIDE DEF said, admitted
  <2> QED BY <2>1, <2>2, <2>3, BareKeeps
<1>11. CASE \E c \in Conditions : P!Conditional(c)
  BY <1>11, ArmsKeep
<1>12. CASE P!Call(<<>>)
  BY <1>12, CallKeeps
<1>13. CASE \E o \in Further : P!Call(<<o>>)
  <2>1. PICK o \in Further : P!Call(<<o>>)
    BY <1>13
  <2> DEFINE more == <<o>>
  <2>2. P!Call(more) /\ \E e \in Further : more = <<e>>
    BY <2>1
  <2> HIDE DEF more
  <2> QED BY <2>2, CallKeeps
<1> QED
  BY <1>1, <1>2, <1>3, <1>4, <1>5, <1>6, <1>7, <1>8, <1>9, <1>10, <1>11, <1>12, <1>13, Zenon DEF P!Next

\* Sema answers every expression with pointers, calls and arrays, of operands and
\* operators as C makes them, as C does, and what MLIRGen makes of it has the type
\* that is lowered from the AST's: PointersAsC, for all operands, operators and
\* lengths of types.
THEOREM PointersTypedAsC == P!Spec => []PointersAsC
<1>0. Assumed
  BY PointerOperands DEF Assumed
<1>1. P!Init => PointerInv
  <2> SUFFICES ASSUME P!Init PROVE PointerInv
    OBVIOUS
  <2>1. exprs = <<>> /\ sound = TRUE /\ target \in Targets
    BY Zenon DEF P!Init
  <2>2. Target
    BY <2>1 DEF Target
  <2>3. sound
    BY <2>1, Zenon
  <2> QED BY <2>1, <2>2, <2>3, NothingCoded DEF PointerInv
<1>2. PointerInv /\ [P!Next]_P!vars => PointerInv'
  <2> SUFFICES ASSUME PointerInv, [P!Next]_P!vars PROVE PointerInv'
    OBVIOUS
  <2>1. CASE P!Next
    BY <1>0, <2>1, PointerStep
  <2>2. CASE UNCHANGED P!vars
    <3>1. target' = target /\ exprs' = exprs /\ sound' = sound
      BY <2>2 DEF P!vars
    <3>2. Target' = Target /\ \A x : Coded(x)' <=> Coded(x)
      BY <3>1, SameCode
    <3> QED BY <3>1, <3>2 DEF PointerInv, AllCoded
  <2> QED BY <2>1, <2>2
<1>3. PointerInv => PointersAsC
  <2> SUFFICES ASSUME PointerInv PROVE PointersAsC
    OBVIOUS
  <2>1. \A i \in DOMAIN exprs : Coded(exprs[i])
    BY DEF PointerInv, AllCoded
  <2>2. \A i \in DOMAIN exprs : /\ exprs[i].code \in {P!NoCode, P!Lower(exprs[i].type)}
                                /\ exprs[i].place \in {P!NoCode, P!Lower(exprs[i].type)}
    BY <2>1 DEF Coded, Lowered, Placed
  <2> QED BY <2>2, Zenon DEF PointersAsC, P!PointersAsC, PointerInv
<1> QED BY <1>1, <1>2, <1>3, PTL DEF P!Spec
=============================================================================
