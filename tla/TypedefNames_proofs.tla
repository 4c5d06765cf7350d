------------------------- MODULE TypedefNames_proofs -------------------------
(* Proofs about TypedefNames, for any names and types and any depth.         *)
(* ClassifiesAsC is inductive together with CopiesClassify: where a scope    *)
(* ends the map becomes the copy, of which nothing is known otherwise.       *)
EXTENDS TypedefNames, TLAPS

USE DEF Activation

\* What the map means depends on the scopes up to its depth alone.
LEMMA PrefixDecides ==
  ASSUME NEW A, NEW B, NEW m, NEW d \in Nat,
         \A i \in 1..d : A[i] = B[i],
         Classifies(A, m, d)
  PROVE  Classifies(B, m, d)
<1>1. \A i \in 1..d, n \in Names : Hides(B, i, n) <=> Hides(A, i, n)
    BY DEF Hides
<1>2. \A i \in 1..d, n \in Names : DeclaredIn(B, i, n, d) <=> DeclaredIn(A, i, n, d)
    BY <1>1 DEF DeclaredIn
<1>3. QED
    BY <1>1, <1>2 DEF Classifies

\* An innermost scope that declares nothing changes nothing.
LEMMA OpenedClassifies ==
  ASSUME NEW A, NEW B, NEW m, NEW d \in Nat,
         \A i \in 1..d : A[i] = B[i],
         B[d + 1] = Nothing,
         Classifies(A, m, d)
  PROVE  Classifies(B, m, d + 1)
<1> SUFFICES ASSUME NEW n \in Names
             PROVE  /\ \A i \in 1..(d + 1) : DeclaredIn(B, i, n, d + 1) =>
                         m[n] = IF B[i][n] \in Types THEN B[i][n] ELSE None
                    /\ (\A i \in 1..(d + 1) : ~Hides(B, i, n)) => m[n] = None
    BY DEF Classifies
<1>1. ~Hides(B, d + 1, n)
    BY DEF Hides, Nothing
<1>2. \A i \in 1..d : Hides(B, i, n) <=> Hides(A, i, n)
    BY DEF Hides
<1>3. \A i \in 1..d : DeclaredIn(B, i, n, d + 1) => DeclaredIn(A, i, n, d)
    BY <1>2 DEF DeclaredIn
<1>4. QED
    BY <1>1, <1>2, <1>3 DEF Classifies, DeclaredIn

\* A map without the names the innermost scope declares as objects.
LEMMA HiddenClassifies ==
  ASSUME NEW A, NEW B, NEW m \in Maps, NEW d \in Nat, NEW hidden \in SUBSET Names,
         \A i \in 1..d : A[i] = B[i],
         B[d + 1] = [p \in Names |-> IF p \in hidden THEN Object ELSE None],
         Classifies(A, m, d)
  PROVE  Classifies(B, Without(m, hidden), d + 1)
<1> SUFFICES ASSUME NEW n \in Names
             PROVE  /\ \A i \in 1..(d + 1) : DeclaredIn(B, i, n, d + 1) =>
                         Without(m, hidden)[n] = IF B[i][n] \in Types THEN B[i][n] ELSE None
                    /\ (\A i \in 1..(d + 1) : ~Hides(B, i, n)) => Without(m, hidden)[n] = None
    BY DEF Classifies
<1>1. \A i \in 1..d : Hides(B, i, n) <=> Hides(A, i, n)
    BY DEF Hides
<1>2. \A i \in 1..d : DeclaredIn(B, i, n, d + 1) => DeclaredIn(A, i, n, d)
    BY <1>1 DEF DeclaredIn
<1>3. CASE n \in hidden
  <2>1. Hides(B, d + 1, n) /\ B[d + 1][n] \notin Types
      BY <1>3, Distinct DEF Hides
  <2>2. \A i \in 1..d : ~DeclaredIn(B, i, n, d + 1)
      BY <2>1 DEF DeclaredIn
  <2>3. Without(m, hidden)[n] = None
      BY <1>3 DEF Without
  <2>4. QED
      BY <2>1, <2>2, <2>3
<1>4. CASE n \notin hidden
  <2>1. ~Hides(B, d + 1, n)
      BY <1>4 DEF Hides
  <2>2. Without(m, hidden)[n] = m[n]
      BY <1>4 DEF Without
  <2>3. QED
      BY <1>1, <1>2, <2>1, <2>2 DEF Classifies, DeclaredIn
<1>5. QED
    BY <1>3, <1>4

\* The scopes A and B differ in what scope d declares n as.
Redeclared(A, B, d, n, entity) ==
  /\ \A i \in 1..(d - 1) : B[i] = A[i]
  /\ \A k \in Names \ {n} : B[d][k] = A[d][k]
  /\ B[d][n] = entity

\* Declaring n in the innermost scope d touches no other name.
LEMMA OthersClassify ==
  ASSUME NEW A, NEW B, NEW m, NEW m2, NEW d \in Nat \ {0}, NEW n \in Names, NEW entity,
         Redeclared(A, B, d, n, entity),
         Classifies(A, m, d),
         NEW k \in Names \ {n}, m2[k] = m[k]
  PROVE  /\ \A i \in 1..d : DeclaredIn(B, i, k, d) =>
              m2[k] = IF B[i][k] \in Types THEN B[i][k] ELSE None
         /\ (\A i \in 1..d : ~Hides(B, i, k)) => m2[k] = None
<1>1. \A i \in 1..d : B[i][k] = A[i][k]
    BY DEF Redeclared
<1>2. \A i \in 1..d : Hides(B, i, k) <=> Hides(A, i, k)
    BY <1>1 DEF Hides
<1>3. \A i \in 1..d : DeclaredIn(B, i, k, d) <=> DeclaredIn(A, i, k, d)
    BY <1>2 DEF DeclaredIn
<1>4. QED
    BY <1>1, <1>2, <1>3 DEF Classifies

\* A declaration that hides what n meant, and a map that says so.
LEMMA DeclaredClassifies ==
  ASSUME NEW A, NEW B, NEW m, NEW m2, NEW d \in Nat \ {0}, NEW n \in Names,
         NEW entity \in Types \union {Object},
         Redeclared(A, B, d, n, entity),
         Classifies(A, m, d),
         \A k \in Names \ {n} : m2[k] = m[k],
         m2[n] = IF entity \in Types THEN entity ELSE None
  PROVE  Classifies(B, m2, d)
<1>1. Hides(B, d, n) /\ B[d][n] = entity
    BY Distinct DEF Redeclared, Hides
<1>2. \A i \in 1..d : DeclaredIn(B, i, n, d) => i = d
    BY <1>1 DEF DeclaredIn
<1>3. /\ \A i \in 1..d : DeclaredIn(B, i, n, d) =>
           m2[n] = IF B[i][n] \in Types THEN B[i][n] ELSE None
      /\ ~ \A i \in 1..d : ~Hides(B, i, n)
    BY <1>1, <1>2
<1>4. ASSUME NEW k \in Names
     PROVE  /\ \A i \in 1..d : DeclaredIn(B, i, k, d) =>
                 m2[k] = IF B[i][k] \in Types THEN B[i][k] ELSE None
            /\ (\A i \in 1..d : ~Hides(B, i, k)) => m2[k] = None
  <2>1. CASE k = n
      BY <1>3, <2>1
  <2>2. CASE k # n
      BY <2>2, OthersClassify
  <2>3. QED
      BY <2>1, <2>2
<1>5. QED
    BY <1>4 DEF Classifies

\* An object at file scope, which was not declared there as anything else.
LEMMA FileObjectClassifies ==
  ASSUME NEW A, NEW B, NEW m, NEW n \in Names,
         Redeclared(A, B, 1, n, Object),
         A[1][n] \in {None, Object},
         Classifies(A, m, 1)
  PROVE  Classifies(B, m, 1)
<1>1. m[n] = None
  <2>1. CASE Hides(A, 1, n)
    <3>1. DeclaredIn(A, 1, n, 1) /\ A[1][n] \notin Types
        BY <2>1, Distinct DEF DeclaredIn, Hides
    <3>2. QED
        BY <3>1 DEF Classifies
  <2>2. CASE ~Hides(A, 1, n)
      BY <2>2 DEF Classifies
  <2>3. QED
      BY <2>1, <2>2
<1>2. QED
    BY <1>1, Distinct, DeclaredClassifies

\* A function, which hides nothing in a block, and nothing else at file scope.
LEMMA FunctionClassifies ==
  ASSUME NEW A, NEW B, NEW m, NEW d \in Nat \ {0}, NEW n \in Names,
         Redeclared(A, B, d, n, Function),
         A[d][n] \in {None, Function},
         Classifies(A, m, d)
  PROVE  Classifies(B, m, d)
<1>1. CASE d = 1
  <2>1. m[n] = None
    <3>1. CASE Hides(A, 1, n)
      <4>1. DeclaredIn(A, 1, n, 1) /\ A[1][n] \notin Types
          BY <1>1, <3>1, Distinct DEF DeclaredIn, Hides
      <4>2. QED
          BY <1>1, <4>1 DEF Classifies
    <3>2. CASE ~Hides(A, 1, n)
        BY <1>1, <3>2 DEF Classifies
    <3>3. QED
        BY <3>1, <3>2
  <2>2. B[1][n] \notin Types
      BY <1>1, Distinct DEF Redeclared
  <2>3. /\ \A i \in 1..d : DeclaredIn(B, i, n, d) =>
             m[n] = IF B[i][n] \in Types THEN B[i][n] ELSE None
        /\ (\A i \in 1..d : ~Hides(B, i, n)) => m[n] = None
      BY <1>1, <2>1, <2>2
  <2>4. ASSUME NEW k \in Names
       PROVE  /\ \A i \in 1..d : DeclaredIn(B, i, k, d) =>
                   m[k] = IF B[i][k] \in Types THEN B[i][k] ELSE None
              /\ (\A i \in 1..d : ~Hides(B, i, k)) => m[k] = None
    <3>1. CASE k = n
        BY <2>3, <3>1
    <3>2. CASE k # n
        BY <3>2, OthersClassify
    <3>3. QED
        BY <3>1, <3>2
  <2>5. QED
      BY <2>4 DEF Classifies
<1>2. CASE d # 1
  <2>1. ~Hides(A, d, n) /\ ~Hides(B, d, n)
      BY <1>2 DEF Redeclared, Hides
  <2>2. \A i \in 1..d : Hides(B, i, n) <=> Hides(A, i, n)
      BY <2>1 DEF Redeclared, Hides
  <2>3. \A i \in 1..d : DeclaredIn(B, i, n, d) => DeclaredIn(A, i, n, d) /\ B[i][n] = A[i][n]
      BY <2>1, <2>2 DEF DeclaredIn, Redeclared
  <2>4. /\ \A i \in 1..d : DeclaredIn(B, i, n, d) =>
             m[n] = IF B[i][n] \in Types THEN B[i][n] ELSE None
        /\ (\A i \in 1..d : ~Hides(B, i, n)) => m[n] = None
      BY <2>2, <2>3 DEF Classifies
  <2>5. ASSUME NEW k \in Names
       PROVE  /\ \A i \in 1..d : DeclaredIn(B, i, k, d) =>
                   m[k] = IF B[i][k] \in Types THEN B[i][k] ELSE None
              /\ (\A i \in 1..d : ~Hides(B, i, k)) => m[k] = None
    <3>1. CASE k = n
        BY <2>4, <3>1
    <3>2. CASE k # n
        BY <3>2, OthersClassify
    <3>3. QED
        BY <3>1, <3>2
  <2>6. QED
      BY <2>5 DEF Classifies
<1>3. QED
    BY <1>1, <1>2

-----------------------------------------------------------------------------
(* Types.                                                                    *)

\* Erasing names keeps a map a map.
LEMMA WithoutIsMap ==
  ASSUME NEW m \in Maps, NEW hidden \in SUBSET Names
  PROVE  Without(m, hidden) \in Maps
BY DEF Without, Maps

\* Sequences, an update of one element, and one more element at the end.
LEMMA SequenceFacts ==
  ASSUME NEW S, NEW s \in Seq(S)
  PROVE  Len(s) \in Nat /\ DOMAIN s = 1..Len(s) /\ \A i \in 1..Len(s) : s[i] \in S
OBVIOUS

LEMMA UpdateFacts ==
  ASSUME NEW S, NEW s \in Seq(S), NEW i \in 1..Len(s), NEW e \in S
  PROVE  /\ [s EXCEPT ![i] = e] \in Seq(S)
         /\ Len([s EXCEPT ![i] = e]) = Len(s)
         /\ [s EXCEPT ![i] = e][i] = e
         /\ \A j \in 1..Len(s) : j # i => [s EXCEPT ![i] = e][j] = s[j]
OBVIOUS

LEMMA AppendFacts ==
  ASSUME NEW S, NEW s \in Seq(S), NEW e \in S
  PROVE  /\ Append(s, e) \in Seq(S) /\ Len(Append(s, e)) = Len(s) + 1
         /\ Append(s, e)[Len(s) + 1] = e
         /\ \A i \in 1..Len(s) : Append(s, e)[i] = s[i]
OBVIOUS

LEMMA ThirdFacts ==
  ASSUME NEW S, NEW s \in Seq(S), Len(s) = 2, NEW e \in S
  PROVE  /\ Append(s, e) \in Seq(S) /\ Len(Append(s, e)) = 3
         /\ Append(s, e)[1] = s[1] /\ Append(s, e)[2] = s[2] /\ Append(s, e)[3] = e
<1> DEFINE t == Append(s, e)
           K == Len(s)
<1>1. /\ t \in Seq(S) /\ Len(t) = K + 1 /\ t[K + 1] = e
      /\ \A i \in 1..K : t[i] = s[i]
    BY AppendFacts
<1> HIDE DEF t
<1>2. K = 2
    OBVIOUS
<1> HIDE DEF K
<1>3. K + 1 = 3 /\ 1 \in 1..K /\ 2 \in 1..K
    BY <1>2
<1>4. QED
    BY <1>1, <1>3, Zenon DEF t

Frames == [kind : {"function", "block", "for", "for body"}, saved : Maps]

\* What TypeOK says of the two stacks.
LEMMA StackFacts ==
  ASSUME TypeOK
  PROVE  /\ active \in Seq(Frames) /\ Len(active) \in Nat
         /\ scopes \in Seq([Names -> Entities]) /\ Len(scopes) \in Nat
         /\ Len(scopes) = Len(active) + 1
         /\ DOMAIN active = 1..Len(active) /\ DOMAIN scopes = 1..Len(scopes)
         /\ \A i \in 1..Len(active) : active[i] \in Frames
         /\ \A i \in 1..Len(scopes) : scopes[i] \in [Names -> Entities]
         /\ Len(scopes) \in 1..Len(scopes)
         /\ ~AtFileScope => Len(active) \in 1..Len(active)
<1>1. /\ active \in Seq(Frames) /\ scopes \in Seq([Names -> Entities])
      /\ Len(scopes) = Len(active) + 1
    BY DEF TypeOK, Frames
<1>2. /\ Len(active) \in Nat /\ DOMAIN active = 1..Len(active)
      /\ \A i \in 1..Len(active) : active[i] \in Frames
    BY <1>1, SequenceFacts
<1>3. /\ Len(scopes) \in Nat /\ DOMAIN scopes = 1..Len(scopes)
      /\ \A i \in 1..Len(scopes) : scopes[i] \in [Names -> Entities]
    BY <1>1, SequenceFacts
<1>4. ~AtFileScope => Len(active) # 0
    BY <1>1 DEF AtFileScope
<1> DEFINE L == Len(active)
           K == Len(scopes)
<1>5. L \in Nat /\ K = L + 1 /\ (~AtFileScope => L # 0)
    BY <1>1, <1>2, <1>4
<1>6. K \in 1..K /\ (~AtFileScope => L \in 1..L)
  <2> HIDE DEF L, K
  <2> QED BY <1>5
<1>7. QED
    BY <1>1, <1>2, <1>3, <1>6

\* Leaving activations for one that is there, or for file scope.
LEMMA LeaveTypes ==
  ASSUME TypeOK, NEW depth \in Nat, depth < Len(active), Leave(depth)
  PROVE  /\ _typedefs' = active[depth + 1].saved
         /\ _typedefs' \in Maps
         /\ active' \in Seq(Frames)
         /\ scopes' \in Seq([Names -> Entities])
         /\ Len(active') = depth /\ Len(scopes') = depth + 1
         /\ \A i \in 1..depth : active'[i] = active[i]
         /\ \A i \in 1..(depth + 1) : scopes'[i] = scopes[i]
<1>1. /\ active \in Seq(Frames) /\ scopes \in Seq([Names -> Entities])
      /\ Len(scopes) = Len(active) + 1 /\ Len(active) \in Nat
    BY StackFacts
<1>2. /\ _typedefs' = active[depth + 1].saved
      /\ active' = SubSeq(active, 1, depth)
      /\ scopes' = SubSeq(scopes, 1, depth + 1)
    BY DEF Leave, Restored
<1>3. active[depth + 1] \in Frames
    BY <1>1
<1>4. active' \in Seq(Frames) /\ Len(active') = depth /\ \A i \in 1..depth : active'[i] = active[i]
    BY <1>1, <1>2
<1>5. /\ scopes' \in Seq([Names -> Entities]) /\ Len(scopes') = depth + 1
      /\ \A i \in 1..(depth + 1) : scopes'[i] = scopes[i]
    BY <1>1, <1>2
<1>6. QED
    BY <1>2, <1>3, <1>4, <1>5 DEF Frames

\* What a declaration does to the activations and scopes.
LEMMA DeclarationTypes ==
  ASSUME TypeOK, TakesDeclaration, AfterDeclaration,
         NEW n \in Names, NEW entity \in Entities, Declares(n, entity)
  PROVE  /\ active' \in Seq(Frames)
         /\ scopes' \in Seq([Names -> Entities])
         /\ Len(active') = Len(active) /\ Len(scopes') = Len(scopes)
         /\ \A i \in DOMAIN active : active'[i].saved = active[i].saved
         /\ Redeclared(scopes, scopes', Len(scopes), n, entity)
         /\ \A i \in DOMAIN active : scopes'[i] = scopes[i]
         /\ scopes[Len(scopes)][n] \in {None, entity}
<1>1. /\ active' \in Seq(Frames) /\ Len(active') = Len(active)
      /\ \A i \in DOMAIN active : active'[i].saved = active[i].saved
  <2>1. CASE ~AtFileScope /\ Top.kind = "for"
    <3> DEFINE L == Len(active)
               f == [active[L] EXCEPT !.kind = "for body"]
    <3>1. L \in 1..Len(active) /\ active[L] \in Frames /\ active \in Seq(Frames)
        BY <2>1, StackFacts
    <3>2. active' = [active EXCEPT ![L] = f]
        BY <2>1 DEF AfterDeclaration
    <3>3. f \in Frames /\ f.saved = active[L].saved
        BY <3>1 DEF Frames
    <3> HIDE DEF f, L
    <3>4. /\ active' \in Seq(Frames) /\ Len(active') = Len(active) /\ active'[L] = f
          /\ \A j \in 1..Len(active) : j # L => active'[j] = active[j]
        BY <3>1, <3>2, <3>3, UpdateFacts
    <3>5. \A i \in DOMAIN active : active'[i].saved = active[i].saved
        BY <3>3, <3>4, StackFacts, Zenon
    <3>6. QED
        BY <3>4, <3>5
  <2>2. CASE ~(~AtFileScope /\ Top.kind = "for")
      BY <2>2, StackFacts, Zenon DEF AfterDeclaration
  <2>3. QED
      BY <2>1, <2>2
<1> DEFINE K == Len(scopes)
           e == [scopes[K] EXCEPT ![n] = entity]
<1>2. K \in 1..Len(scopes) /\ scopes[K] \in [Names -> Entities]
      /\ scopes \in Seq([Names -> Entities])
    BY StackFacts
<1>3. scopes' = [scopes EXCEPT ![K] = e] /\ scopes[K][n] \in {None, entity}
    BY DEF Declares, Innermost
<1>4. e \in [Names -> Entities] /\ e[n] = entity /\ \A k \in Names \ {n} : e[k] = scopes[K][k]
    BY <1>2
<1>5. /\ K \in Nat /\ K = Len(active) + 1
      /\ Len(active) \in Nat /\ DOMAIN active = 1..Len(active)
    BY StackFacts
<1> HIDE DEF K, e
<1>6. /\ scopes' \in Seq([Names -> Entities]) /\ Len(scopes') = Len(scopes) /\ scopes'[K] = e
      /\ \A j \in 1..Len(scopes) : j # K => scopes'[j] = scopes[j]
    BY <1>2, <1>3, <1>4, UpdateFacts
<1>7. \A i \in 1..(K - 1) : scopes'[i] = scopes[i]
  <2>1. K = Len(scopes)
      BY DEF K
  <2>2. QED
      BY <1>5, <1>6, <2>1
<1>8. Redeclared(scopes, scopes', K, n, entity)
    BY <1>4, <1>6, <1>7 DEF Redeclared
<1>9. \A i \in DOMAIN active : scopes'[i] = scopes[i]
  <2> DEFINE L == Len(active)
  <2>1. K = L + 1 /\ L \in Nat /\ DOMAIN active = 1..L
      BY <1>5
  <2> HIDE DEF L
  <2>2. QED
      BY <1>7, <2>1
<1>10. QED
    BY <1>1, <1>3, <1>6, <1>8, <1>9 DEF K

\* The copies an operation keeps stay right if it keeps the scopes around them.
LEMMA CopiesKept ==
  ASSUME TypeOK, CopiesClassify, NEW A, NEW B, Len(A) \in Nat, Len(A) <= Len(active),
         \A i \in 1..Len(A) : A[i].saved = active[i].saved /\ B[i] = scopes[i]
  PROVE  \A i \in 1..Len(A) : Classifies(B, A[i].saved, i)
<1> SUFFICES ASSUME NEW i \in 1..Len(A)
             PROVE  Classifies(B, A[i].saved, i)
    OBVIOUS
<1> DEFINE L == Len(active)
           K == Len(A)
<1>0. L \in Nat /\ K \in Nat /\ K <= L /\ DOMAIN active = 1..L /\ i \in 1..K
    BY StackFacts
<1>1. i \in DOMAIN active /\ i \in Nat /\ \A j \in 1..i : j \in 1..K
  <2> HIDE DEF L, K
  <2> QED BY <1>0
<1>2. Classifies(scopes, active[i].saved, i)
    BY <1>1 DEF CopiesClassify
<1>3. \A j \in 1..i : scopes[j] = B[j]
    BY <1>1
<1>4. Classifies(B, active[i].saved, i)
    BY <1>1, <1>2, <1>3, PrefixDecides
<1>5. QED
    BY <1>4

LEMMA OuterCopiesKept ==
  ASSUME TypeOK, CopiesClassify, NEW B, \A i \in 1..Len(active) : B[i] = scopes[i]
  PROVE  \A i \in 1..Len(active) : Classifies(B, active[i].saved, i)
<1>1. Len(active) \in Nat
    BY StackFacts
<1>2. QED
    BY <1>1, CopiesKept

-----------------------------------------------------------------------------
(* The invariant.                                                            *)

Consistent == TypeOK /\ ClassifiesAsC /\ CopiesClassify

\* A declaration keeps the invariant if the map is right for the new scope.
LEMMA DeclarationKeeps ==
  ASSUME Consistent, TakesDeclaration, AfterDeclaration,
         NEW n \in Names, NEW entity \in Entities, Declares(n, entity),
         _typedefs' \in Maps, UNCHANGED failed,
         Classifies(scopes', _typedefs', Len(scopes))
  PROVE  Consistent'
<1>1. TypeOK /\ CopiesClassify
    BY DEF Consistent
<1>2. /\ active' \in Seq(Frames) /\ scopes' \in Seq([Names -> Entities])
      /\ Len(active') = Len(active) /\ Len(scopes') = Len(scopes)
      /\ \A i \in DOMAIN active : active'[i].saved = active[i].saved /\ scopes'[i] = scopes[i]
    BY <1>1, DeclarationTypes
<1>3. /\ DOMAIN active = 1..Len(active) /\ Len(active) \in Nat /\ Len(scopes) = Len(active) + 1
    BY <1>1, StackFacts
<1>4. TypeOK'
    BY <1>1, <1>2, <1>3 DEF TypeOK, Frames
<1>5. \A i \in 1..Len(active') : Classifies(scopes', active'[i].saved, i)
  <2>1. \A i \in 1..Len(active) : Classifies(scopes', active[i].saved, i)
      BY <1>1, <1>2, <1>3, OuterCopiesKept, Zenon
  <2>2. QED
      BY <1>2, <1>3, <2>1, Zenon
<1>6. DOMAIN active' = 1..Len(active')
    BY <1>2, SequenceFacts
<1>7. QED
    BY <1>2, <1>4, <1>5, <1>6 DEF Consistent, ClassifiesAsC, CopiesClassify

\* Where scopes end, the copy is right for what is left.
LEMMA LeaveKeeps ==
  ASSUME Consistent, NEW depth \in Nat, depth < Len(active), Leave(depth), failed' \in BOOLEAN
  PROVE  Consistent'
<1>1. TypeOK /\ CopiesClassify
    BY DEF Consistent
<1>2. /\ _typedefs' = active[depth + 1].saved
      /\ _typedefs' \in Maps
      /\ active' \in Seq(Frames)
      /\ scopes' \in Seq([Names -> Entities])
      /\ Len(active') = depth /\ Len(scopes') = depth + 1
      /\ \A i \in 1..depth : active'[i] = active[i]
      /\ \A i \in 1..(depth + 1) : scopes'[i] = scopes[i]
    BY <1>1, LeaveTypes
<1>3. Len(active) \in Nat /\ DOMAIN active = 1..Len(active)
    BY <1>1, StackFacts
<1>4. TypeOK'
    BY <1>2 DEF TypeOK, Frames
<1>5. depth + 1 \in DOMAIN active
  <2> DEFINE L == Len(active)
  <2>1. L \in Nat /\ depth < L /\ DOMAIN active = 1..L
      BY <1>3
  <2> HIDE DEF L
  <2>2. QED
      BY <2>1
<1>6. Classifies(scopes, active[depth + 1].saved, depth + 1)
    BY <1>1, <1>5 DEF CopiesClassify
<1>7. Classifies(scopes', _typedefs', depth + 1)
    BY <1>2, <1>6, PrefixDecides
<1>8. \A i \in 1..Len(active') : active'[i].saved = active[i].saved /\ scopes'[i] = scopes[i]
    BY <1>2
<1>9. Len(active') \in Nat /\ Len(active') <= Len(active)
    BY <1>2, <1>3
<1>10. \A i \in 1..Len(active') : Classifies(scopes', active'[i].saved, i)
    BY <1>1, <1>8, <1>9, CopiesKept
<1>11. DOMAIN active' = 1..Len(active')
    BY <1>2, SequenceFacts
<1>12. QED
    BY <1>2, <1>4, <1>7, <1>10, <1>11 DEF Consistent, ClassifiesAsC, CopiesClassify

\* Each operation keeps the invariant.
LEMMA TypedefKeeps == Consistent /\ Typedef => Consistent'
<1> SUFFICES ASSUME Consistent, TakesDeclaration, AfterDeclaration, UNCHANGED failed,
                    NEW n \in Names, NEW t \in Types, Declares(n, t),
                    _typedefs' = [_typedefs EXCEPT ![n] = t]
             PROVE  Consistent'
    BY DEF Typedef
<1>1. TypeOK /\ Classifies(scopes, _typedefs, Len(scopes)) /\ _typedefs \in Maps
    BY DEF Consistent, ClassifiesAsC, TypeOK
<1>2. Redeclared(scopes, scopes', Len(scopes), n, t)
    BY <1>1, DeclarationTypes DEF Entities
<1>3. Len(scopes) \in Nat \ {0}
    BY <1>1, StackFacts
<1>4. /\ _typedefs' \in Maps /\ _typedefs'[n] = t
      /\ \A k \in Names \ {n} : _typedefs'[k] = _typedefs[k]
    BY <1>1 DEF Maps
<1>5. Classifies(scopes', _typedefs', Len(scopes))
    BY <1>1, <1>2, <1>3, <1>4, DeclaredClassifies
<1>6. QED
    BY <1>4, <1>5, DeclarationKeeps DEF Entities

LEMMA ObjectKeeps == Consistent /\ DeclareObject => Consistent'
<1> SUFFICES ASSUME Consistent, TakesDeclaration, AfterDeclaration, UNCHANGED failed,
                    NEW n \in Names, Declares(n, Object),
                    _typedefs' = IF AtFileScope THEN _typedefs ELSE Without(_typedefs, {n})
             PROVE  Consistent'
    BY DEF DeclareObject
<1>1. TypeOK /\ Classifies(scopes, _typedefs, Len(scopes)) /\ _typedefs \in Maps
    BY DEF Consistent, ClassifiesAsC, TypeOK
<1>2. /\ Redeclared(scopes, scopes', Len(scopes), n, Object)
      /\ scopes[Len(scopes)][n] \in {None, Object}
    BY <1>1, DeclarationTypes DEF Entities
<1>3. Len(scopes) \in Nat \ {0}
    BY <1>1, StackFacts
<1>4. _typedefs' \in Maps /\ Classifies(scopes', _typedefs', Len(scopes))
  <2>1. CASE AtFileScope
    <3>1. _typedefs' = _typedefs
        BY <2>1
    <3>2. Len(scopes) = 1
        BY <1>1, <2>1, StackFacts DEF AtFileScope
    <3>3. QED
        BY <1>1, <1>2, <3>1, <3>2, FileObjectClassifies
  <2>2. CASE ~AtFileScope
    <3>1. _typedefs' \in Maps
        BY <1>1, <2>2, WithoutIsMap
    <3>2. _typedefs'[n] = None /\ \A k \in Names \ {n} : _typedefs'[k] = _typedefs[k]
        BY <2>2 DEF Without
    <3>3. Object \notin Types
        BY Distinct
    <3>4. QED
        BY <1>1, <1>2, <1>3, <3>1, <3>2, <3>3, DeclaredClassifies
  <2>3. QED
      BY <2>1, <2>2
<1>5. QED
    BY <1>4, DeclarationKeeps DEF Entities

LEMMA FunctionKeeps == Consistent /\ DeclareFunction => Consistent'
<1> SUFFICES ASSUME Consistent, TakesDeclaration, AfterDeclaration, UNCHANGED failed,
                    NEW n \in Names, Declares(n, Function), _typedefs' = _typedefs
             PROVE  Consistent'
    BY DEF DeclareFunction
<1>1. TypeOK /\ Classifies(scopes, _typedefs, Len(scopes)) /\ _typedefs \in Maps
    BY DEF Consistent, ClassifiesAsC, TypeOK
<1>2. /\ Redeclared(scopes, scopes', Len(scopes), n, Function)
      /\ scopes[Len(scopes)][n] \in {None, Function}
    BY <1>1, DeclarationTypes DEF Entities
<1>3. Len(scopes) \in Nat \ {0}
    BY <1>1, StackFacts
<1>4. Classifies(scopes', _typedefs', Len(scopes))
    BY <1>1, <1>2, <1>3, FunctionClassifies
<1>5. QED
    BY <1>1, <1>4, DeclarationKeeps DEF Entities

LEMMA OpenKeeps ==
  ASSUME Consistent, NEW kind \in {"block", "for"}, Open(kind)
  PROVE  Consistent'
<1> DEFINE f == Activation(kind, _typedefs)
           L == Len(active)
<1>1. /\ TypeOK /\ CopiesClassify
      /\ Classifies(scopes, _typedefs, Len(scopes)) /\ _typedefs \in Maps
    BY DEF Consistent, ClassifiesAsC, TypeOK
<1>2. /\ active' = Append(active, f) /\ scopes' = Append(scopes, Nothing)
      /\ _typedefs' = _typedefs /\ failed' = failed
    BY DEF Open, Copied
<1>3. /\ active \in Seq(Frames) /\ scopes \in Seq([Names -> Entities])
      /\ L \in Nat /\ Len(scopes) = L + 1 /\ DOMAIN active = 1..L
    BY <1>1, StackFacts
<1>4. f \in Frames /\ f.saved = _typedefs /\ Nothing \in [Names -> Entities]
    BY <1>1 DEF Frames, Nothing, Entities
<1> HIDE DEF f
<1>5. /\ active' \in Seq(Frames) /\ Len(active') = L + 1 /\ active'[L + 1] = f
      /\ \A i \in 1..L : active'[i] = active[i]
    BY <1>2, <1>3, <1>4
<1>6. /\ scopes' \in Seq([Names -> Entities]) /\ Len(scopes') = L + 2 /\ scopes'[L + 2] = Nothing
      /\ \A i \in 1..(L + 1) : scopes'[i] = scopes[i]
  <2> DEFINE K == Len(scopes)
  <2>1. /\ scopes' \in Seq([Names -> Entities]) /\ Len(scopes') = K + 1 /\ scopes'[K + 1] = Nothing
        /\ \A i \in 1..K : scopes'[i] = scopes[i]
      BY <1>2, <1>3, <1>4
  <2>2. K = L + 1 /\ L \in Nat
      BY <1>3
  <2> HIDE DEF K, L
  <2>3. K + 1 = L + 2
      BY <2>2
  <2>4. QED
      BY <2>1, <2>2, <2>3
<1>7. DOMAIN active' = 1..(L + 1)
    BY <1>5, SequenceFacts
<1>8. failed' \in BOOLEAN
    BY <1>1, <1>2 DEF TypeOK
<1> HIDE DEF L
<1>9. TypeOK'
  <2>1. Len(scopes') = Len(active') + 1
      BY <1>3, <1>5, <1>6
  <2>2. QED
      BY <1>1, <1>2, <1>5, <1>6, <1>8, <2>1 DEF TypeOK, Frames
<1>10. Classifies(scopes, _typedefs, L + 1)
    BY <1>1, <1>3
<1>11. Classifies(scopes', _typedefs', L + 2)
  <2>1. L + 1 \in Nat /\ (L + 1) + 1 = L + 2
      BY <1>3
  <2>2. Classifies(scopes', _typedefs, (L + 1) + 1)
      BY <1>6, <1>10, <2>1, OpenedClassifies
  <2>3. QED
      BY <1>2, <2>1, <2>2
<1>12. Classifies(scopes', _typedefs, L + 1)
    BY <1>3, <1>6, <1>10, PrefixDecides
<1>13. \A i \in 1..L : Classifies(scopes', active'[i].saved, i)
  <2>1. \A i \in 1..L : scopes'[i] = scopes[i]
      BY <1>3, <1>6
  <2>2. \A i \in 1..L : Classifies(scopes', active[i].saved, i)
      BY <1>1, <2>1, OuterCopiesKept, Zenon DEF L
  <2>3. QED
      BY <1>5, <2>2
<1>14. \A i \in 1..(L + 1) : Classifies(scopes', active'[i].saved, i)
    BY <1>3, <1>4, <1>5, <1>12, <1>13
<1>15. QED
    BY <1>6, <1>7, <1>9, <1>11, <1>14 DEF Consistent, ClassifiesAsC, CopiesClassify

LEMMA BeginFunctionKeeps == Consistent /\ BeginFunction => Consistent'
<1> SUFFICES ASSUME Consistent, AtFileScope, UNCHANGED failed,
                    NEW n \in Names, NEW params \in SUBSET Names,
                    Innermost[n] \in {None, Function},
                    scopes' = Append(Append([scopes EXCEPT ![1][n] = Function],
                                            [p \in Names |-> IF p \in params THEN Object ELSE None]),
                                     Nothing),
                    _typedefs' = Without(_typedefs, params),
                    active' = <<Activation("function", CopyForFunction(params)),
                                Activation("block", Without(_typedefs, params))>>
             PROVE  Consistent'
    BY DEF BeginFunction
<1> DEFINE hiding == [p \in Names |-> IF p \in params THEN Object ELSE None]
           file   == [scopes[1] EXCEPT ![n] = Function]
           inside == Without(_typedefs, params)
<1>1. /\ TypeOK /\ Classifies(scopes, _typedefs, Len(scopes)) /\ _typedefs \in Maps
    BY DEF Consistent, ClassifiesAsC, TypeOK
<1>2. Len(scopes) = 1 /\ scopes \in Seq([Names -> Entities]) /\ scopes[1] \in [Names -> Entities]
    BY <1>1, StackFacts DEF AtFileScope
<1>3. /\ file \in [Names -> Entities] /\ hiding \in [Names -> Entities]
      /\ Nothing \in [Names -> Entities] /\ inside \in Maps
    BY <1>1, <1>2, WithoutIsMap DEF Entities, Nothing
<1>4. /\ scopes' \in Seq([Names -> Entities]) /\ Len(scopes') = 3
      /\ scopes'[1] = file /\ scopes'[2] = hiding /\ scopes'[3] = Nothing
  <2>1. scopes = <<scopes[1]>>
      BY <1>2
  <2>2. [scopes EXCEPT ![1][n] = Function] = [scopes EXCEPT ![1] = file]
      OBVIOUS
  <2> HIDE DEF file, hiding
  <2>3. [scopes EXCEPT ![1] = file] = <<file>>
      BY <2>1
  <2>4. scopes' = Append(Append(<<file>>, hiding), Nothing)
      BY <2>2, <2>3 DEF hiding
  <2> DEFINE t == Append(<<file>>, hiding)
  <2>5. t \in Seq([Names -> Entities]) /\ Len(t) = 2 /\ t[1] = file /\ t[2] = hiding
      BY <1>3
  <2>6. scopes' = Append(t, Nothing)
      BY <2>4, Zenon
  <2> HIDE DEF t
  <2>7. /\ Append(t, Nothing) \in Seq([Names -> Entities]) /\ Len(Append(t, Nothing)) = 3
        /\ Append(t, Nothing)[1] = file /\ Append(t, Nothing)[2] = hiding
        /\ Append(t, Nothing)[3] = Nothing
    <3>1. Nothing \in [Names -> Entities]
        BY <1>3
    <3> DEFINE S == [Names -> Entities]
    <3>2. t \in Seq(S) /\ Len(t) = 2 /\ Nothing \in S
        BY <2>5, <3>1
    <3> HIDE DEF S
    <3>3. /\ Append(t, Nothing) \in Seq(S) /\ Len(Append(t, Nothing)) = 3
          /\ Append(t, Nothing)[1] = t[1] /\ Append(t, Nothing)[2] = t[2]
          /\ Append(t, Nothing)[3] = Nothing
        BY <3>2, ThirdFacts, Zenon
    <3>4. QED
        BY <2>5, <3>3, Zenon DEF S
  <2>8. QED
      BY <2>6, <2>7, Zenon
<1>5. active' = <<[kind |-> "function", saved |-> _typedefs], [kind |-> "block", saved |-> inside]>>
    BY DEF CopyForFunction
<1>6. Redeclared(scopes, <<file>>, 1, n, Function)
    BY <1>2 DEF Redeclared
<1>7. scopes[1][n] \in {None, Function} /\ Classifies(scopes, _typedefs, 1)
    BY <1>1, <1>2 DEF Innermost
<1> HIDE DEF file, hiding, inside
<1>8. Classifies(<<file>>, _typedefs, 1)
    BY <1>6, <1>7, FunctionClassifies
<1>9. Classifies(scopes', _typedefs, 1)
  <2>1. \A i \in 1..1 : <<file>>[i] = scopes'[i]
      BY <1>4
  <2>2. QED
      BY <1>8, <2>1, PrefixDecides
<1>10. Classifies(scopes', inside, 2)
  <2>1. scopes'[1 + 1] = [p \in Names |-> IF p \in params THEN Object ELSE None]
    <3>1. 1 + 1 = 2
        OBVIOUS
    <3>2. QED
        BY <1>4, <3>1, Zenon DEF hiding
  <2>2. Classifies(scopes', inside, 1 + 1)
      BY <1>1, <1>9, <2>1, HiddenClassifies DEF inside
  <2>3. QED
      BY <2>2
<1>11. Classifies(scopes', inside, 3)
  <2>1. scopes'[2 + 1] = Nothing
    <3>1. 2 + 1 = 3
        OBVIOUS
    <3>2. QED
        BY <1>4, <3>1, Zenon
  <2>2. Classifies(scopes', inside, 2 + 1)
      BY <1>10, <2>1, OpenedClassifies
  <2>3. QED
      BY <2>2
<1>12. _typedefs' = inside
    BY DEF inside
<1>13. TypeOK'
  <2>1. /\ [kind |-> "function", saved |-> _typedefs] \in Frames
        /\ [kind |-> "block", saved |-> inside] \in Frames
      BY <1>1, <1>3 DEF Frames
  <2>2. active' \in Seq(Frames) /\ Len(active') = 2
      BY <1>5, <2>1
  <2>3. scopes' \in Seq([Names -> Entities]) /\ Len(scopes') = 3
      BY <1>4
  <2>4. failed' \in BOOLEAN /\ _typedefs' \in Maps
      BY <1>1, <1>3, <1>12 DEF TypeOK
  <2>5. QED
      BY <2>2, <2>3, <2>4 DEF TypeOK, Frames
<1>14. CopiesClassify'
    BY <1>5, <1>9, <1>10 DEF CopiesClassify
<1>15. QED
    BY <1>4, <1>11, <1>12, <1>13, <1>14 DEF Consistent, ClassifiesAsC

LEMMA NextKeeps == Consistent /\ [Next]_vars => Consistent'
<1> SUFFICES ASSUME Consistent, [Next]_vars
             PROVE  Consistent'
    OBVIOUS
<1>1. TypeOK /\ failed \in BOOLEAN
    BY DEF Consistent, TypeOK
<1>2. CASE Typedef
    BY <1>2, TypedefKeeps
<1>3. CASE DeclareObject
    BY <1>3, ObjectKeeps
<1>4. CASE DeclareFunction
    BY <1>4, FunctionKeeps
<1>5. CASE BeginFunction
    BY <1>5, BeginFunctionKeeps
<1>6. CASE OpenBlock
    BY <1>6, OpenKeeps DEF OpenBlock
<1>7. CASE BeginFor
    BY <1>7, OpenKeeps DEF BeginFor
<1>8. CASE SkipInitializer
  <2> DEFINE L == Len(active)
             f == [active[L] EXCEPT !.kind = "for body"]
  <2>1. L \in 1..Len(active) /\ active[L] \in Frames /\ active \in Seq(Frames)
      BY <1>1, <1>8, StackFacts DEF SkipInitializer, AtFileScope
  <2>2. active' = [active EXCEPT ![L] = f] /\ UNCHANGED <<_typedefs, scopes, failed>>
      BY <1>8 DEF SkipInitializer
  <2>3. f \in Frames /\ f.saved = active[L].saved
      BY <2>1 DEF Frames
  <2> HIDE DEF f, L
  <2>4. /\ active' \in Seq(Frames) /\ Len(active') = Len(active) /\ active'[L] = f
        /\ \A j \in 1..Len(active) : j # L => active'[j] = active[j]
      BY <2>1, <2>2, <2>3, UpdateFacts
  <2>5. \A i \in 1..Len(active) : active'[i].saved = active[i].saved
      BY <2>3, <2>4, Zenon
  <2>6. DOMAIN active' = DOMAIN active /\ DOMAIN active = 1..Len(active)
      BY <1>1, <2>4, StackFacts, SequenceFacts
  <2>7. TypeOK'
      BY <1>1, <2>2, <2>4 DEF TypeOK, Frames
  <2>8. CopiesClassify'
      BY <2>2, <2>5, <2>6 DEF Consistent, CopiesClassify
  <2>9. QED
      BY <2>2, <2>7, <2>8 DEF Consistent, ClassifiesAsC
<1>9. CASE CloseBlock
  <2>1. Len(active) \in Nat /\ Len(active) # 0
      BY <1>1, <1>9, StackFacts DEF CloseBlock, AtFileScope
  <2>2. \E depth \in Nat : depth < Len(active) /\ Leave(depth)
    <3>1. CASE Len(active) = 2
        BY <1>9, <3>1 DEF CloseBlock
    <3>2. CASE Len(active) # 2
        BY <1>9, <2>1, <3>2 DEF CloseBlock
    <3>3. QED
        BY <3>1, <3>2
  <2>3. QED
      BY <1>1, <1>9, <2>2, LeaveKeeps DEF CloseBlock
<1>10. CASE EndFor
  <2>1. ~AtFileScope /\ Leave(Len(active) - 1) /\ UNCHANGED failed
      BY <1>10 DEF EndFor, AtFileScope
  <2> DEFINE L == Len(active)
  <2>2. L \in Nat /\ L \in 1..L
      BY <1>1, <2>1, StackFacts
  <2>3. L - 1 \in Nat /\ L - 1 < L
    <3> HIDE DEF L
    <3> QED BY <2>2
  <2>4. QED
      BY <1>1, <2>1, <2>3, LeaveKeeps
<1>11. CASE Fail
  <2>1. CASE AtFileScope
      BY <1>11, <2>1 DEF Fail, Consistent, TypeOK, ClassifiesAsC, CopiesClassify
  <2>2. CASE ~AtFileScope
    <3>1. Len(active) \in Nat /\ 0 < Len(active)
        BY <1>1, <2>2, StackFacts
    <3>2. QED
        BY <1>11, <2>2, <3>1, LeaveKeeps DEF Fail
  <2>3. QED
      BY <2>1, <2>2
<1>12. CASE UNCHANGED vars
    BY <1>12 DEF vars, Consistent, TypeOK, ClassifiesAsC, CopiesClassify
<1>13. QED
    BY <1>2, <1>3, <1>4, <1>5, <1>6, <1>7, <1>8, <1>9, <1>10, <1>11, <1>12 DEF Next

LEMMA InitConsistent == Init => Consistent
<1> SUFFICES ASSUME Init
             PROVE  Consistent
    OBVIOUS
<1>1. TypeOK
  <2>1. Nothing \in Maps /\ Nothing \in [Names -> Entities]
      BY DEF Maps, Nothing, Entities
  <2>2. <<Nothing>> \in Seq([Names -> Entities]) /\ Len(<<Nothing>>) = 1
      BY <2>1
  <2>3. <<>> \in Seq(Frames) /\ Len(<<>>) = 0
      OBVIOUS
  <2>4. /\ _typedefs = Nothing /\ scopes = <<Nothing>> /\ active = <<>> /\ failed = FALSE
      BY DEF Init
  <2>5. active \in Seq(Frames) /\ scopes \in Seq([Names -> Entities]) /\ _typedefs \in Maps
      BY <2>1, <2>2, <2>3, <2>4, Zenon
  <2>6. Len(active) = 0 /\ Len(scopes) = 1
      BY <2>2, <2>3, <2>4, Zenon
  <2>7. Len(scopes) = Len(active) + 1 /\ failed \in BOOLEAN
    <3>1. 1 = 0 + 1
        OBVIOUS
    <3>2. QED
        BY <2>4, <2>6, <3>1, Zenon
  <2>8. QED
      BY <2>5, <2>7 DEF TypeOK, Frames
<1>2. Len(scopes) = 1 /\ scopes[1] = Nothing /\ _typedefs = Nothing
    BY DEF Init
<1>3. Classifies(scopes, _typedefs, 1)
  <2>1. \A n \in Names : Nothing[n] = None
      BY DEF Nothing
  <2>2. \A n \in Names : ~Hides(scopes, 1, n) /\ _typedefs[n] = None
      BY <1>2, <2>1 DEF Hides
  <2>3. \A n \in Names : \A i \in 1..1 : ~DeclaredIn(scopes, i, n, 1)
      BY <2>2 DEF DeclaredIn
  <2>4. QED
      BY <2>2, <2>3 DEF Classifies
<1>4. CopiesClassify
    BY DEF Init, CopiesClassify
<1>5. QED
    BY <1>1, <1>2, <1>3, <1>4 DEF Consistent, ClassifiesAsC

\* The parser's map, its copies and the history keep their types, and every
\* activation has its scope.
THEOREM TypeCorrect == Spec => []TypeOK
<1>1. Consistent => TypeOK
    BY DEF Consistent
<1>2. QED
    BY <1>1, InitConsistent, NextKeeps, PTL DEF Spec

\* Whatever the text declares, the parser takes an identifier for a type name
\* where C does, block-scope functions aside.
THEOREM ClassificationCorrect == Spec => []ClassifiesAsC
<1>1. Consistent => ClassifiesAsC
    BY DEF Consistent
<1>2. QED
    BY <1>1, InitConsistent, NextKeeps, PTL DEF Spec

\* Every copy the parser holds is right for the scope it will be put back in.
THEOREM CopiesCorrect == Spec => []CopiesClassify
<1>1. Consistent => CopiesClassify
    BY DEF Consistent
<1>2. QED
    BY <1>1, InitConsistent, NextKeeps, PTL DEF Spec
=============================================================================
