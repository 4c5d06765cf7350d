------------------------ MODULE Declarations_proofs ------------------------
(***************************************************************************)
(* Proofs about the declarations of a unit, for all names, all declaration *)
(* forms and all bounds.                                                   *)
(***************************************************************************)
EXTENDS FunctionEmission, SequenceTheorems, FiniteSetTheorems,
        WellFoundedInduction, TLAPS

Frame0 == [kind : {"body", "block", "header", "for", "while"}, taken : BOOLEAN]

(* A function body is the outermost construct, and only that.              *)
NestShape == \A k \in 1..Len(nest) : nest[k].kind = "body" <=> k = 1

(* Two Decls that differ in nothing but the size of an array.              *)
SameButSize(d, e) ==
  /\ e.kind = d.kind /\ e.name = d.name /\ e.sc = d.sc /\ e.body = d.body
  /\ e.depth = d.depth /\ e.ok = d.ok /\ e.canonical = d.canonical
  /\ e.type.shape = d.type.shape /\ e.type.proto = d.type.proto
  /\ e.type.variadic = d.type.variadic /\ e.type.params = d.type.params

(* The declarations met so far stay; only sizes are filled in.             *)
Grown(s, t) == /\ Len(s) <= Len(t)
               /\ \A i \in 1..Len(s) : SameButSize(s[i], t[i])

(* What a name is bound to in an open scope: ds, ss and op stand for decls, *)
(* scopes and opened.                                                      *)
Binding(ds, ss, op, k, n) ==
  LET b == ss[k][n] IN
  b # NoDecl => /\ ds[b].ok /\ ds[b].kind # "tag"
                /\ ds[b].name = n /\ ds[b].depth = k
                /\ b > op[k]

(* Every accepted declaration of an open scope has its name bound there.   *)
Visible(ds, ss, op, i) ==
  LET d == ds[i] IN
  d.ok /\ d.kind # "tag" =>
    /\ d.name \in Names
    /\ d.depth \in 1..Len(ss) /\ i > op[d.depth] => ss[d.depth][d.name] # NoDecl

ScopesInvOf(ds, ss, op) ==
  /\ op[1] = 0
  /\ \A k \in 1..Len(ss) : \A n \in Names : Binding(ds, ss, op, k, n)
  /\ \A i \in 1..Len(ds) : Visible(ds, ss, op, i) /\ ds[i].depth >= 1

ScopesInv == ScopesInvOf(decls, scopes, opened)

(* Their types.                                                            *)
DeclsOK(ds) ==
  /\ ds \in Seq(DeclSet) /\ Len(ds) <= MaxDecls
  /\ \A i \in 1..Len(ds) : /\ ds[i].canonical \in 0..Len(ds)
                           /\ ds[i].ok => ds[i].canonical # NoDecl

ScopesOK(ds, ss, op) ==
  /\ ss \in Seq([Names -> 0..Len(ds)]) /\ ss # <<>>
  /\ op \in Seq(0..Len(ds)) /\ Len(op) = Len(ss)

Inv == TypeOK /\ NestingAgrees /\ NestShape /\ ScopesInv

-----------------------------------------------------------------------------
(* A nonempty set of numbers up to n has a largest one.                    *)
LEMMA Maximum ==
  ASSUME NEW n \in Nat, NEW S, S \subseteq 1..n, S # {}
  PROVE  \E m \in S : \A j \in S : j <= m
<1> DEFINE R == OpToRel(<, Nat)
           T == {n - k : k \in S}
<1>1. IsWellFoundedOn(R, Nat)
  BY NatLessThanWellFounded
<1> HIDE DEF R
<1>2. PICK e \in S : TRUE
  OBVIOUS
<1>3. T \subseteq Nat /\ n - e \in T
  BY <1>2
<1>4. PICK x \in T : \A y \in T : ~(<<y, x>> \in R)
  <2> HIDE DEF T
  <2> QED BY <1>1, <1>3, WFMin, Zenon
<1>5. \A y \in T : ~(y < x)
  BY <1>3, <1>4 DEF R, OpToRel
<1>6. PICK m \in S : x = n - m
  BY <1>4
<1>7. ASSUME NEW j \in S PROVE j <= m
  <2>1. n - j \in T
    OBVIOUS
  <2>2. j \in 1..n /\ m \in 1..n
    OBVIOUS
  <2>3. ~(n - j < n - m)
    BY <2>1, <1>5, <1>6
  <2> QED BY <2>2, <2>3
<1> QED BY <1>7

LEMMA NormalizedFacts ==
  ASSUME TypeOK, NEW f \in Forms
  PROVE  /\ f \in FormSet
         /\ Normalized(f.type) \in Types
         /\ Normalized(f.type).size = f.type.size
         /\ Normalized(f.type).proto = f.type.proto
         /\ Normalized(f.type).params = f.type.params
         /\ Normalized(f.type).variadic = f.type.variadic
         /\ Normalized(f.type).shape = "func" <=> f.type.shape = "func"
         /\ TagsWith(f.type) \in [Names -> Tagged \union {"none"}]
<1> DEFINE t == f.type
<1>1. f \in FormSet /\ t \in Types
  BY FormsAssumption DEF FormSet
<1>2. t.tag # NoName => t.tag \in Names /\ tags[t.tag] \in Tagged \union {"none"}
  BY <1>1 DEF TypeOK, Types
<1>3. TagClash(t) => tags[t.tag] \in Tagged /\ t.shape \in Tagged
  BY <1>2 DEF TagClash
<1>4. TagsWith(t) \in [Names -> Tagged \union {"none"}]
  BY <1>2 DEF TagsWith, TypeOK
<1>5. CASE TagClash(t)
  <2>1. Normalized(t) = [t EXCEPT !.shape = tags[t.tag]]
    BY <1>5 DEF Normalized
  <2>2. tags[t.tag] \in Shapes /\ tags[t.tag] # "func" /\ t.shape # "func"
    BY <1>3, <1>5 DEF Shapes, Tagged
  <2>3. Normalized(t) \in Types
    BY <1>1, <2>1, <2>2 DEF Types
  <2> QED BY <1>1, <1>4, <2>1, <2>2, <2>3 DEF Types
<1>6. CASE ~TagClash(t)
  BY <1>1, <1>4, <1>6 DEF Normalized
<1> QED BY <1>5, <1>6

(* declare() looks the name up in the innermost scope, and what it finds   *)
(* was accepted.                                                           *)
LEMMA PreviousFacts ==
  ASSUME TypeOK, ScopesInv, NEW f \in Forms
  PROVE  /\ Previous(f) \in 0..Len(decls)
         /\ Previous(f) # NoDecl =>
              /\ Previous(f) = scopes[Len(scopes)][f.name]
              /\ decls[Previous(f)] \in DeclSet
              /\ decls[Previous(f)].ok /\ decls[Previous(f)].kind # "tag"
              /\ decls[Previous(f)].name = f.name
              /\ decls[Previous(f)].depth = Len(scopes)
              /\ decls[Previous(f)].canonical \in 1..Len(decls)
         /\ Canonical(f) \in 1..(Len(decls) + 1)
<1>1. f.name \in Names /\ Len(decls) \in Nat
  BY FormsAssumption, LenProperties DEF FormSet, TypeOK
<1>2. Len(scopes) \in 1..Len(scopes) /\ scopes[Len(scopes)] \in [Names -> 0..Len(decls)]
  BY EmptySeq, LenProperties, ElementOfSeq DEF TypeOK
<1>3. LookupCurrent(f.name) \in 0..Len(decls)
  BY <1>1, <1>2 DEF LookupCurrent
<1>4. Previous(f) \in 0..Len(decls)
  BY <1>1, <1>3 DEF Previous, NoDecl
<1>5. ASSUME Previous(f) # NoDecl
      PROVE  /\ Previous(f) = scopes[Len(scopes)][f.name]
             /\ decls[Previous(f)] \in DeclSet
             /\ decls[Previous(f)].ok /\ decls[Previous(f)].kind # "tag"
             /\ decls[Previous(f)].name = f.name
             /\ decls[Previous(f)].depth = Len(scopes)
             /\ decls[Previous(f)].canonical \in 1..Len(decls)
  <2>1. Previous(f) = scopes[Len(scopes)][f.name]
    BY <1>5 DEF Previous, LookupCurrent
  <2>2. Previous(f) \in 1..Len(decls)
    BY <1>1, <1>4, <1>5 DEF NoDecl
  <2>3. Binding(decls, scopes, opened, Len(scopes), f.name)
    BY <1>1, <1>2 DEF ScopesInv, ScopesInvOf
  <2>4. /\ decls[Previous(f)].ok /\ decls[Previous(f)].kind # "tag"
        /\ decls[Previous(f)].name = f.name
        /\ decls[Previous(f)].depth = Len(scopes)
    BY <1>5, <2>1, <2>3 DEF Binding
  <2>5. decls[Previous(f)] \in DeclSet
    BY <2>2, ElementOfSeq DEF TypeOK
  <2>6. decls[Previous(f)].canonical \in 1..Len(decls)
    <3>1. Previous(f) \in DOMAIN decls
      BY <2>2, LenProperties DEF TypeOK
    <3>2. /\ decls[Previous(f)].canonical \in 0..Len(decls)
          /\ decls[Previous(f)].ok => decls[Previous(f)].canonical # NoDecl
      <4>1. \A i \in DOMAIN decls :
              /\ decls[i].canonical \in 0..Len(decls)
              /\ decls[i].ok => decls[i].canonical # NoDecl
        BY DEF TypeOK
      <4> QED BY <3>1, <4>1
    <3>3. decls[Previous(f)].canonical # NoDecl
      BY <2>4, <3>2, Zenon
    <3> QED BY <1>1, <3>2, <3>3 DEF NoDecl
  <2> QED BY <2>1, <2>4, <2>5, <2>6
<1>6. Canonical(f) \in 1..(Len(decls) + 1)
  BY <1>1, <1>5 DEF Canonical
<1> QED BY <1>4, <1>5, <1>6

(* What declare() does to the lists it keeps.                              *)
LEMMA DeclareFacts ==
  ASSUME TypeOK, ScopesInv, NEW f \in Forms, NEW global \in BOOLEAN,
         Len(decls) < MaxDecls
  PROVE  LET after == DeclsAfter(f, global)
             new   == NewDecl(f, global)
         IN  /\ after \in Seq(DeclSet)
             /\ Len(after) = Len(decls) + 1
             /\ Grown(decls, after)
             /\ after[Len(decls) + 1] = new
             /\ new \in DeclSet
             /\ new.canonical \in 0..(Len(decls) + 1)
             /\ new.ok => new.canonical = Canonical(f) /\ new.canonical # NoDecl
             /\ ScopesAfter(f, global) \in Seq([Names -> 0..(Len(decls) + 1)])
             /\ Len(ScopesAfter(f, global)) = Len(scopes)
             /\ DefinitionsAfter(f, global) \in [1..MaxDecls -> 0..(Len(decls) + 1)]
<1> DEFINE L == Len(decls)
           p == Previous(f)
           new == NewDecl(f, global)
           old == IF Accepts(f, global) /\ CompletesPrevious(f)
                  THEN [decls EXCEPT ![p].type.size = f.type.size]
                  ELSE decls
<1>1. /\ L \in Nat /\ decls \in Seq(DeclSet) /\ Len(scopes) \in Nat \ {0}
      /\ scopes \in Seq([Names -> 0..L])
  BY LenProperties, EmptySeq DEF TypeOK
<1>2. f \in FormSet /\ Normalized(f.type) \in Types
  BY NormalizedFacts
<1>3. /\ p \in 0..L /\ Canonical(f) \in 1..(L + 1)
      /\ p # NoDecl => decls[p] \in DeclSet
  BY PreviousFacts
<1>4. SharedSize(f) \in Int
  <2>1. Normalized(f.type).size \in Int
    BY <1>2 DEF Types
  <2>2. p # NoDecl => decls[p].type.size \in Int
    BY <1>3 DEF DeclSet, Types
  <2> QED BY <2>1, <2>2 DEF SharedSize
<1>5. new \in DeclSet
  <2> DEFINE s == IF Accepts(f, global) THEN SharedSize(f) ELSE Normalized(f.type).size
             t == [Normalized(f.type) EXCEPT !.size = s]
             c == IF WellFormed(f, global) THEN Canonical(f) ELSE NoDecl
  <2>1. s \in Int
    BY <1>2, <1>4 DEF Types
  <2>2. t \in Types
    <3> HIDE DEF s
    <3> QED BY <1>2, <2>1 DEF Types
  <2>3. c \in Nat
    BY <1>1, <1>3 DEF NoDecl
  <2>4. Accepts(f, global) \in BOOLEAN
    BY DEF Accepts
  <2>5. /\ f.kind \in {"var", "func", "typedef", "tag"} /\ f.name \in Names
        /\ f.sc \in StorageClasses /\ f.body \in BOOLEAN
    BY <1>2 DEF FormSet
  <2>6. new = [kind |-> f.kind, name |-> f.name, sc |-> f.sc, body |-> f.body,
               type |-> t, depth |-> Len(scopes), ok |-> Accepts(f, global),
               canonical |-> c]
    BY DEF NewDecl
  <2> HIDE DEF t, c, new
  <2> QED BY <1>1, <2>2, <2>3, <2>4, <2>5, <2>6 DEF DeclSet
<1>6. /\ new.canonical \in 0..(L + 1)
      /\ new.ok => new.canonical = Canonical(f) /\ new.canonical # NoDecl
  BY <1>1, <1>3 DEF NewDecl, Accepts, NoDecl
<1>7. old \in Seq(DeclSet) /\ Len(old) = L /\ Grown(decls, old)
  <2>1. CASE Accepts(f, global) /\ CompletesPrevious(f)
    <3> DEFINE e == [decls[p] EXCEPT !.type.size = f.type.size]
    <3>1. p \in 1..L
      BY <1>1, <1>3, <2>1 DEF CompletesPrevious, NoDecl
    <3>2. decls[p] \in DeclSet /\ decls[p].type \in Types
      <4>1. decls[p] \in DeclSet
        BY <3>1, ElementOfSeq, <1>1
      <4> QED BY <4>1 DEF DeclSet
    <3>3. f.type.size \in Int
      BY <1>2 DEF FormSet, Types
    <3>4. [decls[p].type EXCEPT !.size = f.type.size] \in Types
      BY <3>2, <3>3 DEF Types
    <3>5. e \in DeclSet /\ SameButSize(decls[p], e)
      <4>1. e = [decls[p] EXCEPT !.type = [decls[p].type EXCEPT !.size = f.type.size]]
        BY <3>2 DEF DeclSet
      <4> QED BY <3>2, <3>4, <4>1 DEF DeclSet, Types, SameButSize
    <3>6. old = [decls EXCEPT ![p] = e]
      BY <2>1, <3>1, <1>1, LenProperties
    <3> HIDE DEF e, old
    <3>7. /\ old \in Seq(DeclSet) /\ Len(old) = L
          /\ \A j \in 1..L : old[j] = IF j = p THEN e ELSE decls[j]
      BY <3>1, <3>5, <3>6, <1>1, ExceptSeq
    <3>8. \A j \in 1..L : SameButSize(decls[j], old[j])
      <4>1. \A d : SameButSize(d, d)
        BY DEF SameButSize
      <4> QED BY <3>5, <3>7, <4>1
    <3> QED BY <1>1, <3>7, <3>8 DEF Grown
  <2>2. CASE ~(Accepts(f, global) /\ CompletesPrevious(f))
    BY <1>1, <2>2 DEF Grown, SameButSize
  <2> QED BY <2>1, <2>2
<1>8. DeclsAfter(f, global) = Append(old, new)
  BY DEF DeclsAfter
<1>9. /\ DeclsAfter(f, global) \in Seq(DeclSet)
      /\ Len(DeclsAfter(f, global)) = L + 1
      /\ DeclsAfter(f, global)[L + 1] = new
      /\ \A j \in 1..L : DeclsAfter(f, global)[j] = old[j]
  <2> HIDE DEF old, new
  <2> QED BY <1>1, <1>5, <1>7, <1>8, AppendProperties
<1>10. Grown(decls, DeclsAfter(f, global))
  <2> HIDE DEF old, new
  <2> QED BY <1>1, <1>7, <1>9 DEF Grown
<1>11. /\ ScopesAfter(f, global) \in Seq([Names -> 0..(L + 1)])
       /\ Len(ScopesAfter(f, global)) = Len(scopes)
  <2>1. scopes \in Seq([Names -> 0..(L + 1)])
    <3>1. [Names -> 0..L] \subseteq [Names -> 0..(L + 1)]
      BY <1>1
    <3> QED BY <1>1, <3>1, SeqMonotonic
  <2>2. CASE Accepts(f, global) /\ Binds(f)
    <3> DEFINE top == [scopes[Len(scopes)] EXCEPT ![f.name] = L + 1]
    <3>1. ScopesAfter(f, global) = [scopes EXCEPT ![Len(scopes)] = top]
      BY <2>2, <1>1, LenProperties DEF ScopesAfter
    <3>2. top \in [Names -> 0..(L + 1)]
      <4>1. Len(scopes) \in 1..Len(scopes)
        BY <1>1
      <4>2. scopes[Len(scopes)] \in [Names -> 0..(L + 1)]
        BY <2>1, <4>1, ElementOfSeq
      <4>3. L + 1 \in 0..(L + 1)
        BY <1>1
      <4> QED BY <4>2, <4>3
    <3> HIDE DEF top
    <3> QED BY <1>1, <2>1, <3>1, <3>2, ExceptSeq
  <2>3. CASE ~(Accepts(f, global) /\ Binds(f))
    BY <2>1, <2>3 DEF ScopesAfter
  <2> QED BY <2>2, <2>3
<1>12. DefinitionsAfter(f, global) \in [1..MaxDecls -> 0..(L + 1)]
  <2>1. definitions \in [1..MaxDecls -> 0..L]
    BY DEF TypeOK
  <2>2. definitions \in [1..MaxDecls -> 0..(L + 1)] /\ L + 1 \in 0..(L + 1)
    BY <1>1, <2>1
  <2> QED BY <2>2 DEF DefinitionsAfter
<1> QED BY <1>5, <1>6, <1>9, <1>10, <1>11, <1>12

(* Of the declarations before it, at most the size of the previous one of   *)
(* its name changes.                                                       *)
Completed(f, global, i) ==
  IF Accepts(f, global) /\ CompletesPrevious(f) /\ i = Previous(f)
  THEN [decls[i] EXCEPT !.type.size = f.type.size]
  ELSE decls[i]

LEMMA DeclsAfterAt ==
  ASSUME TypeOK, NEW f \in Forms, NEW global \in BOOLEAN, NEW i \in 1..Len(decls)
  PROVE  DeclsAfter(f, global)[i] = Completed(f, global, i)
<1> DEFINE p == Previous(f)
           completes == Accepts(f, global) /\ CompletesPrevious(f)
           old == IF completes THEN [decls EXCEPT ![p].type.size = f.type.size] ELSE decls
           new == NewDecl(f, global)
<1>1. DOMAIN decls = 1..Len(decls) /\ Len(decls) \in Nat /\ decls \in Seq(DeclSet)
  BY LenProperties DEF TypeOK
<1>2. DeclsAfter(f, global) = Append(old, new)
  BY DEF DeclsAfter
<1>3. /\ old[i] = Completed(f, global, i)
      /\ \E S : old \in Seq(S) /\ new \in S /\ Len(old) = Len(decls)
  <2>1. old[i] = Completed(f, global, i)
    BY <1>1 DEF Completed
  <2> DEFINE S == {old[j] : j \in 1..Len(decls)} \union {new}
  <2>2. old = [j \in 1..Len(decls) |-> old[j]]
    <3>1. decls = [j \in 1..Len(decls) |-> decls[j]]
      BY <1>1, LenProperties
    <3> DEFINE d == decls
    <3>2. CASE completes
      BY <1>1, <3>2
    <3>3. CASE ~completes
      BY <3>1, <3>3
    <3> QED BY <3>2, <3>3
  <2> HIDE DEF new, completes, old
  <2>3. old \in [1..Len(decls) -> S] /\ new \in S
    BY <2>2
  <2>4. old \in Seq(S)
    BY <1>1, <2>3, SeqDef
  <2>5. Len(old) = Len(decls)
    <3>1. DOMAIN old = 1..Len(decls)
      BY <2>2
    <3> HIDE DEF S
    <3> QED BY <1>1, <2>4, <3>1, LenProperties
  <2> QED BY <2>1, <2>3, <2>4, <2>5
<1> HIDE DEF new, old
<1> QED BY <1>2, <1>3, AppendProperties

LEMMA TypeParts ==
  /\ TypeOK => DeclsOK(decls) /\ ScopesOK(decls, scopes, opened)
  /\ \A ds, ss, op : DeclsOK(ds) /\ ScopesOK(ds, ss, op) =>
        /\ ds \in Seq(DeclSet) /\ Len(ds) \in Nat /\ Len(ss) \in Nat \ {0}
        /\ \A k \in 1..Len(ss) : /\ op[k] \in 0..Len(ds)
                                 /\ ss[k] \in [Names -> 0..Len(ds)]
<1>1. TypeOK => DeclsOK(decls) /\ ScopesOK(decls, scopes, opened)
  <2> SUFFICES ASSUME TypeOK PROVE DeclsOK(decls) /\ ScopesOK(decls, scopes, opened)
    OBVIOUS
  <2>1. DOMAIN decls = 1..Len(decls)
    BY LenProperties DEF TypeOK
  <2> QED BY <2>1 DEF TypeOK, DeclsOK, ScopesOK
<1>2. ASSUME NEW ds, NEW ss, NEW op, DeclsOK(ds), ScopesOK(ds, ss, op)
      PROVE  /\ ds \in Seq(DeclSet) /\ Len(ds) \in Nat /\ Len(ss) \in Nat \ {0}
             /\ \A k \in 1..Len(ss) : /\ op[k] \in 0..Len(ds)
                                      /\ ss[k] \in [Names -> 0..Len(ds)]
  <2>1. ds \in Seq(DeclSet) /\ Len(ds) \in Nat /\ Len(ss) \in Nat \ {0}
    BY <1>2, LenProperties, EmptySeq DEF DeclsOK, ScopesOK
  <2>2. ASSUME NEW k \in 1..Len(ss)
        PROVE op[k] \in 0..Len(ds) /\ ss[k] \in [Names -> 0..Len(ds)]
    BY <1>2, <2>1, ElementOfSeq DEF ScopesOK
  <2> QED BY <2>1, <2>2
<1> QED BY <1>1, <1>2

(* Filling in sizes changes nothing of all that.                           *)
LEMMA SizesOnly ==
  ASSUME NEW ds, NEW es, NEW ss, NEW op,
         DeclsOK(ds), ScopesOK(ds, ss, op), ScopesInvOf(ds, ss, op),
         es \in Seq(DeclSet), Len(es) = Len(ds), Grown(ds, es)
  PROVE  DeclsOK(es) /\ ScopesOK(es, ss, op) /\ ScopesInvOf(es, ss, op)
<1>1. /\ Len(ds) \in Nat /\ Len(ss) \in Nat
      /\ \A k \in 1..Len(ss) : ss[k] \in [Names -> 0..Len(ds)]
  BY TypeParts
<1>2. \A i \in 1..Len(ds) : SameButSize(ds[i], es[i])
  BY DEF Grown
<1>3. DeclsOK(es) /\ ScopesOK(es, ss, op)
  <2>1. DeclsOK(es)
    BY <1>1, <1>2 DEF DeclsOK, SameButSize
  <2>2. ScopesOK(es, ss, op)
    BY <1>1, <1>2 DEF ScopesOK, SameButSize
  <2> QED BY <2>1, <2>2
<1>4. ASSUME NEW k \in 1..Len(ss), NEW n \in Names
      PROVE  Binding(es, ss, op, k, n)
  <2>1. ss[k][n] # NoDecl => ss[k][n] \in 1..Len(ds)
    BY <1>1 DEF NoDecl
  <2>2. Binding(ds, ss, op, k, n)
    BY DEF ScopesInvOf
  <2> QED BY <1>2, <2>1, <2>2 DEF Binding, SameButSize
<1>5. ASSUME NEW i \in 1..Len(es)
      PROVE  Visible(es, ss, op, i) /\ es[i].depth >= 1
  <2>1. Visible(ds, ss, op, i) /\ ds[i].depth >= 1
    BY DEF ScopesInvOf
  <2> QED BY <1>2, <2>1 DEF Visible, SameButSize
<1> QED BY <1>3, <1>4, <1>5 DEF ScopesInvOf

(* declare() keeps the scopes in step with the declarations.               *)
LEMMA DeclareKeepsScopes ==
  ASSUME TypeOK, ScopesInv, NEW f \in Forms, NEW global \in BOOLEAN,
         Len(decls) < MaxDecls
  PROVE  LET ds == DeclsAfter(f, global)
             ss == ScopesAfter(f, global)
         IN  DeclsOK(ds) /\ ScopesOK(ds, ss, opened) /\ ScopesInvOf(ds, ss, opened)
<1> DEFINE L == Len(decls)
           ds == DeclsAfter(f, global)
           ss == ScopesAfter(f, global)
           new == NewDecl(f, global)
           top == Len(scopes)
<1>1. /\ ds \in Seq(DeclSet) /\ Len(ds) = L + 1 /\ Grown(decls, ds)
      /\ ds[L + 1] = new /\ new.canonical \in 0..(L + 1)
      /\ new.ok => new.canonical # NoDecl
      /\ ss \in Seq([Names -> 0..(L + 1)]) /\ Len(ss) = top
  BY DeclareFacts
<1>2. /\ DeclsOK(decls) /\ ScopesOK(decls, scopes, opened)
      /\ L \in Nat /\ top \in Nat \ {0} /\ MaxDecls \in Nat
      /\ \A k \in 1..top : /\ opened[k] \in 0..L
                           /\ scopes[k] \in [Names -> 0..L]
  BY TypeParts, BoundsAssumption
<1>3. /\ f.name \in Names
      /\ new.name = f.name /\ new.kind = f.kind /\ new.depth = top
      /\ new.ok = Accepts(f, global)
  BY FormsAssumption DEF NewDecl, FormSet
<1>4. \A i \in 1..L : SameButSize(decls[i], ds[i])
  BY <1>1 DEF Grown
<1>5. DeclsOK(ds)
  <2> HIDE DEF ds, ss, new, top
  <2>1. ASSUME NEW i \in 1..Len(ds)
        PROVE  /\ ds[i].canonical \in 0..Len(ds)
               /\ ds[i].ok => ds[i].canonical # NoDecl
    <3>1. CASE i \in 1..L
      <4>1. /\ decls[i].canonical \in 0..L
            /\ decls[i].ok => decls[i].canonical # NoDecl
        BY <3>1, <1>2 DEF DeclsOK
      <4> QED BY <1>1, <1>2, <1>4, <3>1, <4>1 DEF SameButSize
    <3>2. CASE i = L + 1
      BY <1>1, <3>2
    <3> QED BY <1>1, <1>2, <2>1, <3>1, <3>2
  <2> QED BY <1>1, <1>2, <2>1 DEF DeclsOK
<1>6. ScopesOK(ds, ss, opened)
  <2>1. 0..L \subseteq 0..(L + 1)
    BY <1>2
  <2>2. opened \in Seq(0..(L + 1))
    BY <1>2, <2>1, SeqMonotonic DEF ScopesOK
  <2> HIDE DEF ds, ss
  <2>3. ss # <<>>
    BY <1>1, <1>2, EmptySeq
  <2> QED BY <1>1, <1>2, <2>2, <2>3 DEF ScopesOK
<1>7. \A k \in 1..top : \A n \in Names :
         ss[k][n] = IF Accepts(f, global) /\ Binds(f) /\ k = top /\ n = f.name
                    THEN L + 1 ELSE scopes[k][n]
  <2>1. DOMAIN scopes = 1..top
    BY LenProperties DEF TypeOK
  <2> QED BY <1>2, <2>1 DEF ScopesAfter
<1>8. ASSUME NEW k \in 1..top, NEW n \in Names
      PROVE  Binding(ds, ss, opened, k, n)
  <2> HIDE DEF ds, ss, new, top
  <2>1. CASE Accepts(f, global) /\ Binds(f) /\ k = top /\ n = f.name
    <3>1. ss[k][n] = L + 1 /\ f.kind # "tag"
      BY <1>7, <1>8, <2>1 DEF Binds
    <3>2. L + 1 > opened[k]
      BY <1>2
    <3> QED BY <1>1, <1>3, <2>1, <3>1, <3>2 DEF Binding
  <2>2. CASE ~(Accepts(f, global) /\ Binds(f) /\ k = top /\ n = f.name)
    <3>1. ss[k][n] = scopes[k][n]
      BY <1>7, <1>8, <2>2
    <3>2. scopes[k][n] # NoDecl => scopes[k][n] \in 1..L
      BY <1>2 DEF NoDecl
    <3>3. Binding(decls, scopes, opened, k, n)
      BY DEF ScopesInv, ScopesInvOf, top
    <3> QED BY <1>4, <3>1, <3>2, <3>3 DEF Binding, SameButSize
  <2> QED BY <2>1, <2>2
<1>9. ASSUME NEW i \in 1..Len(ds)
      PROVE  Visible(ds, ss, opened, i) /\ ds[i].depth >= 1
  <2>1. CASE i \in 1..L
    <3>1. Visible(decls, scopes, opened, i) /\ decls[i].depth >= 1
      BY <2>1 DEF ScopesInv, ScopesInvOf
    <3>2. SameButSize(decls[i], ds[i])
      BY <1>4, <2>1
    <3> HIDE DEF ds, ss, new, top
    <3>3. \A k \in 1..top : \A n \in Names :
             scopes[k][n] # NoDecl => ss[k][n] # NoDecl
      BY <1>2, <1>7 DEF NoDecl
    <3>4. Len(ss) = Len(scopes) /\ Len(ss) = top
      BY <1>1 DEF top
    <3> QED BY <3>1, <3>2, <3>3, <3>4 DEF Visible, SameButSize
  <2>2. CASE i = L + 1
    <3>1. ASSUME Accepts(f, global), f.kind # "tag"
          PROVE  ss[top][f.name] # NoDecl
      <4>1. CASE Binds(f)
        BY <1>2, <1>3, <1>7, <3>1, <4>1 DEF NoDecl
      <4>2. CASE ~Binds(f)
        <5>1. Previous(f) # NoDecl
          BY <3>1, <4>2 DEF Binds
        <5>2. scopes[top][f.name] # NoDecl
          BY <5>1, PreviousFacts
        <5> HIDE DEF ss, top
        <5> QED BY <1>2, <1>3, <1>7, <4>2, <5>2
      <4> QED BY <4>1, <4>2
    <3> HIDE DEF ds, ss, new, top
    <3> QED BY <1>1, <1>2, <1>3, <2>2, <3>1 DEF Visible
  <2> HIDE DEF ds
  <2> QED BY <1>1, <1>2, <2>1, <2>2
<1>10. opened[1] = 0
  BY DEF ScopesInv, ScopesInvOf
<1>11. ScopesInvOf(ds, ss, opened)
  <2> HIDE DEF ds, ss, top
  <2> QED BY <1>1, <1>8, <1>9, <1>10 DEF ScopesInvOf
<1> QED BY <1>5, <1>6, <1>11

(* Opening a scope with bindings b, after declaring ps for it.             *)
LEMMA PushKeepsScopes ==
  ASSUME NEW ds, NEW ss, NEW op,
         DeclsOK(ds), ScopesOK(ds, ss, op), ScopesInvOf(ds, ss, op),
         NEW ps \in Seq(DeclSet), Len(ds) + Len(ps) <= MaxDecls,
         \A i \in 1..Len(ps) :
            /\ ps[i].depth = Len(ss) + 1 /\ ps[i].kind # "tag"
            /\ ps[i].canonical \in 1..(Len(ds) + Len(ps)),
         NEW b \in [Names -> 0..(Len(ds) + Len(ps))],
         \A n \in Names : b[n] # NoDecl =>
            /\ b[n] > Len(ds)
            /\ ps[b[n] - Len(ds)].ok /\ ps[b[n] - Len(ds)].name = n,
         \A i \in 1..Len(ps) : ps[i].ok => ps[i].name \in Names /\ b[ps[i].name] # NoDecl
  PROVE  LET es == ds \o ps
             ts == Append(ss, b)
             oq == Append(op, Len(ds))
         IN  DeclsOK(es) /\ ScopesOK(es, ts, oq) /\ ScopesInvOf(es, ts, oq)
<1> DEFINE es == ds \o ps
           ts == Append(ss, b)
           oq == Append(op, Len(ds))
           L == Len(ds)
           P == Len(ps)
           D == Len(ss)
<1>1. /\ ds \in Seq(DeclSet) /\ L \in Nat /\ D \in Nat \ {0} /\ P \in Nat
      /\ \A k \in 1..D : op[k] \in 0..L /\ ss[k] \in [Names -> 0..L]
  BY TypeParts, LenProperties
<1>2. /\ es \in Seq(DeclSet) /\ Len(es) = L + P
      /\ \A i \in 1..(L + P) : es[i] = IF i <= L THEN ds[i] ELSE ps[i - L]
  BY <1>1, ConcatProperties
<1>3. /\ ts \in Seq([Names -> 0..(L + P)]) /\ Len(ts) = D + 1
      /\ \A k \in 1..D : ts[k] = ss[k]
      /\ ts[D + 1] = b
  <2>1. [Names -> 0..L] \subseteq [Names -> 0..(L + P)]
    BY <1>1
  <2>2. ss \in Seq([Names -> 0..(L + P)])
    BY <2>1, SeqMonotonic DEF ScopesOK
  <2> QED BY <1>1, <2>2, AppendProperties
<1>4. /\ oq \in Seq(0..(L + P)) /\ Len(oq) = D + 1
      /\ \A k \in 1..D : oq[k] = op[k]
      /\ oq[D + 1] = L
  <2>1. 0..L \subseteq 0..(L + P) /\ L \in 0..(L + P)
    BY <1>1
  <2>2. op \in Seq(0..(L + P)) /\ Len(op) = D
    BY <2>1, SeqMonotonic DEF ScopesOK
  <2> QED BY <1>1, <2>1, <2>2, AppendProperties
<1>5. \A i \in 1..L : /\ ds[i].canonical \in 0..L
                      /\ ds[i].ok => ds[i].canonical # NoDecl
  BY DEF DeclsOK
<1>6. DeclsOK(es)
  <2> HIDE DEF es, L, P
  <2>1. ASSUME NEW i \in 1..Len(es)
        PROVE  /\ es[i].canonical \in 0..Len(es)
               /\ es[i].ok => es[i].canonical # NoDecl
    <3>1. CASE i <= L
      BY <1>1, <1>2, <1>5, <3>1
    <3>2. CASE i > L
      <4>1. i - L \in 1..P /\ es[i] = ps[i - L]
        BY <1>1, <1>2, <3>2
      <4>2. ps[i - L].canonical \in 1..(L + P)
        BY <4>1 DEF L, P
      <4> QED BY <1>1, <1>2, <4>1, <4>2 DEF NoDecl
    <3> QED BY <1>1, <1>2, <3>1, <3>2
  <2>2. L + P <= MaxDecls
    BY DEF L, P
  <2> QED BY <1>2, <2>1, <2>2 DEF DeclsOK
<1>7. ScopesOK(es, ts, oq)
  <2> HIDE DEF es, ts, oq, L, P
  <2>1. ts # <<>>
    BY <1>1, <1>3, EmptySeq
  <2> QED BY <1>2, <1>3, <1>4, <2>1 DEF ScopesOK
<1>8. ASSUME NEW k \in 1..(D + 1), NEW n \in Names
      PROVE  Binding(es, ts, oq, k, n)
  <2>1. CASE k \in 1..D
    <3>1. Binding(ds, ss, op, k, n)
      BY <2>1 DEF ScopesInvOf
    <3>2. ss[k][n] # NoDecl => ss[k][n] \in 1..L
      BY <1>1, <2>1 DEF NoDecl
    <3>3. ts[k][n] = ss[k][n] /\ oq[k] = op[k]
      BY <1>3, <1>4, <2>1
    <3>4. \A i \in 1..L : es[i] = ds[i]
      BY <1>1, <1>2
    <3> HIDE DEF es, ts, oq, L, P
    <3> QED BY <3>1, <3>2, <3>3, <3>4 DEF Binding
  <2>2. CASE k = D + 1
    <3>1. ts[k][n] = b[n] /\ oq[k] = L
      BY <1>3, <1>4, <2>2
    <3>2. ASSUME b[n] # NoDecl
          PROVE  /\ b[n] \in 1..(L + P) /\ b[n] > L /\ b[n] - L \in 1..P
                 /\ es[b[n]] = ps[b[n] - L]
                 /\ ps[b[n] - L].ok /\ ps[b[n] - L].name = n
      BY <1>1, <1>2, <3>2 DEF NoDecl
    <3>3. \A i \in 1..P : ps[i].depth = D + 1 /\ ps[i].kind # "tag"
      OBVIOUS
    <3> HIDE DEF es, ts, oq, L, P, D
    <3> QED BY <2>2, <3>1, <3>2, <3>3 DEF Binding
  <2> QED BY <1>1, <2>1, <2>2
<1>9. ASSUME NEW i \in 1..(L + P)
      PROVE  Visible(es, ts, oq, i) /\ es[i].depth >= 1
  <2>1. CASE i \in 1..L
    <3>1. Visible(ds, ss, op, i) /\ ds[i].depth >= 1
      BY <2>1 DEF ScopesInvOf
    <3>2. es[i] = ds[i]
      BY <1>1, <1>2, <2>1
    <3>3. ASSUME ds[i].depth \in 1..(D + 1), i > oq[ds[i].depth]
          PROVE  /\ ds[i].depth \in 1..D /\ i > op[ds[i].depth]
                 /\ ts[ds[i].depth] = ss[ds[i].depth]
      <4>1. ds[i].depth # D + 1
        BY <1>1, <1>4, <2>1, <3>3
      <4>2. ds[i].depth \in 1..D
        BY <1>1, <3>3, <4>1
      <4> QED BY <1>3, <1>4, <3>3, <4>2
    <3>4. Len(ts) = D + 1 /\ Len(ss) = D
      BY <1>3
    <3> HIDE DEF es, ts, oq, L, P, D
    <3> QED BY <3>1, <3>2, <3>3, <3>4 DEF Visible
  <2>2. CASE i \notin 1..L
    <3>1. i - L \in 1..P /\ es[i] = ps[i - L]
      BY <1>1, <1>2, <2>2
    <3>2. /\ es[i].depth = D + 1
          /\ es[i].ok => es[i].name \in Names /\ b[es[i].name] # NoDecl
      BY <3>1
    <3>3. ts[D + 1] = b
      BY <1>3
    <3> HIDE DEF es, ts, oq, L, P, D
    <3> QED BY <1>1, <3>2, <3>3 DEF Visible
  <2> QED BY <2>1, <2>2
<1>10. ScopesInvOf(es, ts, oq)
  <2>1. oq[1] = 0
    BY <1>1, <1>4 DEF ScopesInvOf
  <2> HIDE DEF es, ts, oq, L, P, D
  <2> QED BY <1>2, <1>3, <1>8, <1>9, <2>1 DEF ScopesInvOf
<1> QED BY <1>6, <1>7, <1>10

(* Closing one.                                                            *)
LEMMA PopKeepsScopes ==
  ASSUME NEW ds, NEW ss, NEW op,
         DeclsOK(ds), ScopesOK(ds, ss, op), ScopesInvOf(ds, ss, op),
         Len(ss) >= 2
  PROVE  LET ts == SubSeq(ss, 1, Len(ss) - 1)
             oq == SubSeq(op, 1, Len(op) - 1)
         IN  ScopesOK(ds, ts, oq) /\ ScopesInvOf(ds, ts, oq)
<1> DEFINE ts == SubSeq(ss, 1, Len(ss) - 1)
           oq == SubSeq(op, 1, Len(op) - 1)
           D == Len(ss)
<1>1. /\ D \in Nat \ {0} /\ Len(ds) \in Nat /\ Len(op) = D
      /\ ss \in Seq([Names -> 0..Len(ds)]) /\ op \in Seq(0..Len(ds))
  BY TypeParts DEF ScopesOK
<1>2. /\ ts \in Seq([Names -> 0..Len(ds)]) /\ Len(ts) = D - 1
      /\ \A k \in 1..(D - 1) : ts[k] = ss[k]
  BY <1>1, SubSeqProperties
<1>3. /\ oq \in Seq(0..Len(ds)) /\ Len(oq) = D - 1
      /\ \A k \in 1..(D - 1) : oq[k] = op[k]
  BY <1>1, SubSeqProperties
<1> HIDE DEF ts, oq
<1>4. ScopesOK(ds, ts, oq)
  <2>1. ts # <<>>
    BY <1>1, <1>2, EmptySeq
  <2> QED BY <1>2, <1>3, <2>1 DEF ScopesOK
<1>5. ASSUME NEW k \in 1..(D - 1), NEW n \in Names PROVE Binding(ds, ts, oq, k, n)
  <2>1. k \in 1..D
    BY <1>1
  <2>2. Binding(ds, ss, op, k, n)
    BY <2>1 DEF ScopesInvOf
  <2> QED BY <1>2, <1>3, <2>2 DEF Binding
<1>6. ASSUME NEW i \in 1..Len(ds) PROVE Visible(ds, ts, oq, i) /\ ds[i].depth >= 1
  <2>1. Visible(ds, ss, op, i) /\ ds[i].depth >= 1
    BY DEF ScopesInvOf
  <2>2. \A k \in 1..(D - 1) : k \in 1..D
    BY <1>1
  <2> QED BY <1>2, <1>3, <2>1, <2>2 DEF Visible
<1>7. oq[1] = 0
  <2>1. 1 \in 1..(D - 1)
    BY <1>1
  <2> QED BY <1>3, <2>1 DEF ScopesInvOf
<1>8. ScopesInvOf(ds, ts, oq)
  BY <1>2, <1>5, <1>6, <1>7 DEF ScopesInvOf
<1> QED BY <1>4, <1>8 DEF ts, oq

(* What analyzeFunction declares for the parameters of a definition.       *)
LEMMA ParametersFacts ==
  ASSUME TypeOK, NEW f \in Forms,
         Len(decls) + 1 + Len(f.type.params) <= MaxDecls
  PROVE  LET L  == Len(decls) + 1
             P  == Len(f.type.params)
             ps == Parameters(f.type)
             b  == ParameterScope(f.type)
         IN  /\ P \in Nat /\ ps \in Seq(DeclSet) /\ Len(ps) = P
             /\ \A i \in 1..P :
                  /\ ps[i].depth = Len(scopes) + 1 /\ ps[i].kind = "param"
                  /\ ps[i].canonical = L + i
                  /\ ps[i].ok => ps[i].name \in Names /\ b[ps[i].name] # NoDecl
             /\ b \in [Names -> 0..(L + P)]
             /\ \A n \in Names : b[n] # NoDecl =>
                  /\ b[n] \in (L + 1)..(L + P)
                  /\ ps[b[n] - L].ok /\ ps[b[n] - L].name = n
<1> DEFINE t == f.type
           L == Len(decls) + 1
           P == Len(t.params)
           ps == Parameters(t)
           b == ParameterScope(t)
           At(n) == {i \in DOMAIN t.params : t.params[i].name = n /\ Declarable(t.params[i])}
<1>1. /\ L \in Nat /\ Len(scopes) \in Nat
      /\ t.params \in Seq(Params) /\ P \in Nat /\ DOMAIN t.params = 1..P
      /\ \A i \in 1..P : t.params[i] \in Params
  <2>1. t.params \in Seq(Params)
    BY FormsAssumption DEF FormSet, Types
  <2> QED BY <2>1, LenProperties, ElementOfSeq DEF TypeOK
<1>2. ASSUME NEW i \in 1..P
      PROVE  /\ ps[i] \in DeclSet /\ ps[i].depth = Len(scopes) + 1 /\ ps[i].kind = "param"
             /\ ps[i].canonical = L + i /\ ps[i].name = t.params[i].name
             /\ ps[i].ok <=> Declarable(t.params[i])
  <2> DEFINE p == t.params[i]
             pt == ParameterType(p)
  <2>1. ps[i] = Parameter(p, i)
    BY <1>1 DEF Parameters
  <2>2. p \in Params /\ p.name \in Names \union {NoName} /\ p.shape \in Shapes
    BY <1>1 DEF Params, Shapes
  <2>3. pt \in Types
    <3>1. <<>> \in Seq(Params)
      BY EmptySeq
    <3> HIDE DEF p
    <3> QED BY <2>2, <3>1 DEF ParameterType, Types
  <2>4. Declarable(p) \in BOOLEAN
    BY DEF Declarable
  <2>5. L + i \in Nat /\ Len(scopes) + 1 \in Nat
    BY <1>1
  <2>6. Parameter(p, i) = [kind |-> "param", name |-> p.name, sc |-> "NONE",
                           body |-> FALSE, type |-> pt, depth |-> Len(scopes) + 1,
                           canonical |-> L + i, ok |-> Declarable(p)]
    BY DEF Parameter
  <2> HIDE DEF p, pt, L
  <2>7. Parameter(p, i) \in DeclSet
    BY <2>2, <2>3, <2>4, <2>5, <2>6 DEF DeclSet, StorageClasses
  <2> QED BY <2>1, <2>6, <2>7 DEF p
<1>3. ps \in Seq(DeclSet) /\ Len(ps) = P
  <2>1. ps = [i \in 1..P |-> Parameter(t.params[i], i)]
    BY <1>1 DEF Parameters
  <2>2. ps \in [1..P -> DeclSet]
    <3>1. \A i \in 1..P : ps[i] = Parameter(t.params[i], i)
      BY <2>1
    <3>2. \A i \in 1..P : Parameter(t.params[i], i) \in DeclSet
      BY <1>2, <3>1
    <3> HIDE DEF ps, P, t
    <3> QED BY <2>1, <3>2
  <2>3. ps \in Seq(DeclSet)
    BY <1>1, <2>2, SeqDef
  <2>4. DOMAIN ps = 1..P /\ DOMAIN ps = 1..Len(ps) /\ Len(ps) \in Nat
    BY <2>2, <2>3, LenProperties
  <2> HIDE DEF ps, P
  <2> QED BY <1>1, <2>3, <2>4
<1>4. ASSUME NEW n \in Names
      PROVE  /\ At(n) = {} => b[n] = NoDecl
             /\ At(n) # {} => \E i \in At(n) : b[n] = L + i
  BY DEF ParameterScope
<1>5. ASSUME NEW n \in Names
      PROVE  /\ b[n] \in 0..(L + P)
             /\ b[n] # NoDecl => /\ b[n] \in (L + 1)..(L + P)
                                 /\ ps[b[n] - L].ok /\ ps[b[n] - L].name = n
  <2>1. CASE At(n) = {}
    <3>1. b[n] = NoDecl /\ L \in Nat /\ P \in Nat
      BY <1>1, <1>4, <2>1
    <3> HIDE DEF b, L, P
    <3> QED BY <3>1 DEF NoDecl
  <2>2. CASE At(n) # {}
    <3>1. PICK i \in At(n) : b[n] = L + i
      BY <1>4, <2>2
    <3>2. i \in 1..P /\ t.params[i].name = n /\ Declarable(t.params[i])
      BY <1>1
    <3>3. b[n] - L = i /\ b[n] \in (L + 1)..(L + P) /\ b[n] \in 0..(L + P)
      <4>1. L \in Nat /\ P \in Nat /\ i \in 1..P /\ b[n] = L + i
        BY <1>1, <3>1, <3>2
      <4> HIDE DEF b, L, P
      <4> QED BY <4>1
    <3>4. ps[i].ok /\ ps[i].name = n
      BY <1>2, <3>2
    <3> HIDE DEF b, L, P, ps
    <3> QED BY <3>3, <3>4
  <2> QED BY <2>1, <2>2
<1>6. ASSUME NEW i \in 1..P, ps[i].ok
      PROVE  ps[i].name \in Names /\ b[ps[i].name] # NoDecl
  <2>1. ps[i].name = t.params[i].name /\ Declarable(t.params[i])
    BY <1>2, <1>6
  <2>2. t.params[i].name \in Names
    BY <1>1, <2>1 DEF Declarable, Params
  <2>3. i \in At(ps[i].name)
    BY <1>1, <2>1
  <2>4. PICK j \in At(ps[i].name) : b[ps[i].name] = L + j
    <3> HIDE DEF At, b, L, ps
    <3> QED BY <1>4, <2>1, <2>2, <2>3
  <2>5. j \in 1..P
    BY <1>1
  <2>6. L + j # NoDecl
    BY <1>1, <2>5 DEF NoDecl
  <2> HIDE DEF b, L, ps
  <2> QED BY <2>1, <2>2, <2>4, <2>6
<1>7. b \in [Names -> 0..(L + P)]
  <2>1. b = [n \in Names |-> b[n]]
    BY DEF ParameterScope
  <2> HIDE DEF b, L, P
  <2> QED BY <1>5, <2>1
<1> QED BY <1>1, <1>2, <1>3, <1>5, <1>6, <1>7

(* The frames of some kinds are finitely many.                             *)
LEMMA FramesFacts ==
  ASSUME nest \in Seq(Frame0), NEW K
  PROVE  /\ IsFiniteSet(Frames(K)) /\ Cardinality(Frames(K)) \in Nat
         /\ Frames(K) \subseteq 1..Len(nest)
         /\ Frames(K) # {} => Cardinality(Frames(K)) >= 1
         /\ nest # <<>> /\ Top.kind \in K => Len(nest) \in Frames(K)
<1>1. Len(nest) \in Nat /\ DOMAIN nest = 1..Len(nest)
  BY LenProperties
<1>2. Frames(K) \subseteq 1..Len(nest)
  BY <1>1 DEF Frames
<1>3. IsFiniteSet(1..Len(nest))
  BY <1>1, FS_Interval
<1>4. IsFiniteSet(Frames(K)) /\ Cardinality(Frames(K)) \in Nat
  BY <1>2, <1>3, FS_Subset, FS_CardinalityType
<1>5. Frames(K) # {} => Cardinality(Frames(K)) # 0
  BY <1>4, FS_EmptySet
<1>6. nest # <<>> /\ Top.kind \in K => Len(nest) \in Frames(K)
  BY <1>1, EmptySeq DEF Frames, Top
<1> QED BY <1>2, <1>4, <1>5, <1>6

LEMMA InsideIsDeep ==
  ASSUME TypeOK, NestingAgrees, nest # <<>>,
         Top.kind \in {"body", "block", "header", "for"}
  PROVE  Len(scopes) >= 2
<1> DEFINE K == {"body", "block", "header", "for"}
<1>1. nest \in Seq(Frame0)
  BY DEF TypeOK, Frame0
<1>2. Len(nest) \in Frames(K)
  BY <1>1, FramesFacts
<1>3. Cardinality(Frames(K)) \in Nat /\ Cardinality(Frames(K)) >= 1
  BY <1>1, <1>2, FramesFacts
<1> QED BY <1>3 DEF NestingAgrees

(* The end of the unit fills in sizes and does nothing else.               *)
LEMMA EndGrows ==
  ASSUME TypeOK, NEW es,
         es = [i \in DOMAIN decls |->
                 IF Tentative(decls[i]) THEN [decls[i] EXCEPT !.type.size = 1]
                                        ELSE decls[i]]
  PROVE  es \in Seq(DeclSet) /\ Len(es) = Len(decls) /\ Grown(decls, es)
<1>2. decls \in Seq(DeclSet) /\ Len(decls) \in Nat /\ DOMAIN decls = 1..Len(decls)
  BY LenProperties DEF TypeOK
<1>3. ASSUME NEW i \in 1..Len(decls)
      PROVE  es[i] \in DeclSet /\ SameButSize(decls[i], es[i])
  <2>1. decls[i] \in DeclSet /\ decls[i].type \in Types
    <3>1. decls[i] \in DeclSet
      BY <1>2, ElementOfSeq
    <3> QED BY <3>1 DEF DeclSet
  <2>2. CASE Tentative(decls[i])
    <3>1. [decls[i].type EXCEPT !.size = 1] \in Types
      BY <2>1 DEF Types
    <3>2. es[i] = [decls[i] EXCEPT !.type.size = 1]
      BY <1>2, <2>2
    <3> DEFINE t == [decls[i].type EXCEPT !.size = 1]
    <3>3. es[i] = [decls[i] EXCEPT !.type = t]
      BY <2>1, <3>2 DEF DeclSet
    <3>4. /\ t.shape = decls[i].type.shape /\ t.proto = decls[i].type.proto
          /\ t.variadic = decls[i].type.variadic /\ t.params = decls[i].type.params
      BY <2>1 DEF Types
    <3>7. t \in Types
      BY <3>1
    <3> HIDE DEF t
    <3>5. es[i] \in DeclSet
      <4>1. \A d \in DeclSet, y \in Types : [d EXCEPT !.type = y] \in DeclSet
        BY DEF DeclSet
      <4> QED BY <2>1, <3>3, <3>7, <4>1
    <3>6. SameButSize(decls[i], es[i])
      BY <2>1, <3>3, <3>4 DEF DeclSet, SameButSize
    <3> QED BY <3>5, <3>6
  <2>3. CASE ~Tentative(decls[i])
    <3>1. es[i] = decls[i]
      BY <1>2, <2>3
    <3> QED BY <2>1, <3>1 DEF SameButSize
  <2> QED BY <2>2, <2>3
<1>4. es \in Seq(DeclSet) /\ Len(es) = Len(decls)
  <2>1. es \in [1..Len(decls) -> DeclSet]
    BY <1>2, <1>3
  <2>2. es \in Seq(DeclSet)
    BY <1>2, <2>1, SeqDef
  <2> QED BY <1>2, <2>1, <2>2, LenProperties
<1>5. Grown(decls, es)
  <2>1. Len(decls) <= Len(es)
    BY <1>2, <1>4
  <2>2. \A i \in 1..Len(decls) : SameButSize(decls[i], es[i])
    BY <1>3
  <2> QED BY <2>1, <2>2 DEF Grown
<1> QED BY <1>4, <1>5

ScopesStep == /\ DeclsOK(decls)' /\ ScopesOK(decls, scopes, opened)'
              /\ ScopesInvOf(decls, scopes, opened)'

LEMMA ScopesPreserved ==
  ASSUME TypeOK, NestingAgrees, ScopesInv, [Next]_vars
  PROVE  ScopesStep
<1>1. DeclsOK(decls) /\ ScopesOK(decls, scopes, opened) /\ ScopesInvOf(decls, scopes, opened)
  BY TypeParts DEF ScopesInv
<1>2. ASSUME UNCHANGED <<decls, scopes, opened>> PROVE ScopesStep
  BY <1>1, <1>2 DEF ScopesStep
<1>3. ASSUME NEW f \in Forms, NEW global \in BOOLEAN, Len(decls) < MaxDecls,
             Declare(f, global), UNCHANGED opened
      PROVE  ScopesStep
  <2>1. decls' = DeclsAfter(f, global) /\ scopes' = ScopesAfter(f, global)
    BY <1>3 DEF Declare
  <2> QED BY <1>3, <2>1, DeclareKeepsScopes DEF ScopesStep
<1>4. ASSUME PushScope(Unbound), UNCHANGED decls PROVE ScopesStep
  <2>1. <<>> \in Seq(DeclSet) /\ Len(<<>>) = 0 /\ Len(decls) \in Nat
    BY EmptySeq, LenProperties DEF TypeOK
  <2>2. decls \o <<>> = decls
    BY ConcatEmptySeq DEF TypeOK
  <2>3. Len(decls) <= MaxDecls
    BY DEF TypeOK
  <2>4. Unbound \in [Names -> 0..(Len(decls) + 0)] /\ \A n \in Names : Unbound[n] = NoDecl
    BY <2>1 DEF Unbound, NoDecl
  <2>5. /\ DeclsOK(decls \o <<>>)
        /\ ScopesOK(decls \o <<>>, Append(scopes, Unbound), Append(opened, Len(decls)))
        /\ ScopesInvOf(decls \o <<>>, Append(scopes, Unbound), Append(opened, Len(decls)))
    <3> DEFINE ps == <<>>
    <3>1. /\ ps \in Seq(DeclSet) /\ Len(ps) = 0 /\ Len(decls) + Len(ps) <= MaxDecls
          /\ Unbound \in [Names -> 0..(Len(decls) + Len(ps))]
          /\ \A i \in 1..Len(ps) : FALSE
      BY <2>1, <2>3, <2>4, BoundsAssumption
    <3> HIDE DEF ps
    <3> QED BY <1>1, <2>4, <3>1, PushKeepsScopes DEF ps
  <2> QED BY <1>4, <2>2, <2>5 DEF PushScope, ScopesStep
<1>5. ASSUME PopScope, UNCHANGED decls, nest # <<>>,
             Top.kind \in {"body", "block", "header", "for"}
      PROVE  ScopesStep
  <2>1. Len(scopes) >= 2
    BY <1>5, InsideIsDeep
  <2> QED BY <1>1, <1>5, <2>1, PopKeepsScopes DEF PopScope, ScopesStep
<1>6. CASE DeclareAtFileScope
  BY <1>3, <1>6 DEF DeclareAtFileScope
<1>7. CASE DefineFunction
  <2>1. PICK f \in Forms :
          /\ Len(decls) + 1 + Len(f.type.params) <= MaxDecls
          /\ decls' = DeclsAfter(f, TRUE) \o Parameters(f.type)
          /\ scopes' = Append(ScopesAfter(f, TRUE), ParameterScope(f.type))
          /\ opened' = Append(opened, Len(decls) + 1)
    BY <1>7 DEF DefineFunction
  <2> DEFINE ds == DeclsAfter(f, TRUE)
             ss == ScopesAfter(f, TRUE)
             ps == Parameters(f.type)
             b == ParameterScope(f.type)
             L == Len(decls) + 1
             P == Len(f.type.params)
  <2>2. /\ P \in Nat /\ ps \in Seq(DeclSet) /\ Len(ps) = P
        /\ \A i \in 1..P :
             /\ ps[i].depth = Len(scopes) + 1 /\ ps[i].kind = "param"
             /\ ps[i].canonical = L + i
             /\ ps[i].ok => ps[i].name \in Names /\ b[ps[i].name] # NoDecl
        /\ b \in [Names -> 0..(L + P)]
        /\ \A n \in Names : b[n] # NoDecl =>
             /\ b[n] \in (L + 1)..(L + P)
             /\ ps[b[n] - L].ok /\ ps[b[n] - L].name = n
    BY <2>1, ParametersFacts
  <2>3. L \in Nat /\ Len(decls) < MaxDecls /\ MaxDecls \in Nat
    <3>1. Len(decls) \in Nat
      BY LenProperties DEF TypeOK
    <3>2. L + P <= MaxDecls /\ P \in Nat
      BY <2>1, <2>2
    <3> HIDE DEF P
    <3> QED BY <3>1, <3>2, BoundsAssumption
  <2>4. DeclsOK(ds) /\ ScopesOK(ds, ss, opened) /\ ScopesInvOf(ds, ss, opened)
    BY <2>3, DeclareKeepsScopes
  <2>5. Len(ds) = L /\ Len(ss) = Len(scopes)
    BY <2>3, DeclareFacts
  <2>6. L + P <= MaxDecls
    BY <2>1
  <2> HIDE DEF ds, ss, ps, b, P, L
  <2>7. /\ DeclsOK(ds \o ps)
        /\ ScopesOK(ds \o ps, Append(ss, b), Append(opened, Len(ds)))
        /\ ScopesInvOf(ds \o ps, Append(ss, b), Append(opened, Len(ds)))
    <3>1. \A i \in 1..Len(ps) :
            /\ ps[i].depth = Len(ss) + 1 /\ ps[i].kind # "tag"
            /\ ps[i].canonical \in 1..(Len(ds) + Len(ps))
      BY <2>2, <2>3, <2>5
    <3>2. \A n \in Names : b[n] # NoDecl =>
            /\ b[n] > Len(ds)
            /\ ps[b[n] - Len(ds)].ok /\ ps[b[n] - Len(ds)].name = n
      BY <2>2, <2>3, <2>5
    <3>3. /\ ps \in Seq(DeclSet) /\ Len(ds) + Len(ps) <= MaxDecls
          /\ b \in [Names -> 0..(Len(ds) + Len(ps))]
          /\ \A i \in 1..Len(ps) : ps[i].ok => ps[i].name \in Names /\ b[ps[i].name] # NoDecl
      BY <2>2, <2>5, <2>6
    <3> QED BY <2>4, <3>1, <3>2, <3>3, PushKeepsScopes
  <2> QED BY <2>1, <2>5, <2>7 DEF ScopesStep, ds, ss, ps, b, L
<1>8. CASE Statement
  <2>1. CASE DeclareInBlock
    BY <1>3, <2>1 DEF DeclareInBlock
  <2>2. CASE OpenBlock \/ OpenFor
    BY <1>4, <2>2 DEF OpenBlock, OpenFor
  <2>3. CASE CloseBlock \/ CloseFor
    BY <1>5, <2>3 DEF CloseBlock, CloseFor
  <2>4. CASE DeclareForInitializer
    <3>1. PICK f \in Forms :
            IF ForInitializer(f)
            THEN Declare(f, FALSE)
            ELSE errors' = TRUE /\ UNCHANGED <<decls, scopes, definitions, tags>>
      BY <2>4 DEF DeclareForInitializer
    <3>2. UNCHANGED opened /\ Len(decls) < MaxDecls
      BY <2>4 DEF DeclareForInitializer
    <3>3. CASE ForInitializer(f)
      BY <1>3, <3>1, <3>2, <3>3
    <3>4. CASE ~ForInitializer(f)
      BY <1>2, <3>1, <3>2, <3>4
    <3> QED BY <3>3, <3>4
  <2>5. CASE EnterForBody \/ OpenWhile \/ CloseWhile \/ Jump
    BY <1>2, <2>5 DEF EnterForBody, OpenWhile, CloseWhile, Jump
  <2>6. CASE \E n \in Names : Use(n)
    BY <1>2, <2>6 DEF Use
  <2>7. CASE \E n \in Names, args \in 0..MaxArgs, live \in BOOLEAN : Call(n, args, live)
    BY <1>2, <2>7 DEF Call
  <2> QED BY <1>8, <2>1, <2>2, <2>3, <2>4, <2>5, <2>6, <2>7 DEF Statement
<1>9. CASE EndFunction
  BY <1>5, <1>9 DEF EndFunction
<1>10. CASE EndOfUnit
  <2>1. /\ decls' = [i \in DOMAIN decls |->
                       IF Tentative(decls[i]) THEN [decls[i] EXCEPT !.type.size = 1]
                                              ELSE decls[i]]
        /\ UNCHANGED <<scopes, opened>>
    BY <1>10 DEF EndOfUnit
  <2>2. decls' \in Seq(DeclSet) /\ Len(decls') = Len(decls) /\ Grown(decls, decls')
    BY <2>1, EndGrows
  <2>6. /\ DeclsOK(decls') /\ ScopesOK(decls', scopes, opened)
        /\ ScopesInvOf(decls', scopes, opened)
    BY <1>1, <2>2, SizesOnly
  <2> QED BY <2>1, <2>6 DEF ScopesStep
<1>11. CASE UNCHANGED vars
  BY <1>2, <1>11 DEF vars
<1> QED BY <1>6, <1>7, <1>8, <1>9, <1>10, <1>11 DEF Next

-----------------------------------------------------------------------------
(* The nest: how many constructs of some kinds are open.                   *)
FramesOf(s, K) == {k \in DOMAIN s : s[k].kind \in K}
One(k, K) == IF k \in K THEN 1 ELSE 0

LEMMA FramesOfFinite ==
  ASSUME NEW s \in Seq(Frame0), NEW K
  PROVE  IsFiniteSet(FramesOf(s, K)) /\ Cardinality(FramesOf(s, K)) \in Nat
<1>1. Len(s) \in Nat /\ DOMAIN s = 1..Len(s)
  BY LenProperties
<1>2. IsFiniteSet(1..Len(s)) /\ FramesOf(s, K) \subseteq 1..Len(s)
  BY <1>1, FS_Interval DEF FramesOf
<1> QED BY <1>2, FS_Subset, FS_CardinalityType

LEMMA AppendFrame ==
  ASSUME NEW s \in Seq(Frame0), NEW fr \in Frame0, NEW K
  PROVE  /\ Append(s, fr) \in Seq(Frame0)
         /\ Cardinality(FramesOf(Append(s, fr), K))
              = Cardinality(FramesOf(s, K)) + One(fr.kind, K)
<1> DEFINE t == Append(s, fr)
           n == Len(s)
<1>1. n \in Nat /\ DOMAIN s = 1..n
  BY LenProperties
<1>2. /\ t \in Seq(Frame0) /\ Len(t) = n + 1
      /\ \A k \in 1..n : t[k] = s[k]
      /\ t[n + 1] = fr
  BY AppendProperties
<1>3. DOMAIN t = 1..(n + 1)
  BY <1>2, LenProperties
<1> HIDE DEF t, n
<1>4. FramesOf(t, K) = IF fr.kind \in K THEN FramesOf(s, K) \cup {n + 1} ELSE FramesOf(s, K)
  BY <1>1, <1>2, <1>3 DEF FramesOf
<1>5. n + 1 \notin FramesOf(s, K)
  BY <1>1 DEF FramesOf
<1>6. IsFiniteSet(FramesOf(s, K)) /\ Cardinality(FramesOf(s, K)) \in Nat
  BY FramesOfFinite
<1>7. Cardinality(FramesOf(s, K) \cup {n + 1}) = Cardinality(FramesOf(s, K)) + 1
  BY <1>5, <1>6, FS_AddElement
<1> QED BY <1>2, <1>4, <1>6, <1>7 DEF One, t

LEMMA DropFrame ==
  ASSUME NEW s \in Seq(Frame0), s # <<>>, NEW K,
         NEW t, t = SubSeq(s, 1, Len(s) - 1)
  PROVE  /\ t \in Seq(Frame0) /\ Len(t) = Len(s) - 1
         /\ \A k \in 1..Len(t) : t[k] = s[k]
         /\ Cardinality(FramesOf(t, K))
              = Cardinality(FramesOf(s, K)) - One(s[Len(s)].kind, K)
<1> DEFINE n == Len(s)
<1>1. n \in Nat \ {0} /\ DOMAIN s = 1..n
  BY LenProperties, EmptySeq
<1>2. \A k \in 1..(n - 1) : s[k] \in Frame0
  BY <1>1, ElementOfSeq
<1>3. /\ t \in Seq(Frame0) /\ Len(t) = n - 1
      /\ \A k \in 1..(n - 1) : t[k] = s[k]
  BY <1>1, <1>2, SubSeqProperties
<1>4. DOMAIN t = 1..(n - 1)
  BY <1>3, LenProperties
<1>5. FramesOf(t, K) = FramesOf(s, K) \ {n}
  <2> HIDE DEF n
  <2> QED BY <1>1, <1>3, <1>4 DEF FramesOf
<1>6. n \in FramesOf(s, K) <=> s[n].kind \in K
  BY <1>1 DEF FramesOf
<1>7. IsFiniteSet(FramesOf(s, K)) /\ Cardinality(FramesOf(s, K)) \in Nat
  BY FramesOfFinite
<1>8. Cardinality(FramesOf(s, K) \ {n})
        = IF n \in FramesOf(s, K) THEN Cardinality(FramesOf(s, K)) - 1
                                  ELSE Cardinality(FramesOf(s, K))
  BY <1>7, FS_RemoveElement
<1>9. Cardinality(FramesOf(t, K)) = Cardinality(FramesOf(s, K)) - One(s[n].kind, K)
  <2> DEFINE a == Cardinality(FramesOf(s, K))
  <2>1. /\ a \in Nat
        /\ Cardinality(FramesOf(t, K)) = IF n \in FramesOf(s, K) THEN a - 1 ELSE a
    BY <1>5, <1>7, <1>8, Zenon
  <2> HIDE DEF n, a
  <2>2. Cardinality(FramesOf(t, K)) = a - One(s[n].kind, K)
    BY <1>6, <2>1 DEF One
  <2> QED BY <2>2 DEF a
<1> QED BY <1>1, <1>3, <1>9

\* The count when fr has replaced the last frame of s.
Replaced(t, s, fr, K) ==
  Cardinality(FramesOf(t, K))
    = Cardinality(FramesOf(s, K)) - One(s[Len(s)].kind, K) + One(fr.kind, K)

LEMMA ReplaceFrame ==
  ASSUME NEW s \in Seq(Frame0), s # <<>>, NEW fr \in Frame0,
         NEW t, t = [s EXCEPT ![Len(s)] = fr]
  PROVE  /\ t \in Seq(Frame0) /\ Len(t) = Len(s) /\ t # <<>>
         /\ \A k \in 1..Len(s) : t[k] = IF k = Len(s) THEN fr ELSE s[k]
         /\ \A K : Replaced(t, s, fr, K)
<1> DEFINE n == Len(s)
<1>1. n \in Nat \ {0} /\ DOMAIN s = 1..n /\ n \in 1..n
  BY LenProperties, EmptySeq
<1>2. /\ t \in Seq(Frame0) /\ Len(t) = n
      /\ \A k \in 1..n : t[k] = IF k = n THEN fr ELSE s[k]
  BY <1>1, ExceptSeq
<1>3. DOMAIN t = 1..n /\ t # <<>>
  BY <1>1, <1>2, LenProperties, EmptySeq
<1>4. ASSUME NEW K
      PROVE  Replaced(t, s, fr, K)
  <2>1. /\ FramesOf(t, K) \ {n} = FramesOf(s, K) \ {n}
        /\ n \in FramesOf(t, K) <=> fr.kind \in K
        /\ n \in FramesOf(s, K) <=> s[n].kind \in K
    <3> HIDE DEF n
    <3> QED BY <1>1, <1>2, <1>3 DEF FramesOf
  <2>2. \A x \in {s, t} : /\ IsFiniteSet(FramesOf(x, K)) /\ Cardinality(FramesOf(x, K)) \in Nat
                          /\ Cardinality(FramesOf(x, K) \ {n})
                               = IF n \in FramesOf(x, K) THEN Cardinality(FramesOf(x, K)) - 1
                                                         ELSE Cardinality(FramesOf(x, K))
    <3> SUFFICES ASSUME NEW x \in {s, t}
                 PROVE  /\ IsFiniteSet(FramesOf(x, K)) /\ Cardinality(FramesOf(x, K)) \in Nat
                        /\ Cardinality(FramesOf(x, K) \ {n})
                             = IF n \in FramesOf(x, K) THEN Cardinality(FramesOf(x, K)) - 1
                                                       ELSE Cardinality(FramesOf(x, K))
      OBVIOUS
    <3>1. x \in Seq(Frame0)
      BY <1>2
    <3> QED BY <3>1, FramesOfFinite, FS_RemoveElement
  <2>3. Cardinality(FramesOf(t, K))
          = Cardinality(FramesOf(s, K)) - One(s[n].kind, K) + One(fr.kind, K)
    <3> DEFINE a == Cardinality(FramesOf(s, K))
               b == Cardinality(FramesOf(t, K))
    <3>1. /\ a \in Nat /\ b \in Nat
          /\ (IF n \in FramesOf(s, K) THEN a - 1 ELSE a)
               = (IF n \in FramesOf(t, K) THEN b - 1 ELSE b)
      <4> HIDE DEF n
      <4> QED BY <2>1, <2>2
    <3> HIDE DEF n, a, b
    <3>2. b = a - One(s[n].kind, K) + One(fr.kind, K)
      BY <2>1, <3>1 DEF One
    <3> QED BY <3>2 DEF a, b
  <2> QED BY <2>3 DEF Replaced
<1> QED BY <1>2, <1>3, <1>4

Scoped == {"body", "block", "header", "for"}
Loops  == {"for", "while"}

NestStep == /\ nest' \in Seq(Frame0)
            /\ \A k \in 1..Len(nest') : nest'[k].kind = "body" <=> k = 1
            /\ Len(scopes') = 1 + Cardinality(FramesOf(nest', Scoped))
            /\ loopDepth' = Cardinality(FramesOf(nest', Loops))
            /\ function' # NoDecl <=> nest' # <<>>

\* What is known of the nest before a step.
LEMMA NestFacts ==
  ASSUME TypeOK, NestingAgrees, NestShape
  PROVE  /\ nest \in Seq(Frame0) /\ Len(nest) \in Nat /\ Len(scopes) \in Nat
         /\ \A k \in 1..Len(nest) : nest[k].kind = "body" <=> k = 1
         /\ Len(scopes) = 1 + Cardinality(FramesOf(nest, Scoped))
         /\ loopDepth = Cardinality(FramesOf(nest, Loops))
         /\ Cardinality(FramesOf(nest, Scoped)) \in Nat
         /\ Cardinality(FramesOf(nest, Loops)) \in Nat
         /\ function # NoDecl <=> nest # <<>>
         /\ nest # <<>> => /\ Len(nest) \in 1..Len(nest) /\ Top \in Frame0
                           /\ Top = nest[Len(nest)]
<1>1. nest \in Seq(Frame0) /\ Len(nest) \in Nat /\ Len(scopes) \in Nat
  BY LenProperties DEF TypeOK, Frame0
<1>2. \A K : Frames(K) = FramesOf(nest, K)
  BY DEF Frames, FramesOf
<1>3. nest # <<>> => Len(nest) \in 1..Len(nest) /\ Top \in Frame0
  <2>1. nest # <<>> => Len(nest) \in 1..Len(nest)
    BY <1>1, EmptySeq
  <2> QED BY <1>1, <2>1, ElementOfSeq DEF Top
<1>4. /\ Len(scopes) = 1 + Cardinality(FramesOf(nest, Scoped))
      /\ loopDepth = Cardinality(FramesOf(nest, Loops))
      /\ function # NoDecl <=> nest # <<>>
  BY <1>2 DEF NestingAgrees, Scoped, Loops
<1>5. /\ Cardinality(FramesOf(nest, Scoped)) \in Nat
      /\ Cardinality(FramesOf(nest, Loops)) \in Nat
  BY <1>1, FramesOfFinite
<1> QED BY <1>1, <1>3, <1>4, <1>5 DEF NestShape, Top

\* A statement of a loop marks the loop's frame and changes nothing else.
LEMMA TookFacts ==
  ASSUME TypeOK, NestingAgrees, NestShape, nest # <<>>
  PROVE  /\ Took \in Seq(Frame0) /\ Took # <<>> /\ Len(Took) = Len(nest)
         /\ \A k \in 1..Len(nest) : Took[k].kind = nest[k].kind
         /\ \A K : Cardinality(FramesOf(Took, K)) = Cardinality(FramesOf(nest, K))
<1> DEFINE fr == [Top EXCEPT !.taken = TRUE]
<1>1. /\ nest \in Seq(Frame0) /\ Len(nest) \in 1..Len(nest)
      /\ Top \in Frame0 /\ Top = nest[Len(nest)]
  BY NestFacts
<1>2. CASE Top.kind \in {"for", "while"}
  <2>1. Took = [nest EXCEPT ![Len(nest)] = fr]
    <3>2. Took = [nest EXCEPT ![Len(nest)] = [nest[Len(nest)] EXCEPT !.taken = TRUE]]
      BY <1>1, <1>2, LenProperties DEF Took
    <3> QED BY <1>1, <3>2, Zenon
  <2>2. fr \in Frame0 /\ fr.kind = nest[Len(nest)].kind
    <3>1. \A x \in Frame0 : /\ [x EXCEPT !.taken = TRUE] \in Frame0
                              /\ [x EXCEPT !.taken = TRUE].kind = x.kind
      BY DEF Frame0
    <3> QED BY <1>1, <3>1, Zenon
  <2> HIDE DEF fr
  <2>3. /\ Took \in Seq(Frame0) /\ Len(Took) = Len(nest) /\ Took # <<>>
        /\ \A k \in 1..Len(nest) : Took[k] = IF k = Len(nest) THEN fr ELSE nest[k]
    BY <1>1, <2>1, <2>2, ReplaceFrame
  <2>4. ASSUME NEW K
        PROVE  Cardinality(FramesOf(Took, K)) = Cardinality(FramesOf(nest, K))
    <3>1. DOMAIN Took = 1..Len(nest) /\ DOMAIN nest = 1..Len(nest)
      BY <1>1, <2>3, LenProperties
    <3>2. \A k \in 1..Len(nest) : Took[k].kind = nest[k].kind
      BY <2>2, <2>3
    <3>3. FramesOf(Took, K) = FramesOf(nest, K)
      BY <3>1, <3>2 DEF FramesOf
    <3> QED BY <3>3
  <2> QED BY <2>2, <2>3, <2>4
<1>3. CASE Top.kind \notin {"for", "while"}
  BY <1>1, <1>3 DEF Took
<1> QED BY <1>2, <1>3

\* nest' has the right shape, and a and b more scoped constructs and loops.
Nested(a, b) == /\ nest' \in Seq(Frame0)
                /\ \A k \in 1..Len(nest') : nest'[k].kind = "body" <=> k = 1
                /\ Cardinality(FramesOf(nest', Scoped)) = Cardinality(FramesOf(nest, Scoped)) + a
                /\ Cardinality(FramesOf(nest', Loops)) = Cardinality(FramesOf(nest, Loops)) + b

LEMMA NestPreserved ==
  ASSUME TypeOK, NestingAgrees, NestShape, ScopesInv, [Next]_vars
  PROVE  NestStep
<1>1. /\ nest \in Seq(Frame0) /\ Len(nest) \in Nat /\ Len(scopes) \in Nat
      /\ \A k \in 1..Len(nest) : nest[k].kind = "body" <=> k = 1
      /\ Len(scopes) = 1 + Cardinality(FramesOf(nest, Scoped))
      /\ loopDepth = Cardinality(FramesOf(nest, Loops))
      /\ Cardinality(FramesOf(nest, Scoped)) \in Nat
      /\ Cardinality(FramesOf(nest, Loops)) \in Nat
      /\ function # NoDecl <=> nest # <<>>
      /\ nest # <<>> => /\ Len(nest) \in 1..Len(nest) /\ Top \in Frame0
                        /\ Top = nest[Len(nest)]
  BY NestFacts
<1>2. ASSUME nest # <<>>, nest' = Took PROVE Nested(0, 0) /\ nest' # <<>>
  <2>1. /\ nest' \in Seq(Frame0) /\ nest' # <<>> /\ Len(nest') = Len(nest)
        /\ \A k \in 1..Len(nest) : nest'[k].kind = nest[k].kind
        /\ Cardinality(FramesOf(nest', Scoped)) = Cardinality(FramesOf(nest, Scoped))
        /\ Cardinality(FramesOf(nest', Loops)) = Cardinality(FramesOf(nest, Loops))
    BY <1>2, TookFacts
  <2> QED BY <1>1, <2>1 DEF Nested
<1>3. ASSUME nest # <<>>, NEW knd \in {"block", "header", "while"},
             nest' = Append(Took, Frame(knd))
      PROVE  Nested(One(knd, Scoped), One(knd, Loops)) /\ nest' # <<>>
  <2>1. Frame(knd) \in Frame0 /\ Frame(knd).kind = knd
    BY DEF Frame, Frame0
  <2>2. /\ Took \in Seq(Frame0) /\ Took # <<>> /\ Len(Took) = Len(nest)
        /\ \A k \in 1..Len(nest) : Took[k].kind = nest[k].kind
        /\ Cardinality(FramesOf(Took, Scoped)) = Cardinality(FramesOf(nest, Scoped))
        /\ Cardinality(FramesOf(Took, Loops)) = Cardinality(FramesOf(nest, Loops))
    BY <1>3, TookFacts
  <2>3. /\ nest' \in Seq(Frame0)
        /\ Cardinality(FramesOf(nest', Scoped))
             = Cardinality(FramesOf(Took, Scoped)) + One(knd, Scoped)
        /\ Cardinality(FramesOf(nest', Loops))
             = Cardinality(FramesOf(Took, Loops)) + One(knd, Loops)
    BY <1>3, <2>1, <2>2, AppendFrame
  <2>4. /\ Len(nest') = Len(Took) + 1 /\ nest'[Len(Took) + 1] = Frame(knd)
        /\ \A k \in 1..Len(Took) : nest'[k] = Took[k]
    BY <1>3, <2>1, <2>2, AppendProperties
  <2>5. \A k \in 1..Len(nest') : nest'[k].kind = "body" <=> k = 1
    <3>1. Len(nest) >= 1
      BY <1>1, <1>3
    <3> QED BY <1>1, <2>1, <2>2, <2>4, <3>1
  <2>6. nest' # <<>>
    BY <1>1, <2>2, <2>3, <2>4, EmptySeq
  <2> QED BY <2>2, <2>3, <2>5, <2>6 DEF Nested
<1>4. ASSUME nest # <<>>, nest' = SubSeq(nest, 1, Len(nest) - 1)
      PROVE  /\ Nested(- One(Top.kind, Scoped), - One(Top.kind, Loops))
             /\ Top.kind # "body" => nest' # <<>>
  <2>1. /\ nest' \in Seq(Frame0) /\ Len(nest') = Len(nest) - 1
        /\ \A k \in 1..Len(nest') : nest'[k] = nest[k]
        /\ Cardinality(FramesOf(nest', Scoped))
             = Cardinality(FramesOf(nest, Scoped)) - One(Top.kind, Scoped)
        /\ Cardinality(FramesOf(nest', Loops))
             = Cardinality(FramesOf(nest, Loops)) - One(Top.kind, Loops)
    <3> DEFINE t == SubSeq(nest, 1, Len(nest) - 1)
    <3>1. nest \in Seq(Frame0) /\ nest # <<>> /\ nest' = t /\ Top = nest[Len(nest)]
      BY <1>1, <1>4 DEF Top
    <3>2. /\ t \in Seq(Frame0) /\ Len(t) = Len(nest) - 1
          /\ \A k \in 1..Len(t) : t[k] = nest[k]
          /\ Cardinality(FramesOf(t, Scoped))
               = Cardinality(FramesOf(nest, Scoped)) - One(nest[Len(nest)].kind, Scoped)
      BY <3>1, DropFrame
    <3>3. Cardinality(FramesOf(t, Loops))
            = Cardinality(FramesOf(nest, Loops)) - One(nest[Len(nest)].kind, Loops)
      BY <3>1, DropFrame
    <3> HIDE DEF t
    <3> QED BY <3>1, <3>2, <3>3
  <2>2. Top.kind # "body" => nest' # <<>>
    <3>1. Top.kind # "body" => Len(nest) # 1
      BY <1>1, <1>4
    <3>2. Len(<<>>) = 0 /\ Len(nest) \in Nat
      BY <1>1, EmptySeq
    <3>3. Len(nest') = Len(nest) - 1
      BY <2>1
    <3>4. Top.kind # "body" => Len(nest') # 0
      BY <3>1, <3>2, <3>3
    <3> QED BY <3>2, <3>4, Zenon
  <2>3. \A k \in 1..Len(nest') : nest'[k].kind = "body" <=> k = 1
    BY <1>1, <1>4, <2>1
  <2>4. One(Top.kind, Scoped) \in Nat /\ One(Top.kind, Loops) \in Nat
    BY DEF One
  <2> QED BY <1>1, <2>1, <2>2, <2>3, <2>4 DEF Nested
<1>18. ASSUME nest # <<>>, Top.kind = "header",
              NEW knd \in {"header", "for"}, NEW fr \in Frame0, fr.kind = knd,
              nest' = [nest EXCEPT ![Len(nest)] = fr]
       PROVE  /\ Nested(One(knd, Scoped) - One("header", Scoped),
                        One(knd, Loops) - One("header", Loops))
              /\ nest' # <<>>
  <2>1. fr \in Frame0 /\ fr.kind = knd
    BY <1>18
  <2>2. /\ nest' \in Seq(Frame0) /\ Len(nest') = Len(nest) /\ nest' # <<>>
        /\ \A k \in 1..Len(nest) : nest'[k] = IF k = Len(nest) THEN fr ELSE nest[k]
        /\ Cardinality(FramesOf(nest', Scoped))
             = Cardinality(FramesOf(nest, Scoped)) - One(nest[Len(nest)].kind, Scoped)
                 + One(fr.kind, Scoped)
        /\ Cardinality(FramesOf(nest', Loops))
             = Cardinality(FramesOf(nest, Loops)) - One(nest[Len(nest)].kind, Loops)
                 + One(fr.kind, Loops)
    <3>1. nest' = [nest EXCEPT ![Len(nest)] = fr]
      BY <1>18
    <3>2. nest \in Seq(Frame0) /\ nest # <<>>
      BY <1>1, <1>18
    <3>3. /\ nest' \in Seq(Frame0) /\ Len(nest') = Len(nest) /\ nest' # <<>>
          /\ \A k \in 1..Len(nest) : nest'[k] = IF k = Len(nest) THEN fr ELSE nest[k]
      BY <2>1, <3>1, <3>2, ReplaceFrame
    <3>4. Replaced(nest', nest, fr, Scoped) /\ Replaced(nest', nest, fr, Loops)
      BY <2>1, <3>1, <3>2, ReplaceFrame
    <3> QED BY <3>3, <3>4 DEF Replaced
  <2>3. \A k, K : One(k, K) \in Nat
    BY DEF One
  <2>4. \A k \in 1..Len(nest') : nest'[k].kind = "body" <=> k = 1
    <3>1. /\ \A k \in 1..Len(nest) : nest[k].kind = "body" <=> k = 1
          /\ Len(nest) \in 1..Len(nest) /\ nest[Len(nest)].kind = "header"
      BY <1>1, <1>18
    <3>2. fr.kind # "body"
      BY <2>1
    <3>3. /\ Len(nest') = Len(nest)
          /\ \A k \in 1..Len(nest) : nest'[k] = IF k = Len(nest) THEN fr ELSE nest[k]
      BY <2>2
    <3> QED BY <3>1, <3>2, <3>3
  <2>5. nest[Len(nest)].kind = "header" /\ fr.kind = knd
    BY <1>1, <1>18, <2>1
  <2> DEFINE cs == Cardinality(FramesOf(nest, Scoped))
             cl == Cardinality(FramesOf(nest, Loops))
  <2>6. /\ cs \in Nat /\ cl \in Nat
        /\ Cardinality(FramesOf(nest', Scoped)) = cs - One("header", Scoped) + One(knd, Scoped)
        /\ Cardinality(FramesOf(nest', Loops)) = cl - One("header", Loops) + One(knd, Loops)
    BY <1>1, <2>2, <2>5
  <2> HIDE DEF cs, cl
  <2>7. /\ Cardinality(FramesOf(nest', Scoped)) = cs + (One(knd, Scoped) - One("header", Scoped))
        /\ Cardinality(FramesOf(nest', Loops)) = cl + (One(knd, Loops) - One("header", Loops))
    BY <2>3, <2>6
  <2> QED BY <2>2, <2>4, <2>7 DEF Nested, cs, cl
<1>5. ASSUME NEW a \in Int, NEW b \in Int, Nested(a, b),
             Len(scopes') = Len(scopes) + a, loopDepth' = loopDepth + b,
             function' # NoDecl <=> nest' # <<>>
      PROVE  NestStep
  <2> DEFINE cs == Cardinality(FramesOf(nest, Scoped))
             cl == Cardinality(FramesOf(nest, Loops))
  <2>1. /\ cs \in Nat /\ cl \in Nat /\ Len(scopes) = 1 + cs /\ loopDepth = cl
        /\ Cardinality(FramesOf(nest', Scoped)) = cs + a
        /\ Cardinality(FramesOf(nest', Loops)) = cl + b
    BY <1>1, <1>5 DEF Nested
  <2> HIDE DEF cs, cl
  <2>2. /\ Len(scopes') = 1 + Cardinality(FramesOf(nest', Scoped))
        /\ loopDepth' = Cardinality(FramesOf(nest', Loops))
    BY <1>5, <2>1
  <2> QED BY <1>5, <2>2 DEF NestStep, Nested
<1>19. ASSUME NEW a \in Int, NEW b \in Int, Nested(a, b), nest # <<>>, nest' # <<>>,
              Len(scopes') = Len(scopes) + a, loopDepth' = loopDepth + b,
              UNCHANGED function
       PROVE  NestStep
  <2>1. function' # NoDecl <=> nest' # <<>>
    BY <1>1, <1>19
  <2> QED BY <1>5, <1>19, <2>1
<1>6. ASSUME nest # <<>>, nest' = Took, Len(scopes') = Len(scopes),
             UNCHANGED <<loopDepth, function>>
      PROVE  NestStep
  <2>1. Nested(0, 0) /\ nest' # <<>>
    BY <1>2, <1>6
  <2>2. Len(scopes') = Len(scopes) + 0 /\ loopDepth' = loopDepth + 0
    BY <1>1, <1>6
  <2> QED BY <1>6, <1>19, <2>1, <2>2
<1>7. ASSUME UNCHANGED <<nest, loopDepth, function>>, Len(scopes') = Len(scopes)
      PROVE  NestStep
  BY <1>1, <1>7 DEF NestStep
<1>8. ASSUME NEW f \in Forms, NEW global \in BOOLEAN, Len(decls) < MaxDecls,
             Declare(f, global)
      PROVE  Len(scopes') = Len(scopes)
  <2>1. scopes' = ScopesAfter(f, global)
    BY <1>8 DEF Declare
  <2>2. Len(ScopesAfter(f, global)) = Len(scopes)
    BY <1>8, DeclareFacts
  <2> QED BY <2>1, <2>2
<1>9. ASSUME PushScope(Unbound) PROVE Len(scopes') = Len(scopes) + 1
  <2>1. Unbound \in [Names -> 0..Len(decls)]
    <3>1. Len(decls) \in Nat
      BY LenProperties DEF TypeOK
    <3> QED BY <3>1 DEF Unbound, NoDecl
  <2>2. scopes \in Seq([Names -> 0..Len(decls)])
    BY DEF TypeOK
  <2> QED BY <1>9, <2>1, <2>2, AppendProperties DEF PushScope
<1>10. ASSUME PopScope, nest # <<>>, Top.kind \in Scoped
       PROVE  Len(scopes') = Len(scopes) - 1
  <2>1. Len(scopes) >= 2
    BY <1>10, InsideIsDeep DEF Scoped
  <2>2. scopes \in Seq([Names -> 0..Len(decls)])
    BY DEF TypeOK
  <2>3. \A k \in 1..(Len(scopes) - 1) : scopes[k] \in [Names -> 0..Len(decls)]
    BY <1>1, <2>2, ElementOfSeq
  <2> QED BY <1>1, <1>10, <2>1, <2>3, SubSeqProperties DEF PopScope
<1>11. /\ One("block", Scoped) = 1 /\ One("block", Loops) = 0
       /\ One("header", Scoped) = 1 /\ One("header", Loops) = 0
       /\ One("while", Scoped) = 0 /\ One("while", Loops) = 1
       /\ One("for", Scoped) = 1 /\ One("for", Loops) = 1
       /\ One("body", Scoped) = 1 /\ One("body", Loops) = 0
  BY DEF One, Scoped, Loops
<1>20. /\ loopDepth + 0 = loopDepth /\ Len(scopes) + 0 = Len(scopes)
       /\ loopDepth + -1 = loopDepth - 1 /\ Len(scopes) + -1 = Len(scopes) - 1
       /\ -1 \in Int /\ 0 \in Int /\ 1 \in Int
  BY <1>1
<1>12. CASE DeclareAtFileScope
  BY <1>7, <1>8, <1>12 DEF DeclareAtFileScope
<1>13. CASE DefineFunction
  <2>1. PICK f \in Forms :
          /\ Len(decls) + 1 + Len(f.type.params) <= MaxDecls
          /\ scopes' = Append(ScopesAfter(f, TRUE), ParameterScope(f.type))
    BY <1>13 DEF DefineFunction
  <2>2. nest = <<>> /\ nest' = <<Frame("body")>> /\ function' = Len(decls) + 1 /\ loopDepth' = 0
    BY <1>13 DEF DefineFunction
  <2> DEFINE L == Len(decls)
             P == Len(f.type.params)
             N == Len(decls) + 1 + Len(f.type.params)
  <2>3. /\ L \in Nat /\ P \in Nat /\ N = L + 1 + P /\ L < MaxDecls
        /\ 0..(L + 1) \subseteq 0..N
    <3>1. L \in Nat
      BY LenProperties DEF TypeOK
    <3>2. P \in Nat
      BY <2>1, ParametersFacts
    <3>3. N = L + 1 + P /\ N <= MaxDecls
      BY <2>1
    <3> HIDE DEF L, P, N
    <3> QED BY <3>1, <3>2, <3>3, BoundsAssumption
  <2>4. Len(scopes') = Len(scopes) + 1
    <3>1. ParameterScope(f.type) \in [Names -> 0..N]
      BY <2>1, ParametersFacts
    <3>2. /\ ScopesAfter(f, TRUE) \in Seq([Names -> 0..(L + 1)])
          /\ Len(ScopesAfter(f, TRUE)) = Len(scopes)
      BY <2>3, DeclareFacts
    <3> DEFINE S == [Names -> 0..(L + 1)]
               T == [Names -> 0..N]
               ss == ScopesAfter(f, TRUE)
               b == ParameterScope(f.type)
    <3> HIDE DEF L, P, N, ss, b
    <3>3. S \subseteq T
      BY <2>3
    <3>4. ss \in Seq(S) /\ b \in T
      BY <3>1, <3>2 DEF ss, b
    <3> HIDE DEF S, T
    <3>5. ss \in Seq(T)
      BY <3>3, <3>4, SeqMonotonic
    <3>6. Len(Append(ss, b)) = Len(ss) + 1
      BY <3>4, <3>5, AppendProperties
    <3> QED BY <2>1, <3>2, <3>6 DEF ss, b
  <2>5. FramesOf(nest, Scoped) = {} /\ FramesOf(nest, Loops) = {}
    BY <2>2 DEF FramesOf
  <2>6. /\ FramesOf(nest', Scoped) = {1} /\ FramesOf(nest', Loops) = {}
        /\ nest' \in Seq(Frame0) /\ Len(nest') = 1 /\ nest'[1].kind = "body"
    BY <2>2 DEF FramesOf, Frame, Frame0, Scoped, Loops
  <2>7. Len(scopes) = 1
    BY <1>1, <2>5, FS_EmptySet
  <2>8. Cardinality({1}) = 1 /\ Cardinality({}) = 0
    BY FS_EmptySet, FS_Singleton
  <2>9. function' # NoDecl /\ nest' # <<>>
    <3>1. L + 1 # NoDecl
      <4> HIDE DEF L
      <4> QED BY <2>3 DEF NoDecl
    <3> QED BY <2>2, <3>1
  <2>10. \A k \in 1..Len(nest') : nest'[k].kind = "body" <=> k = 1
    BY <2>6
  <2>11. Len(scopes') = 1 + 1 /\ loopDepth' = 0
    BY <2>2, <2>4, <2>7
  <2> HIDE DEF L, P, N
  <2> QED BY <2>6, <2>8, <2>9, <2>10, <2>11 DEF NestStep
<1>14. CASE Statement
  <2>1. CASE DeclareInBlock
    BY <1>7, <1>8, <2>1 DEF DeclareInBlock
  <2>2. CASE OpenBlock
    <3>1. /\ nest # <<>> /\ PushScope(Unbound) /\ nest' = Append(Took, Frame("block"))
          /\ UNCHANGED <<function, loopDepth>>
      BY <2>2 DEF OpenBlock, CanStart, CanTake
    <3>2. Nested(1, 0) /\ nest' # <<>>
      BY <1>3, <1>11, <3>1
    <3>3. Len(scopes') = Len(scopes) + 1
      BY <1>9, <3>1
    <3> QED BY <1>19, <1>20, <3>1, <3>2, <3>3
  <2>3. CASE OpenFor
    <3>1. /\ nest # <<>> /\ PushScope(Unbound) /\ nest' = Append(Took, Frame("header"))
          /\ UNCHANGED <<function, loopDepth>>
      BY <2>3 DEF OpenFor, CanStart, CanTake
    <3>2. Nested(1, 0) /\ nest' # <<>>
      BY <1>3, <1>11, <3>1
    <3>3. Len(scopes') = Len(scopes) + 1
      BY <1>9, <3>1
    <3> QED BY <1>19, <1>20, <3>1, <3>2, <3>3
  <2>4. CASE OpenWhile
    <3>1. /\ nest # <<>> /\ nest' = Append(Took, Frame("while"))
          /\ loopDepth' = loopDepth + 1
          /\ UNCHANGED <<function, scopes>>
      BY <2>4 DEF OpenWhile, CanStart, CanTake
    <3>2. Nested(0, 1) /\ nest' # <<>>
      BY <1>3, <1>11, <3>1
    <3>3. Len(scopes') = Len(scopes) + 0
      BY <1>1, <3>1
    <3> QED BY <1>19, <1>20, <3>1, <3>2, <3>3
  <2>5. CASE CloseBlock
    <3>1. /\ nest # <<>> /\ Top.kind = "block" /\ PopScope
          /\ nest' = SubSeq(nest, 1, Len(nest) - 1)
          /\ UNCHANGED <<function, loopDepth>>
      BY <2>5 DEF CloseBlock
    <3>2. Len(scopes') = Len(scopes) - 1
      BY <1>10, <3>1 DEF Scoped
    <3>3. Nested(-1, 0) /\ nest' # <<>>
      BY <1>4, <1>11, <3>1
    <3> QED BY <1>19, <1>20, <3>1, <3>2, <3>3
  <2>6. CASE CloseFor
    <3>1. /\ nest # <<>> /\ Top.kind = "for" /\ PopScope
          /\ nest' = SubSeq(nest, 1, Len(nest) - 1)
          /\ loopDepth' = loopDepth - 1
          /\ UNCHANGED function
      BY <2>6 DEF CloseFor, LeaveLoop
    <3>2. Len(scopes') = Len(scopes) - 1
      BY <1>10, <3>1 DEF Scoped
    <3>3. Nested(-1, -1) /\ nest' # <<>>
      BY <1>4, <1>11, <3>1
    <3> QED BY <1>19, <1>20, <3>1, <3>2, <3>3
  <2>7. CASE CloseWhile
    <3>1. /\ nest # <<>> /\ Top.kind = "while"
          /\ nest' = SubSeq(nest, 1, Len(nest) - 1)
          /\ loopDepth' = loopDepth - 1
          /\ UNCHANGED <<function, scopes>>
      BY <2>7 DEF CloseWhile, LeaveLoop
    <3>2. Len(scopes') = Len(scopes) + 0
      BY <1>1, <3>1
    <3>3. Nested(0, -1) /\ nest' # <<>>
      BY <1>4, <1>11, <3>1
    <3> QED BY <1>19, <1>20, <3>1, <3>2, <3>3
  <2>8. CASE DeclareForInitializer
    <3>1. /\ nest # <<>> /\ Top = Frame("header") /\ Len(decls) < MaxDecls
          /\ nest' = [nest EXCEPT ![Len(nest)].taken = TRUE]
          /\ UNCHANGED <<function, loopDepth>>
      BY <2>8 DEF DeclareForInitializer
    <3>2. Len(scopes') = Len(scopes)
      <4>1. PICK f \in Forms :
              IF ForInitializer(f)
              THEN Declare(f, FALSE)
              ELSE errors' = TRUE /\ UNCHANGED <<decls, scopes, definitions, tags>>
        BY <2>8 DEF DeclareForInitializer
      <4> QED BY <1>8, <3>1, <4>1
    <3> DEFINE fr == [Top EXCEPT !.taken = TRUE]
    <3>3. nest' = [nest EXCEPT ![Len(nest)] = fr] /\ fr \in Frame0 /\ fr.kind = "header"
      <4>1. \A x \in Frame0 : /\ [x EXCEPT !.taken = TRUE] \in Frame0
                              /\ [x EXCEPT !.taken = TRUE].kind = x.kind
        BY DEF Frame0
      <4>2. Top \in Frame0 /\ Top.kind = "header" /\ Top = nest[Len(nest)]
        BY <1>1, <3>1 DEF Frame
      <4>3. nest' = [nest EXCEPT ![Len(nest)] = [nest[Len(nest)] EXCEPT !.taken = TRUE]]
        BY <1>1, <3>1, LenProperties
      <4>4. fr \in Frame0 /\ fr.kind = Top.kind
        BY <4>1, <4>2, Zenon
      <4> QED BY <4>2, <4>3, <4>4, Zenon
    <3> HIDE DEF fr
    <3>4. Nested(0, 0) /\ nest' # <<>>
      <4>1. Top.kind = "header"
        BY <3>1 DEF Frame
      <4>2. 1 - 1 = 0 /\ 0 - 0 = 0
        OBVIOUS
      <4> QED BY <1>11, <1>18, <3>1, <3>3, <4>1, <4>2
    <3> QED BY <1>19, <1>20, <3>1, <3>2, <3>4
  <2>9. CASE EnterForBody
    <3>1. /\ nest # <<>> /\ Top.kind = "header"
          /\ nest' = [nest EXCEPT ![Len(nest)] = Frame("for")]
          /\ loopDepth' = loopDepth + 1 /\ UNCHANGED <<function, scopes>>
      BY <2>9 DEF EnterForBody
    <3>2. Nested(0, 1) /\ nest' # <<>>
      <4>1. Frame("for") \in Frame0 /\ Frame("for").kind = "for"
        BY DEF Frame, Frame0
      <4>2. 1 - 1 = 0 /\ 1 - 0 = 1
        OBVIOUS
      <4> QED BY <1>11, <1>18, <3>1, <4>1, <4>2
    <3> QED BY <1>19, <1>20, <3>1, <3>2
  <2>10. CASE Jump
    <3>1. nest # <<>> /\ nest' = Took /\ UNCHANGED <<scopes, loopDepth, function>>
      BY <2>10 DEF Jump, CanStart, CanTake
    <3> QED BY <1>6, <3>1
  <2>11. CASE \E n \in Names : Use(n)
    <3>1. nest # <<>> /\ nest' = Took /\ UNCHANGED <<scopes, loopDepth, function>>
      BY <2>11 DEF Use, CanTake
    <3> QED BY <1>6, <3>1
  <2>12. CASE \E n \in Names, args \in 0..MaxArgs, live \in BOOLEAN : Call(n, args, live)
    <3>1. nest # <<>> /\ nest' = Took /\ UNCHANGED <<scopes, loopDepth, function>>
      BY <2>12 DEF Call, CanTake
    <3> QED BY <1>6, <3>1
  <2> QED BY <1>14, <2>1, <2>2, <2>3, <2>4, <2>5, <2>6, <2>7, <2>8, <2>9,
             <2>10, <2>11, <2>12 DEF Statement
<1>15. CASE EndFunction
  <2>1. nest # <<>> /\ Top.kind = "body" /\ PopScope /\ nest' = <<>>
        /\ function' = NoDecl /\ UNCHANGED loopDepth
    BY <1>15 DEF EndFunction
  <2>2. Len(scopes') = Len(scopes) - 1
    BY <1>10, <2>1 DEF Scoped
  <2>3. Len(nest) = 1
    BY <1>1, <2>1
  <2>4. DOMAIN nest = {1} /\ nest[1].kind = "body"
    BY <1>1, <2>1, <2>3, LenProperties
  <2>5. FramesOf(nest, Scoped) = {1} /\ FramesOf(nest, Loops) = {}
    BY <2>4 DEF FramesOf, Scoped, Loops
  <2>6. FramesOf(nest', Scoped) = {} /\ FramesOf(nest', Loops) = {}
    BY <2>1 DEF FramesOf
  <2>7. Cardinality({1}) = 1 /\ Cardinality({}) = 0
    BY FS_EmptySet, FS_Singleton
  <2>8. nest' \in Seq(Frame0) /\ Len(nest') = 0
    BY <2>1, EmptySeq
  <2>9. Len(scopes) = 2 /\ loopDepth = 0
    BY <1>1, <2>5, <2>7
  <2>10. Len(scopes') = 1 + 0 /\ loopDepth' = 0
    BY <2>1, <2>2, <2>9
  <2>11. \A k \in 1..Len(nest') : FALSE
    BY <2>8
  <2> QED BY <2>1, <2>6, <2>7, <2>8, <2>10, <2>11 DEF NestStep
<1>16. CASE EndOfUnit
  BY <1>7, <1>16 DEF EndOfUnit
<1>17. CASE UNCHANGED vars
  BY <1>7, <1>17 DEF vars
<1> QED BY <1>12, <1>13, <1>14, <1>15, <1>16, <1>17 DEF Next

-----------------------------------------------------------------------------
(* Lookup finds the innermost scope that binds the name.                   *)
LEMMA LookupFacts ==
  ASSUME TypeOK, NEW n \in Names
  PROVE  /\ Lookup(n) \in 0..Len(decls)
         /\ \/ /\ Lookup(n) = NoDecl
               /\ \A k \in 1..Len(scopes) : scopes[k][n] = NoDecl
            \/ \E k \in 1..Len(scopes) :
                 /\ Lookup(n) = scopes[k][n] /\ scopes[k][n] # NoDecl
                 /\ \A j \in 1..Len(scopes) : scopes[j][n] # NoDecl => j <= k
<1> DEFINE bound == {k \in DOMAIN scopes : scopes[k][n] # NoDecl}
<1>1. /\ Len(scopes) \in Nat /\ DOMAIN scopes = 1..Len(scopes) /\ Len(decls) \in Nat
      /\ \A k \in 1..Len(scopes) : scopes[k] \in [Names -> 0..Len(decls)]
  <2>1. scopes \in Seq([Names -> 0..Len(decls)])
    BY DEF TypeOK
  <2>2. Len(decls) \in Nat
    BY LenProperties DEF TypeOK
  <2> QED BY <2>1, <2>2, LenProperties, ElementOfSeq
<1>2. CASE bound = {}
  <2>1. Lookup(n) = NoDecl
    BY <1>2 DEF Lookup
  <2> QED BY <1>1, <1>2, <2>1 DEF NoDecl
<1>3. CASE bound # {}
  <2> DEFINE top == CHOOSE k \in bound : \A j \in bound : j <= k
  <2>1. \E k \in bound : \A j \in bound : j <= k
    BY <1>1, <1>3, Maximum
  <2>2. top \in bound /\ \A j \in bound : j <= top
    BY <2>1
  <2>3. Lookup(n) = scopes[top][n]
    BY <1>3 DEF Lookup
  <2>4. top \in 1..Len(scopes) /\ scopes[top][n] # NoDecl
    BY <1>1, <2>2
  <2>5. \A j \in 1..Len(scopes) : scopes[j][n] # NoDecl => j <= top
    BY <1>1, <2>2
  <2> HIDE DEF top, bound
  <2> QED BY <1>1, <2>3, <2>4, <2>5
<1> QED BY <1>2, <1>3

\* What the scopes hold makes lookup find a visible declaration.
LEMMA ScopesMakeVisible ==
  ASSUME TypeOK, ScopesInv
  PROVE  LookupIsVisible
<1> SUFFICES ASSUME NEW n \in Names
             PROVE  IF InScope(n) = {} THEN Lookup(n) = NoDecl
                    ELSE /\ Lookup(n) \in InScope(n)
                         /\ \A i \in InScope(n) : decls[i].depth <= decls[Lookup(n)].depth
  BY DEF LookupIsVisible
<1>1. /\ Len(scopes) \in Nat /\ Len(decls) \in Nat /\ DOMAIN decls = 1..Len(decls)
      /\ \A i \in 1..Len(decls) : decls[i].depth \in Nat
      /\ \A k \in 1..Len(scopes) : \A m \in Names : Binding(decls, scopes, opened, k, m)
      /\ \A i \in 1..Len(decls) : Visible(decls, scopes, opened, i) /\ decls[i].depth >= 1
  <2>1. \A i \in 1..Len(decls) : decls[i] \in DeclSet
    BY ElementOfSeq DEF TypeOK
  <2>2. \A i \in 1..Len(decls) : decls[i].depth \in Nat
    BY <2>1 DEF DeclSet
  <2> QED BY <2>2, LenProperties DEF TypeOK, ScopesInv, ScopesInvOf
<1>2. ASSUME NEW i \in InScope(n)
      PROVE  decls[i].depth \in 1..Len(scopes) /\ scopes[decls[i].depth][n] # NoDecl
  <2>1. /\ i \in 1..Len(decls) /\ decls[i].ok /\ decls[i].kind # "tag"
        /\ decls[i].name = n /\ decls[i].depth <= Len(scopes)
        /\ i > opened[decls[i].depth]
    BY <1>1 DEF InScope
  <2>2. decls[i].depth \in 1..Len(scopes)
    BY <1>1, <2>1
  <2>3. Visible(decls, scopes, opened, i)
    BY <1>1, <2>1
  <2> QED BY <2>1, <2>2, <2>3 DEF Visible
<1>3. CASE \A k \in 1..Len(scopes) : scopes[k][n] = NoDecl
  <2>1. Lookup(n) = NoDecl
    BY <1>3, LookupFacts
  <2>2. InScope(n) = {}
    BY <1>2, <1>3
  <2> QED BY <2>1, <2>2
<1>4. CASE ~ \A k \in 1..Len(scopes) : scopes[k][n] = NoDecl
  <2>1. PICK k \in 1..Len(scopes) :
          /\ Lookup(n) = scopes[k][n] /\ scopes[k][n] # NoDecl
          /\ \A j \in 1..Len(scopes) : scopes[j][n] # NoDecl => j <= k
    BY <1>4, LookupFacts
  <2>2. Lookup(n) \in 1..Len(decls)
    <3>1. Lookup(n) \in 0..Len(decls) /\ Lookup(n) # NoDecl
      BY <2>1, LookupFacts
    <3> QED BY <1>1, <3>1 DEF NoDecl
  <2>3. /\ decls[Lookup(n)].ok /\ decls[Lookup(n)].kind # "tag"
        /\ decls[Lookup(n)].name = n /\ decls[Lookup(n)].depth = k
        /\ Lookup(n) > opened[k]
    BY <1>1, <2>1 DEF Binding
  <2>4. Lookup(n) \in InScope(n)
    BY <1>1, <2>2, <2>3 DEF InScope
  <2>5. \A i \in InScope(n) : decls[i].depth <= decls[Lookup(n)].depth
    BY <1>2, <2>1, <2>3
  <2> QED BY <2>4, <2>5
<1> QED BY <1>3, <1>4

CallSet(n) == [fn : 1..n, decl : 1..n, args : 0..MaxArgs, live : BOOLEAN]

\* The other variables keep their types.
LEMMA TypePreserved ==
  ASSUME Inv, [Next]_vars, ScopesStep, NestStep
  PROVE  TypeOK'
<1> USE DEF Inv
<1>1. /\ Len(decls) \in Nat /\ Len(decls') \in Nat /\ MaxDecls \in Nat
      /\ decls \in Seq(DeclSet) /\ decls' \in Seq(DeclSet)
  BY LenProperties, BoundsAssumption DEF TypeOK, ScopesStep, DeclsOK
<1>2. ASSUME Len(decls') >= Len(decls),
             tags' \in [Names -> Tagged \union {"none"}],
             definitions' \in [1..MaxDecls -> 0..Len(decls')],
             function' \in 0..Len(decls'),
             errors' \in BOOLEAN,
             calls' \in Seq(CallSet(Len(decls'))),
             phase' \in {"analyze", "analyzed"}
      PROVE  TypeOK'
  <2>1. DOMAIN decls' = 1..Len(decls')
    BY <1>1, LenProperties
  <2>2. loopDepth' \in Int
    BY FramesOfFinite DEF NestStep
  <2>3. /\ decls' \in Seq(DeclSet) /\ Len(decls') <= MaxDecls
        /\ \A i \in 1..Len(decls') : /\ decls'[i].canonical \in 0..Len(decls')
                                     /\ decls'[i].ok => decls'[i].canonical # NoDecl
    BY DEF ScopesStep, DeclsOK
  <2>4. /\ scopes' \in Seq([Names -> 0..Len(decls')]) /\ scopes' # <<>>
        /\ opened' \in Seq(0..Len(decls')) /\ Len(opened') = Len(scopes')
    BY DEF ScopesStep, ScopesOK
  <2>5. nest' \in Seq(Frame0)
    BY DEF NestStep
  <2> QED BY <1>2, <2>1, <2>2, <2>3, <2>4, <2>5 DEF TypeOK, Frame0, CallSet
<1>3. /\ tags \in [Names -> Tagged \union {"none"}]
      /\ definitions \in [1..MaxDecls -> 0..Len(decls)]
      /\ function \in 0..Len(decls) /\ errors \in BOOLEAN
      /\ calls \in Seq(CallSet(Len(decls)))
      /\ phase \in {"analyze", "analyzed"}
  BY DEF TypeOK, CallSet
<1>4. ASSUME Len(decls') >= Len(decls), UNCHANGED calls
      PROVE  calls' \in Seq(CallSet(Len(decls')))
  <2>1. 1..Len(decls) \subseteq 1..Len(decls')
    BY <1>1, <1>4
  <2>2. CallSet(Len(decls)) \subseteq CallSet(Len(decls'))
    BY <2>1 DEF CallSet
  <2> QED BY <1>3, <1>4, <2>2, SeqMonotonic
<1>5. ASSUME Len(decls') >= Len(decls)
      PROVE  /\ UNCHANGED definitions => definitions' \in [1..MaxDecls -> 0..Len(decls')]
             /\ UNCHANGED function => function' \in 0..Len(decls')
  <2>1. 0..Len(decls) \subseteq 0..Len(decls')
    BY <1>1, <1>5
  <2> QED BY <1>3, <2>1
<1>6. ASSUME NEW f \in Forms, NEW global \in BOOLEAN, Len(decls) < MaxDecls,
             Declare(f, global)
      PROVE  /\ Len(decls') = Len(decls) + 1
             /\ tags' \in [Names -> Tagged \union {"none"}]
             /\ definitions' \in [1..MaxDecls -> 0..Len(decls')]
             /\ errors' \in BOOLEAN
  <2>1. /\ Len(DeclsAfter(f, global)) = Len(decls) + 1
        /\ DefinitionsAfter(f, global) \in [1..MaxDecls -> 0..(Len(decls) + 1)]
    BY <1>6, DeclareFacts
  <2>2. TagsWith(f.type) \in [Names -> Tagged \union {"none"}]
    BY NormalizedFacts
  <2>3. (errors \/ TagClash(f.type) \/ ~Accepts(f, global)) \in BOOLEAN
    BY DEF Accepts
  <2> QED BY <1>6, <2>1, <2>2, <2>3 DEF Declare
<1>7. ASSUME UNCHANGED <<decls, tags, definitions, phase>>,
             function' \in {function, NoDecl}, errors' \in BOOLEAN,
             calls' \in Seq(CallSet(Len(decls)))
      PROVE  TypeOK'
  <2>1. Len(decls') = Len(decls) /\ NoDecl \in 0..Len(decls)
    BY <1>1, <1>7 DEF NoDecl
  <2>2. function' \in 0..Len(decls')
    BY <1>3, <1>7, <2>1
  <2> QED BY <1>1, <1>2, <1>3, <1>7, <2>1, <2>2
<1>8. ASSUME NEW f \in Forms, NEW global \in BOOLEAN, Len(decls) < MaxDecls,
             Declare(f, global), UNCHANGED <<function, calls, phase>>
      PROVE  TypeOK'
  <2>1. Len(decls') >= Len(decls)
    BY <1>1, <1>6, <1>8
  <2> QED BY <1>2, <1>3, <1>4, <1>5, <1>6, <1>8, <2>1
<1>9. CASE DeclareAtFileScope
  BY <1>8, <1>9 DEF DeclareAtFileScope
<1>10. CASE DefineFunction
  <2>1. PICK f \in Forms :
          /\ Len(decls) + 1 + Len(f.type.params) <= MaxDecls
          /\ decls' = DeclsAfter(f, TRUE) \o Parameters(f.type)
          /\ definitions' = DefinitionsAfter(f, TRUE)
          /\ tags' = TagsWith(f.type)
          /\ errors' = (errors \/ \E i \in DOMAIN f.type.params :
                                     ~Declarable(f.type.params[i]))
    BY <1>10 DEF DefineFunction
  <2>2. /\ function' = Len(decls) + 1 /\ UNCHANGED <<calls, phase>>
    BY <1>10 DEF DefineFunction
  <2> DEFINE ps == Parameters(f.type)
             ds == DeclsAfter(f, TRUE)
  <2>3. ps \in Seq(DeclSet) /\ Len(ps) \in Nat /\ Len(ps) = Len(f.type.params)
    BY <2>1, ParametersFacts
  <2>4. Len(decls) < MaxDecls
    <3> DEFINE L == Len(decls)
               P == Len(ps)
    <3>1. L \in Nat /\ P \in Nat /\ MaxDecls \in Nat /\ L + 1 + P <= MaxDecls
      BY <1>1, <2>1, <2>3
    <3>2. L < MaxDecls
      <4> HIDE DEF L, P
      <4> QED BY <3>1
    <3> QED BY <3>2
  <2>5. ds \in Seq(DeclSet) /\ Len(ds) = Len(decls) + 1
    BY <2>4, DeclareFacts
  <2>6. definitions' \in [1..MaxDecls -> 0..(Len(decls) + 1)]
    BY <2>1, <2>4, DeclareFacts
  <2>7. tags' \in [Names -> Tagged \union {"none"}]
    BY <2>1, NormalizedFacts
  <2>8. decls' = ds \o ps
    BY <2>1
  <2>9. errors' \in BOOLEAN
    BY <2>1, <1>3
  <2> HIDE DEF ps, ds
  <2>10. Len(ds \o ps) = Len(ds) + Len(ps)
    BY <2>3, <2>5, ConcatProperties
  <2>11. Len(decls') >= Len(decls) /\ 0..(Len(decls) + 1) \subseteq 0..Len(decls')
    <3> DEFINE L == Len(decls)
               P == Len(ps)
               M == Len(decls')
    <3>1. L \in Nat /\ P \in Nat /\ M = L + 1 + P
      BY <1>1, <2>3, <2>5, <2>8, <2>10
    <3>2. M >= L /\ 0..(L + 1) \subseteq 0..M
      <4> HIDE DEF L, P, M
      <4> QED BY <3>1
    <3> QED BY <3>2
  <2>12. definitions' \in [1..MaxDecls -> 0..Len(decls')] /\ function' \in 0..Len(decls')
    <3>1. Len(decls) + 1 \in 0..(Len(decls) + 1)
      BY <1>1
    <3> QED BY <2>2, <2>6, <2>11, <3>1
  <2> QED BY <1>2, <1>3, <1>4, <2>2, <2>7, <2>9, <2>11, <2>12
<1>11. CASE Statement
  <2>1. CASE DeclareInBlock
    BY <1>8, <2>1 DEF DeclareInBlock
  <2>2. CASE OpenBlock \/ CloseBlock \/ OpenFor \/ EnterForBody \/ CloseFor \/ OpenWhile \/ CloseWhile
    BY <1>3, <1>7, <2>2 DEF OpenBlock, CloseBlock, OpenFor, EnterForBody, CloseFor, OpenWhile, CloseWhile
  <2>3. CASE DeclareForInitializer
    <3>1. PICK f \in Forms :
            IF ForInitializer(f)
            THEN Declare(f, FALSE)
            ELSE errors' = TRUE /\ UNCHANGED <<decls, scopes, definitions, tags>>
      BY <2>3 DEF DeclareForInitializer
    <3>2. UNCHANGED <<function, calls, phase>> /\ Len(decls) < MaxDecls
      BY <2>3 DEF DeclareForInitializer
    <3>3. CASE ForInitializer(f)
      BY <1>8, <3>1, <3>2, <3>3
    <3>4. CASE ~ForInitializer(f)
      BY <1>3, <1>7, <3>1, <3>2, <3>4
    <3> QED BY <3>3, <3>4
  <2>4. CASE Jump
    <3>1. (errors \/ loopDepth = 0) \in BOOLEAN
      OBVIOUS
    <3> QED BY <1>3, <1>7, <2>4, <3>1 DEF Jump
  <2>5. CASE \E n \in Names : Use(n)
    <3>1. PICK n \in Names : Use(n)
      BY <2>5
    <3>2. errors' \in BOOLEAN /\ UNCHANGED <<decls, tags, definitions, function, calls, phase>>
      BY <1>3, <3>1 DEF Use
    <3> QED BY <1>3, <1>7, <3>2
  <2>6. CASE \E n \in Names, args \in 0..MaxArgs, live \in BOOLEAN : Call(n, args, live)
    <3>1. PICK n \in Names, args \in 0..MaxArgs, live \in BOOLEAN : Call(n, args, live)
      BY <2>6
    <3>2. nest # <<>> /\ UNCHANGED <<decls, tags, definitions, function, phase>>
      BY <3>1 DEF Call, CanTake
    <3>3. CASE CallAllowed(n, args)
      <4> DEFINE c == [fn |-> function, decl |-> Lookup(n), args |-> args, live |-> live]
      <4>1. calls' = Append(calls, c) /\ UNCHANGED errors
        BY <3>1, <3>3 DEF Call
      <4>2. Lookup(n) \in 1..Len(decls)
        <5>1. Lookup(n) # NoDecl /\ Lookup(n) \in 0..Len(decls)
          BY <3>3, LookupFacts DEF CallAllowed, Usable
        <5> QED BY <1>1, <5>1 DEF NoDecl
      <4>3. function \in 1..Len(decls)
        <5>1. function # NoDecl
          BY <3>2 DEF NestingAgrees
        <5> QED BY <1>1, <1>3, <5>1 DEF NoDecl
      <4>4. c \in CallSet(Len(decls))
        BY <4>2, <4>3 DEF CallSet
      <4> HIDE DEF c
      <4>5. calls' \in Seq(CallSet(Len(decls)))
        BY <1>3, <4>1, <4>4, AppendProperties
      <4> QED BY <1>3, <1>7, <3>2, <4>1, <4>5
    <3>4. CASE ~CallAllowed(n, args)
      <4>1. errors' = TRUE /\ UNCHANGED calls
        BY <3>1, <3>4 DEF Call
      <4> QED BY <1>3, <1>7, <3>2, <4>1
    <3> QED BY <3>3, <3>4
  <2> QED BY <1>11, <2>1, <2>2, <2>3, <2>4, <2>5, <2>6 DEF Statement
<1>12. CASE EndFunction
  BY <1>3, <1>7, <1>12 DEF EndFunction
<1>13. CASE EndOfUnit
  <2>1. /\ DOMAIN decls' = DOMAIN decls
        /\ UNCHANGED <<tags, definitions, function, errors, calls>>
        /\ phase' = "analyzed"
    BY <1>13 DEF EndOfUnit
  <2>2. Len(decls') = Len(decls)
    <3> DEFINE L == Len(decls)
               M == Len(decls')
    <3>1. L \in Nat /\ M \in Nat /\ 1..M = 1..L
      BY <1>1, <2>1, LenProperties
    <3>2. M = L
      <4> HIDE DEF L, M
      <4>1. (M > L => M \in 1..M) /\ (L > M => L \in 1..L)
        BY <3>1
      <4> QED BY <3>1, <4>1
    <3> QED BY <3>2
  <2>3. Len(decls') >= Len(decls)
    BY <1>1, <2>2
  <2> QED BY <1>2, <1>3, <1>4, <1>5, <2>1, <2>3
<1>14. CASE UNCHANGED vars
  BY <1>3, <1>7, <1>14 DEF vars
<1> QED BY <1>9, <1>10, <1>11, <1>12, <1>13, <1>14 DEF Next

LEMMA InitHasInv == Init => Inv
<1> SUFFICES ASSUME Init PROVE Inv
  OBVIOUS
<1>1. /\ Unbound \in [Names -> 0..0] /\ \A n \in Names : Unbound[n] = NoDecl
      /\ Len(decls) = 0 /\ DOMAIN decls = {}
  BY DEF Unbound, NoDecl, Init
<1>2. Frames({"body", "block", "header", "for"}) = {} /\ Frames({"for", "while"}) = {}
  BY DEF Init, Frames
<1>3. TypeOK
  <2>1. 0 \in Nat /\ 0 <= MaxDecls
    BY BoundsAssumption
  <2>2. definitions \in [1..MaxDecls -> 0..0]
    BY DEF Init, NoDecl
  <2>3. tags \in [Names -> Tagged \union {"none"}]
    BY DEF Init
  <2>4. /\ decls \in Seq(DeclSet) /\ nest \in Seq(Frame0)
        /\ calls \in Seq([fn : 1..0, decl : 1..0, args : 0..MaxArgs, live : BOOLEAN])
    BY EmptySeq DEF Init
  <2>5. /\ scopes \in Seq([Names -> 0..0]) /\ scopes # <<>> /\ Len(scopes) = 1
        /\ opened \in Seq(0..0) /\ Len(opened) = 1
    BY <1>1 DEF Init
  <2>6. /\ function = 0 /\ loopDepth = 0 /\ errors \in BOOLEAN
        /\ phase \in {"analyze", "analyzed"}
    BY DEF Init, NoDecl
  <2>7. DOMAIN decls = 1..Len(decls) /\ \A i \in 1..Len(decls) : FALSE
    BY <1>1, <2>4, LenProperties
  <2>8. /\ calls \in Seq(CallSet(Len(decls)))
        /\ definitions \in [1..MaxDecls -> 0..Len(decls)]
        /\ scopes \in Seq([Names -> 0..Len(decls)]) /\ scopes # <<>>
        /\ opened \in Seq(0..Len(decls)) /\ Len(opened) = Len(scopes)
        /\ Len(decls) <= MaxDecls
    BY <1>1, <2>1, <2>2, <2>4, <2>5 DEF CallSet
  <2>9. function \in 0..Len(decls) /\ loopDepth \in Int
    BY <1>1, <2>6
  <2> QED BY <2>3, <2>4, <2>6, <2>7, <2>8, <2>9 DEF TypeOK, Frame0, CallSet
<1>4. NestingAgrees /\ NestShape
  <2>1. Len(scopes) = 1 /\ loopDepth = 0 /\ function = NoDecl /\ nest = <<>>
    BY DEF Init
  <2>2. Cardinality({}) = 0
    BY FS_EmptySet
  <2>3. NestShape
    <3>1. Len(nest) = 0
      BY <2>1, EmptySeq
    <3> QED BY <3>1 DEF NestShape
  <2> QED BY <1>2, <2>1, <2>2, <2>3 DEF NestingAgrees
<1>5. ScopesInv
  <2>1. opened[1] = 0 /\ Len(scopes) = 1 /\ scopes[1] = Unbound
    BY DEF Init
  <2>2. \A k \in 1..Len(scopes) : \A n \in Names : scopes[k][n] = NoDecl
    BY <1>1, <2>1
  <2>3. \A i \in 1..Len(decls) : FALSE
    BY <1>1
  <2> QED BY <2>1, <2>2, <2>3 DEF ScopesInv, ScopesInvOf, Binding
<1> QED BY <1>3, <1>4, <1>5 DEF Inv

LEMMA InvIsInductive == Inv /\ [Next]_vars => Inv'
<1> SUFFICES ASSUME Inv, [Next]_vars PROVE Inv'
  OBVIOUS
<1>1. ScopesStep
  BY ScopesPreserved DEF Inv
<1>2. NestStep
  BY NestPreserved DEF Inv
<1>3. TypeOK'
  BY <1>1, <1>2, TypePreserved
<1>4. NestingAgrees' /\ NestShape'
  <2>1. \A K : Frames(K)' = FramesOf(nest', K)
    BY DEF Frames, FramesOf
  <2>2. Len(nest') \in Nat
    BY LenProperties DEF NestStep
  <2> QED BY <1>2, <2>1, <2>2 DEF NestStep, NestingAgrees, NestShape, Scoped, Loops
<1>5. ScopesInv'
  BY <1>1 DEF ScopesStep, ScopesInv
<1> QED BY <1>3, <1>4, <1>5 DEF Inv

(* The variables of the walk keep their types.                             *)
THEOREM TypeCorrect == Spec => []TypeOK
<1>1. Inv => TypeOK
  BY DEF Inv
<1> QED BY <1>1, InitHasInv, InvIsInductive, PTL DEF Spec

(* The scopes on the stack and the loop depth always are those of the      *)
(* constructs the walk is in.                                              *)
THEOREM NestingCorrect == Spec => []NestingAgrees
<1>1. Inv => NestingAgrees
  BY DEF Inv
<1> QED BY <1>1, InitHasInv, InvIsInductive, PTL DEF Spec

(* Name lookup always answers with a declaration in scope, from the        *)
(* innermost scope that has one.                                           *)
THEOREM LookupCorrect == Spec => []LookupIsVisible
<1>1. Inv => LookupIsVisible
  BY ScopesMakeVisible DEF Inv
<1> QED BY <1>1, InitHasInv, InvIsInductive, PTL DEF Spec

-----------------------------------------------------------------------------
(* Declarations at file scope.  A step declares one there, f, possibly with *)
(* parameters after it, or leaves the outermost scope as it is.            *)
FileDecl(d) == d.ok /\ d.depth = 1 /\ d.kind # "tag"

DeclaresAtFileScope(f) ==
  /\ Len(scopes) = 1 /\ Len(decls) < MaxDecls
  /\ Len(decls') >= Len(decls) + 1
  /\ \A i \in 1..(Len(decls) + 1) : decls'[i] = DeclsAfter(f, TRUE)[i]
  /\ \A i \in 1..Len(decls') : i > Len(decls) + 1 => decls'[i].depth # 1
  /\ scopes'[1] = ScopesAfter(f, TRUE)[1]
  /\ definitions' = DefinitionsAfter(f, TRUE)

\* While the unit is walked, not even their sizes change.
FileScopeStays ==
  phase' = "analyze" => \A i \in 1..Len(decls) : decls[i].depth = 1 => decls'[i] = decls[i]

LeavesFileScope ==
  /\ Grown(decls, decls')
  /\ FileScopeStays
  /\ \A i \in 1..Len(decls') : i > Len(decls) => ~FileDecl(decls'[i])
  /\ scopes'[1] = scopes[1]
  /\ definitions' = definitions

LEMMA FileScopeStep ==
  ASSUME Inv, [Next]_vars
  PROVE  LeavesFileScope \/ \E f \in Forms : DeclaresAtFileScope(f)
<1>14. TypeOK /\ NestingAgrees /\ NestShape /\ ScopesInv
  BY DEF Inv
<1>1. Len(decls) \in Nat /\ Len(scopes) \in Nat \ {0} /\ MaxDecls \in Nat
  BY <1>14, LenProperties, TypeParts, BoundsAssumption DEF TypeOK
<1>2. Grown(decls, decls)
  BY <1>1 DEF Grown, SameButSize
<1>3. ASSUME UNCHANGED <<decls, scopes, definitions>> PROVE LeavesFileScope
  BY <1>1, <1>2, <1>3 DEF LeavesFileScope, FileScopeStays
<1>4. nest = <<>> => Len(scopes) = 1
  <2>1. nest = <<>> => Frames({"body", "block", "header", "for"}) = {}
    BY DEF Frames
  <2>2. Cardinality({}) = 0
    BY FS_EmptySet
  <2>3. Len(scopes) = 1 + Cardinality(Frames({"body", "block", "header", "for"}))
    BY <1>14 DEF NestingAgrees
  <2>4. nest = <<>> => Cardinality(Frames({"body", "block", "header", "for"})) = 0
    BY <2>1, <2>2, Zenon
  <2>5. 1 + 0 = 1
    OBVIOUS
  <2> QED BY <2>3, <2>4, <2>5, Zenon
<1>5. ASSUME NEW f \in Forms, ~f.body, nest # <<>>,
             Top.kind \in {"body", "block", "header", "for"},
             Len(decls) < MaxDecls, Declare(f, FALSE)
      PROVE  LeavesFileScope
  <2>1. Len(scopes) >= 2
    BY <1>5, <1>14, InsideIsDeep
  <2>2. /\ Len(decls') = Len(decls) + 1 /\ Grown(decls, decls')
        /\ decls'[Len(decls) + 1] = NewDecl(f, FALSE)
    BY <1>5, <1>14, DeclareFacts DEF Declare
  <2>3. decls'[Len(decls) + 1].depth # 1
    <3>1. NewDecl(f, FALSE).depth = Len(scopes)
      BY DEF NewDecl
    <3>2. Len(scopes) # 1
      <4> DEFINE D == Len(scopes)
      <4>1. D >= 2
        BY <2>1
      <4>2. D # 1
        <5> HIDE DEF D
        <5> QED BY <4>1
      <4> QED BY <4>2
    <3> QED BY <2>2, <3>1, <3>2
  <2>4. scopes'[1] = scopes[1]
    <3>1. scopes' = ScopesAfter(f, FALSE) /\ DOMAIN scopes = 1..Len(scopes)
      BY <1>5, <1>14, LenProperties DEF Declare, TypeOK
    <3>2. 1 \in 1..Len(scopes) /\ 1 # Len(scopes)
      <4> DEFINE D == Len(scopes)
      <4>1. D \in Nat /\ D >= 2
        BY <1>1, <2>1
      <4>2. 1 \in 1..D /\ 1 # D
        <5> HIDE DEF D
        <5> QED BY <4>1
      <4> QED BY <4>2
    <3> QED BY <1>14, <3>1, <3>2 DEF ScopesAfter
  <2>5. definitions' = definitions
    BY <1>5 DEF Declare, DefinitionsAfter
  <2>6. \A i \in 1..Len(decls') : i > Len(decls) => i = Len(decls) + 1
    BY <1>1, <2>2
  <2>7. FileScopeStays
    <3> SUFFICES ASSUME NEW i \in 1..Len(decls), decls[i].depth = 1
                 PROVE  decls'[i] = decls[i]
      BY DEF FileScopeStays
    <3>1. decls'[i] = Completed(f, FALSE, i)
      BY <1>5, <1>14, DeclsAfterAt DEF Declare
    <3>2. Len(scopes) # 1
      <4> DEFINE D == Len(scopes)
      <4>1. D >= 2
        BY <2>1
      <4>2. D # 1
        <5> HIDE DEF D
        <5> QED BY <4>1
      <4> QED BY <4>2
    <3>3. CompletesPrevious(f) => decls[Previous(f)].depth = Len(scopes)
      BY <1>14, PreviousFacts DEF CompletesPrevious
    <3> QED BY <3>1, <3>2, <3>3 DEF Completed
  <2> QED BY <2>2, <2>3, <2>4, <2>5, <2>6, <2>7 DEF LeavesFileScope, FileDecl
<1>6. ASSUME PushScope(Unbound), UNCHANGED <<decls, definitions>> PROVE LeavesFileScope
  <2>1. Unbound \in [Names -> 0..Len(decls)] /\ scopes \in Seq([Names -> 0..Len(decls)])
    BY <1>1, <1>14 DEF Unbound, NoDecl, TypeOK
  <2>2. scopes' = Append(scopes, Unbound) /\ 1 \in 1..Len(scopes)
    BY <1>1, <1>6 DEF PushScope
  <2>3. scopes'[1] = scopes[1]
    BY <2>1, <2>2, AppendProperties
  <2> QED BY <1>1, <1>2, <1>6, <2>3 DEF LeavesFileScope, FileScopeStays
<1>7. ASSUME PopScope, UNCHANGED <<decls, definitions>>, nest # <<>>,
             Top.kind \in {"body", "block", "header", "for"}
      PROVE  LeavesFileScope
  <2>1. Len(scopes) >= 2
    BY <1>7, <1>14, InsideIsDeep
  <2>2. scopes \in Seq([Names -> 0..Len(decls)])
    BY <1>14 DEF TypeOK
  <2>3. scopes'[1] = scopes[1]
    <3>1. \A k \in 1..(Len(scopes) - 1) : scopes[k] \in [Names -> 0..Len(decls)]
      BY <1>1, <2>2, ElementOfSeq
    <3>2. \A k \in 1..(Len(scopes) - 1) : SubSeq(scopes, 1, Len(scopes) - 1)[k] = scopes[k]
      BY <1>1, <3>1, SubSeqProperties
    <3> QED BY <1>1, <1>7, <2>1, <3>2 DEF PopScope
  <2> QED BY <1>1, <1>2, <1>7, <2>3 DEF LeavesFileScope, FileScopeStays
<1>8. CASE DeclareAtFileScope
  <2>1. PICK f \in Forms : Declare(f, TRUE)
    BY <1>8 DEF DeclareAtFileScope
  <2>2. Len(scopes) = 1 /\ Len(decls) < MaxDecls
    BY <1>4, <1>8 DEF DeclareAtFileScope
  <2>3. Len(decls') = Len(decls) + 1
    BY <1>14, <2>1, <2>2, DeclareFacts DEF Declare
  <2>4. \A i \in 1..Len(decls') : ~(i > Len(decls) + 1)
    BY <1>1, <2>3
  <2>5. Len(decls') >= Len(decls) + 1
    BY <1>1, <2>3
  <2>6. DeclaresAtFileScope(f)
    BY <2>1, <2>2, <2>4, <2>5 DEF DeclaresAtFileScope, Declare
  <2> QED BY <2>6
<1>9. CASE DefineFunction
  <2>1. PICK f \in Forms :
          /\ Len(decls) + 1 + Len(f.type.params) <= MaxDecls
          /\ decls' = DeclsAfter(f, TRUE) \o Parameters(f.type)
          /\ definitions' = DefinitionsAfter(f, TRUE)
          /\ scopes' = Append(ScopesAfter(f, TRUE), ParameterScope(f.type))
    BY <1>9 DEF DefineFunction
  <2> DEFINE ps == Parameters(f.type)
             ds == DeclsAfter(f, TRUE)
             ss == ScopesAfter(f, TRUE)
             b == ParameterScope(f.type)
             L == Len(decls)
             P == Len(f.type.params)
             N == L + 1 + P
  <2>2. /\ P \in Nat /\ ps \in Seq(DeclSet) /\ Len(ps) = P
        /\ \A i \in 1..P : ps[i].depth = Len(scopes) + 1
        /\ b \in [Names -> 0..N]
    BY <1>14, <2>1, ParametersFacts
  <2>3. Len(scopes) = 1 /\ L < MaxDecls /\ 0..(L + 1) \subseteq 0..N
    <3>1. L + 1 + P <= MaxDecls /\ L \in Nat /\ P \in Nat
      BY <1>1, <2>1, <2>2
    <3>2. L < MaxDecls /\ 0..(L + 1) \subseteq 0..N
      <4> HIDE DEF L, P
      <4> QED BY <1>1, <3>1
    <3>3. Len(scopes) = 1
      BY <1>4, <1>9 DEF DefineFunction
    <3> QED BY <3>2, <3>3
  <2>4. /\ ds \in Seq(DeclSet) /\ Len(ds) = L + 1
        /\ ss \in Seq([Names -> 0..(L + 1)]) /\ Len(ss) = 1
    BY <1>14, <2>3, DeclareFacts
  <2>5. L \in Nat /\ decls' = ds \o ps /\ scopes' = Append(ss, b)
    BY <1>1, <2>1
  <2> HIDE DEF ps, ds, ss, b, L, P
  <2>6. /\ Len(decls') = L + 1 + P
        /\ \A i \in 1..(L + 1) : decls'[i] = ds[i]
        /\ \A i \in (L + 2)..(L + 1 + P) : decls'[i] = ps[i - (L + 1)]
    <3>1. /\ Len(ds \o ps) = Len(ds) + Len(ps)
          /\ \A i \in 1..(Len(ds) + Len(ps)) :
               (ds \o ps)[i] = IF i <= Len(ds) THEN ds[i] ELSE ps[i - Len(ds)]
      <4>1. ds \in Seq(DeclSet) /\ ps \in Seq(DeclSet)
        BY <2>2, <2>4
      <4> QED BY <4>1, ConcatProperties
    <3>2. /\ Len(decls') = L + 1 + P
          /\ \A i \in 1..(L + 1 + P) :
               decls'[i] = IF i <= L + 1 THEN ds[i] ELSE ps[i - (L + 1)]
      BY <2>2, <2>4, <2>5, <3>1
    <3>3. L \in Nat /\ P \in Nat
      BY <2>2, <2>5
    <3> QED BY <3>2, <3>3
  <2>7. scopes'[1] = ss[1]
    <3> DEFINE S == [Names -> 0..(L + 1)]
               T == [Names -> 0..N]
    <3> HIDE DEF N
    <3>1. S \subseteq T
      BY <2>3
    <3>2. ss \in Seq(S) /\ b \in T
      BY <2>2, <2>4
    <3> HIDE DEF S, T
    <3>3. ss \in Seq(T)
      BY <3>1, <3>2, SeqMonotonic
    <3> QED BY <2>4, <2>5, <3>2, <3>3, AppendProperties
  <2>8. \A i \in 1..Len(decls') : i > L + 1 => decls'[i].depth # 1
    <3> SUFFICES ASSUME NEW i \in 1..Len(decls'), i > L + 1 PROVE decls'[i].depth # 1
      OBVIOUS
    <3>1. i \in (L + 2)..(L + 1 + P) /\ i - (L + 1) \in 1..P
      BY <2>2, <2>5, <2>6
    <3>2. decls'[i].depth = 1 + 1
      BY <2>2, <2>3, <2>6, <3>1
    <3> QED BY <3>2
  <2>9. Len(decls') >= L + 1
    BY <2>2, <2>5, <2>6
  <2>10. definitions' = DefinitionsAfter(f, TRUE)
    BY <2>1
  <2>11. DeclaresAtFileScope(f)
    BY <2>3, <2>6, <2>7, <2>8, <2>9, <2>10 DEF DeclaresAtFileScope, ds, ss, L
  <2> QED BY <2>11
<1>10. CASE Statement
  <2>1. CASE DeclareInBlock
    <3>1. PICK f \in Forms : ~f.body /\ Declare(f, FALSE)
      BY <2>1 DEF DeclareInBlock
    <3>2. /\ nest # <<>> /\ Top.kind \in {"body", "block", "header", "for"}
          /\ Len(decls) < MaxDecls
      BY <2>1 DEF DeclareInBlock, InBlock
    <3> QED BY <1>5, <3>1, <3>2
  <2>2. CASE OpenBlock \/ OpenFor
    BY <1>6, <2>2 DEF OpenBlock, OpenFor
  <2>3. CASE CloseBlock \/ CloseFor
    BY <1>7, <2>3 DEF CloseBlock, CloseFor
  <2>4. CASE DeclareForInitializer
    <3>1. PICK f \in Forms :
            /\ ~f.body
            /\ IF ForInitializer(f)
               THEN Declare(f, FALSE)
               ELSE errors' = TRUE /\ UNCHANGED <<decls, scopes, definitions, tags>>
      BY <2>4 DEF DeclareForInitializer
    <3>2. /\ nest # <<>> /\ Top.kind \in {"body", "block", "header", "for"}
          /\ Len(decls) < MaxDecls
      BY <2>4 DEF DeclareForInitializer, Frame
    <3>3. CASE ForInitializer(f)
      BY <1>5, <3>1, <3>2, <3>3
    <3>4. CASE ~ForInitializer(f)
      BY <1>3, <3>1, <3>4
    <3> QED BY <3>3, <3>4
  <2>5. CASE EnterForBody \/ OpenWhile \/ CloseWhile \/ Jump
    BY <1>3, <2>5 DEF EnterForBody, OpenWhile, CloseWhile, Jump
  <2>6. CASE \E n \in Names : Use(n)
    BY <1>3, <2>6 DEF Use
  <2>7. CASE \E n \in Names, args \in 0..MaxArgs, live \in BOOLEAN : Call(n, args, live)
    BY <1>3, <2>7 DEF Call
  <2> QED BY <1>10, <2>1, <2>2, <2>3, <2>4, <2>5, <2>6, <2>7 DEF Statement
<1>11. CASE EndFunction
  BY <1>7, <1>11 DEF EndFunction
<1>12. CASE EndOfUnit
  <2>1. /\ decls' = [i \in DOMAIN decls |->
                       IF Tentative(decls[i]) THEN [decls[i] EXCEPT !.type.size = 1]
                                              ELSE decls[i]]
        /\ UNCHANGED <<scopes, definitions>> /\ phase' = "analyzed"
    BY <1>12 DEF EndOfUnit
  <2> QED BY <1>1, <1>14, <2>1, EndGrows DEF LeavesFileScope, FileScopeStays
<1>13. CASE UNCHANGED vars
  BY <1>3, <1>13 DEF vars
<1> QED BY <1>8, <1>9, <1>10, <1>11, <1>12, <1>13 DEF Next

-----------------------------------------------------------------------------
(* The declarations of one name at file scope: s1 is the outermost scope,  *)
(* defs the bodies recorded.                                               *)
Shared(ds, s1, i) ==
  LET seen == ds[s1[ds[i].name]]
      c    == ds[i].canonical
  IN  FileDecl(ds[i]) =>
        /\ seen.canonical = c /\ seen.kind = ds[i].kind
        /\ c <= i /\ ds[c].canonical = c
        /\ ds[i].body => ds[i].kind = "func"
        /\ ds[i].kind = "func" /\ HasParameters(ds[i].type) => HasParameters(seen.type)

Recorded(ds, defs, i) ==
  FileDecl(ds[i]) /\ ds[i].body => defs[ds[i].canonical] = i

\* A body without a prototype and parameters declared elsewhere exclude each
\* other.
NoClash(ds, i, j) ==
  /\ FileDecl(ds[i]) /\ FileDecl(ds[j]) /\ ds[i].name = ds[j].name
  /\ ds[i].body /\ HasParameters(ds[j].type)
  => ds[i].type.proto

FileInvOf(ds, s1, defs) ==
  /\ \A i \in 1..Len(ds) : Shared(ds, s1, i) /\ Recorded(ds, defs, i)
  /\ \A i, j \in 1..Len(ds) : NoClash(ds, i, j)

FileInv == FileInvOf(decls, scopes[1], definitions)

\* The outermost scope binds every name declared there.
LEMMA FileBindings ==
  ASSUME Inv, NEW i \in 1..Len(decls), FileDecl(decls[i])
  PROVE  LET b == scopes[1][decls[i].name]
         IN  /\ decls[i].name \in Names
             /\ b \in 1..Len(decls) /\ FileDecl(decls[b]) /\ decls[b].name = decls[i].name
             /\ decls[i].canonical \in 1..Len(decls)
<1>1. /\ Len(scopes) \in Nat \ {0} /\ Len(decls) \in Nat
      /\ \A k \in 1..Len(scopes) : scopes[k] \in [Names -> 0..Len(decls)]
  BY TypeParts DEF Inv
<1>2. 1 \in 1..Len(scopes)
  BY <1>1
<1>3. /\ opened[1] = 0 /\ Visible(decls, scopes, opened, i)
      /\ \A n \in Names : Binding(decls, scopes, opened, 1, n)
  BY <1>2 DEF Inv, ScopesInv, ScopesInvOf
<1>4. i > 0
  OBVIOUS
<1>5. decls[i].name \in Names /\ scopes[1][decls[i].name] # NoDecl
  BY <1>2, <1>3, <1>4 DEF Visible, FileDecl
<1>6. scopes[1][decls[i].name] \in 0..Len(decls)
  BY <1>1, <1>2, <1>5
<1>7. scopes[1][decls[i].name] \in 1..Len(decls)
  BY <1>1, <1>5, <1>6 DEF NoDecl
<1>8. decls[i].canonical \in 1..Len(decls)
  <2>1. DeclsOK(decls)
    BY TypeParts DEF Inv
  <2> QED BY <1>1, <2>1 DEF DeclsOK, FileDecl, NoDecl
<1>9. /\ FileDecl(decls[scopes[1][decls[i].name]])
      /\ decls[scopes[1][decls[i].name]].name = decls[i].name
  BY <1>3, <1>5 DEF Binding, FileDecl
<1> QED BY <1>5, <1>7, <1>8, <1>9

\* Where nothing is declared at file scope, all this stays.
LEMMA FileScopeLeft ==
  ASSUME Inv, FileInv, LeavesFileScope, decls' \in Seq(DeclSet)
  PROVE  FileInv'
<1>1. /\ Len(decls) \in Nat /\ Len(decls') \in Nat /\ Len(decls) <= Len(decls')
      /\ \A i \in 1..Len(decls) : SameButSize(decls[i], decls'[i])
  BY LenProperties DEF Inv, TypeOK, LeavesFileScope, Grown
<1>2. ASSUME NEW i \in 1..Len(decls'), FileDecl(decls'[i])
      PROVE  i \in 1..Len(decls) /\ FileDecl(decls[i])
  <2>1. ~(i > Len(decls))
    BY <1>2 DEF LeavesFileScope
  <2>2. i \in 1..Len(decls)
    BY <1>1, <2>1
  <2> QED BY <1>1, <1>2, <2>2 DEF FileDecl, SameButSize
<1>3. ASSUME NEW i \in 1..Len(decls), FileDecl(decls[i])
      PROVE  /\ scopes[1][decls[i].name] \in 1..Len(decls)
             /\ decls[i].canonical \in 1..Len(decls)
  BY <1>3, FileBindings
<1>4. scopes'[1] = scopes[1] /\ definitions' = definitions
  BY DEF LeavesFileScope
<1>5. ASSUME NEW i \in 1..Len(decls')
      PROVE  /\ Shared(decls', scopes'[1], i)
             /\ Recorded(decls', definitions', i)
  <2> SUFFICES ASSUME FileDecl(decls'[i])
               PROVE  /\ Shared(decls', scopes'[1], i)
                      /\ Recorded(decls', definitions', i)
    BY DEF Shared, Recorded
  <2>1. i \in 1..Len(decls) /\ FileDecl(decls[i])
    BY <1>2
  <2>2. Shared(decls, scopes[1], i) /\ Recorded(decls, definitions, i)
    BY <2>1 DEF FileInv, FileInvOf
  <2>3. /\ SameButSize(decls[i], decls'[i])
        /\ SameButSize(decls[scopes[1][decls[i].name]], decls'[scopes[1][decls[i].name]])
        /\ SameButSize(decls[decls[i].canonical], decls'[decls[i].canonical])
    BY <1>1, <1>3, <2>1
  <2>4. Shared(decls', scopes'[1], i)
    <3> DEFINE b == scopes[1][decls[i].name]
               c == decls[i].canonical
    <3>1. /\ decls[b].canonical = c /\ decls[b].kind = decls[i].kind
          /\ c <= i /\ decls[c].canonical = c
          /\ decls[i].body => decls[i].kind = "func"
          /\ decls[i].kind = "func" /\ HasParameters(decls[i].type)
               => HasParameters(decls[b].type)
      BY <2>1, <2>2 DEF Shared
    <3>2. scopes'[1][decls'[i].name] = b /\ decls'[i].canonical = c
      BY <1>4, <2>3 DEF SameButSize
    <3>3. /\ SameButSize(decls[i], decls'[i]) /\ SameButSize(decls[b], decls'[b])
          /\ SameButSize(decls[c], decls'[c])
      BY <2>3
    <3> HIDE DEF b, c
    <3>4. /\ decls'[b].canonical = c /\ decls'[b].kind = decls'[i].kind
          /\ decls'[c].canonical = c
          /\ decls'[i].body => decls'[i].kind = "func"
      BY <3>1, <3>3 DEF SameButSize
    <3>5. decls'[i].kind = "func" /\ HasParameters(decls'[i].type)
            => HasParameters(decls'[b].type)
      BY <3>1, <3>3 DEF SameButSize, HasParameters
    <3> QED BY <3>1, <3>2, <3>4, <3>5 DEF Shared
  <2>5. Recorded(decls', definitions', i)
    BY <1>4, <2>1, <2>2, <2>3 DEF Recorded, SameButSize
  <2> QED BY <2>4, <2>5
<1>6. ASSUME NEW i \in 1..Len(decls'), NEW j \in 1..Len(decls')
      PROVE  NoClash(decls', i, j)
  <2> SUFFICES ASSUME FileDecl(decls'[i]), FileDecl(decls'[j])
               PROVE  NoClash(decls', i, j)
    BY DEF NoClash
  <2>1. /\ i \in 1..Len(decls) /\ FileDecl(decls[i])
        /\ j \in 1..Len(decls) /\ FileDecl(decls[j])
    BY <1>2
  <2>2. NoClash(decls, i, j)
    BY <2>1 DEF FileInv, FileInvOf
  <2>3. SameButSize(decls[i], decls'[i]) /\ SameButSize(decls[j], decls'[j])
    BY <1>1, <2>1
  <2> QED BY <2>1, <2>2, <2>3 DEF NoClash, SameButSize, HasParameters
<1> QED BY <1>5, <1>6 DEF FileInv, FileInvOf

\* What declaring an ordinary name there does, when f is accepted.
Declared(f) ==
  /\ Len(decls) \in Nat /\ Len(decls) < MaxDecls /\ MaxDecls \in Nat
  /\ TypeOK /\ ScopesInv /\ Len(scopes) = 1
  /\ f.name \in Names
  /\ f.body => f.kind = "func"
  /\ f.kind = "func" => f.type.shape = "func"
  /\ \A i \in 1..Len(decls) : /\ decls'[i] = Completed(f, TRUE, i)
                             /\ SameButSize(decls[i], decls'[i])
  /\ decls'[Len(decls) + 1] = NewDecl(f, TRUE)
  /\ \A i \in 1..Len(decls') : FileDecl(decls'[i]) /\ i # Len(decls) + 1
                               => i \in 1..Len(decls) /\ FileDecl(decls[i])
  /\ Previous(f) = scopes[1][f.name]
  /\ Previous(f) = NoDecl => Canonical(f) = Len(decls) + 1 /\ Binds(f)
  /\ Previous(f) # NoDecl =>
       /\ Previous(f) \in 1..Len(decls) /\ FileDecl(decls[Previous(f)])
       /\ decls[Previous(f)].name = f.name /\ decls[Previous(f)].kind = f.kind
       /\ Shared(decls, scopes[1], Previous(f))
       /\ Canonical(f) = decls[Previous(f)].canonical
       /\ decls[Previous(f)].canonical \in 1..Len(decls)
  /\ Binds(f) => scopes'[1][f.name] = Len(decls) + 1
  /\ ~Binds(f) => scopes'[1][f.name] = Previous(f)
  /\ \A n \in Names : n # f.name => scopes'[1][n] = scopes[1][n]
  /\ definitions' = IF f.body THEN [definitions EXCEPT ![Canonical(f)] = Len(decls) + 1]
                               ELSE definitions

\* The declaration it adds.
Added(f) ==
  LET new == NewDecl(f, TRUE)
      t   == Normalized(f.type)
  IN  /\ new.name = f.name /\ new.kind = f.kind /\ new.body = f.body /\ new.sc = f.sc
      /\ new.canonical = Canonical(f) /\ FileDecl(new)
      /\ new.type \in Types /\ new.type.shape = t.shape /\ new.type.tag = t.tag
      /\ new.type.size = SharedSize(f)
      /\ new.type.proto = f.type.proto /\ new.type.variadic = f.type.variadic
      /\ new.type.params = f.type.params

LEMMA DeclaredFacts ==
  ASSUME Inv, FileInv, NEW f \in Forms, DeclaresAtFileScope(f),
         Accepts(f, TRUE), f.kind # "tag"
  PROVE  Declared(f) /\ Added(f)
<1> DEFINE L == Len(decls)
           p == Previous(f)
           new == NewDecl(f, TRUE)
           s1 == scopes[1]
           t1 == scopes'[1]
<1>1. /\ L \in Nat /\ L < MaxDecls /\ MaxDecls \in Nat
      /\ TypeOK /\ ScopesInv /\ Len(scopes) = 1
  BY LenProperties, BoundsAssumption DEF Inv, TypeOK, DeclaresAtFileScope
<1>2. /\ Grown(decls, DeclsAfter(f, TRUE)) /\ Len(DeclsAfter(f, TRUE)) = L + 1
      /\ DeclsAfter(f, TRUE)[L + 1] = new
      /\ new.ok => new.canonical = Canonical(f)
  BY <1>1, DeclareFacts
<1>3. /\ \A i \in 1..L : SameButSize(decls[i], decls'[i])
      /\ decls'[L + 1] = new
      /\ \A i \in 1..Len(decls') : i > L + 1 => ~FileDecl(decls'[i])
  <2>1. \A i \in 1..(L + 1) : decls'[i] = DeclsAfter(f, TRUE)[i]
    BY DEF DeclaresAtFileScope
  <2>2. \A i \in 1..Len(decls') : i > L + 1 => ~FileDecl(decls'[i])
    BY DEF DeclaresAtFileScope, FileDecl
  <2>3. \A i \in 1..L : SameButSize(decls[i], DeclsAfter(f, TRUE)[i])
    BY <1>2 DEF Grown
  <2>4. L \in Nat /\ DeclsAfter(f, TRUE)[L + 1] = new
    BY <1>1, <1>2
  <2> HIDE DEF L, new
  <2>5. L + 1 \in 1..(L + 1) /\ \A i \in 1..L : i \in 1..(L + 1)
    BY <2>4
  <2>6. decls'[L + 1] = new
    BY <2>1, <2>4, <2>5
  <2>7. \A i \in 1..L : SameButSize(decls[i], decls'[i])
    BY <2>1, <2>3, <2>5
  <2> QED BY <2>2, <2>6, <2>7
<1>4. Added(f)
  <2>1. /\ new.ok /\ new.depth = 1 /\ new.name = f.name /\ new.kind = f.kind
        /\ new.body = f.body /\ new.sc = f.sc
    BY <1>1 DEF NewDecl
  <2>2. /\ Normalized(f.type) \in Types /\ Normalized(f.type).proto = f.type.proto
        /\ Normalized(f.type).params = f.type.params
        /\ Normalized(f.type).variadic = f.type.variadic
    BY <1>1, NormalizedFacts
  <2>3. new.type = [Normalized(f.type) EXCEPT !.size = SharedSize(f)]
    BY DEF NewDecl
  <2>4. new.type \in Types
    <3>1. new \in DeclSet
      BY <1>1, DeclareFacts
    <3> QED BY <3>1 DEF DeclSet
  <2> HIDE DEF new
  <2>5. /\ new.type.shape = Normalized(f.type).shape /\ new.type.tag = Normalized(f.type).tag
        /\ new.type.size = SharedSize(f) /\ new.type.proto = f.type.proto
        /\ new.type.variadic = f.type.variadic /\ new.type.params = f.type.params
    BY <2>2, <2>3 DEF Types
  <2>6. new.canonical = Canonical(f)
    BY <1>2, <2>1
  <2>7. new.kind # "tag"
    BY <2>1
  <2> QED BY <2>1, <2>4, <2>5, <2>6, <2>7 DEF FileDecl, Added, new
<1>5. f.name \in Names /\ (f.body => f.kind = "func") /\ (f.kind = "func" => f.type.shape = "func")
  BY FormsAssumption DEF FormSet
<1>6. /\ p = s1[f.name]
      /\ p = NoDecl => Canonical(f) = L + 1 /\ Binds(f)
      /\ p # NoDecl => /\ p \in 1..L /\ FileDecl(decls[p]) /\ decls[p].name = f.name
                       /\ decls[p].kind = f.kind /\ Shared(decls, s1, p)
                       /\ Canonical(f) = decls[p].canonical
                       /\ decls[p].canonical \in 1..L
  <2>1. p = s1[f.name]
    BY <1>1 DEF Previous, LookupCurrent
  <2>2. p = NoDecl => Canonical(f) = L + 1 /\ Binds(f)
    BY DEF Canonical, Binds
  <2>3. ASSUME p # NoDecl
        PROVE  /\ p \in 1..L /\ FileDecl(decls[p]) /\ decls[p].name = f.name
               /\ decls[p].kind = f.kind /\ Shared(decls, s1, p)
               /\ Canonical(f) = decls[p].canonical
               /\ decls[p].canonical \in 1..L
    <3>1. /\ p \in 0..L /\ decls[p].ok /\ decls[p].kind # "tag"
          /\ decls[p].name = f.name /\ decls[p].depth = Len(scopes)
          /\ decls[p].canonical \in 1..L
      BY <1>1, <2>3, PreviousFacts
    <3>2. decls[p].kind = f.kind
      BY <2>3 DEF Accepts, Redeclares
    <3>3. Canonical(f) = decls[p].canonical
      BY <2>3 DEF Canonical
    <3>4. p \in 1..L
      <4> HIDE DEF p, L
      <4> QED BY <1>1, <2>3, <3>1 DEF NoDecl
    <3>5. Shared(decls, s1, p)
      BY <3>4 DEF FileInv, FileInvOf
    <3> QED BY <1>1, <3>1, <3>2, <3>3, <3>4, <3>5 DEF FileDecl
  <2> QED BY <2>1, <2>2, <2>3
<1>7. /\ Binds(f) => t1[f.name] = L + 1
      /\ ~Binds(f) => t1[f.name] = p
      /\ \A n \in Names : n # f.name => t1[n] = s1[n]
  <2>1. scopes \in Seq([Names -> 0..L]) /\ DOMAIN scopes = 1..1 /\ s1 \in [Names -> 0..L]
    <3>1. scopes \in Seq([Names -> 0..L])
      BY <1>1 DEF TypeOK
    <3>2. DOMAIN scopes = 1..1 /\ 1 \in 1..Len(scopes)
      BY <1>1, <3>1, LenProperties
    <3> DEFINE S == [Names -> 0..L]
    <3>3. scopes \in Seq(S)
      BY <3>1
    <3> HIDE DEF S
    <3>4. scopes[1] \in S
      BY <3>2, <3>3, ElementOfSeq
    <3> QED BY <3>1, <3>2, <3>4 DEF S
  <2>2. t1 = ScopesAfter(f, TRUE)[1]
    BY DEF DeclaresAtFileScope
  <2> HIDE DEF p, L
  <2>3. CASE Binds(f)
    <3>1. t1 = [s1 EXCEPT ![f.name] = L + 1]
      BY <1>1, <2>1, <2>2, <2>3 DEF ScopesAfter, L
    <3> QED BY <1>5, <2>1, <2>3, <3>1
  <2>4. CASE ~Binds(f)
    <3>1. t1 = s1
      BY <2>2, <2>4 DEF ScopesAfter
    <3> QED BY <1>6, <2>4, <3>1
  <2> QED BY <2>3, <2>4
<1>8. definitions' = IF f.body THEN [definitions EXCEPT ![Canonical(f)] = L + 1]
                               ELSE definitions
  BY DEF DeclaresAtFileScope, DefinitionsAfter
<1>9. ASSUME NEW i \in 1..Len(decls'), FileDecl(decls'[i]), i # L + 1
      PROVE  i \in 1..L /\ FileDecl(decls[i])
  <2> HIDE DEF L
  <2>1. ~(i > L + 1)
    BY <1>3, <1>9
  <2>2. i \in 1..L
    BY <1>1, <1>9, <2>1
  <2>3. SameButSize(decls[i], decls'[i])
    BY <1>3, <2>2
  <2> QED BY <1>9, <2>2, <2>3 DEF FileDecl, SameButSize
<1>10. \A i \in 1..L : decls'[i] = Completed(f, TRUE, i)
  <2>1. \A i \in 1..L : DeclsAfter(f, TRUE)[i] = Completed(f, TRUE, i)
    BY <1>1, DeclsAfterAt
  <2>2. \A i \in 1..(L + 1) : decls'[i] = DeclsAfter(f, TRUE)[i]
    BY DEF DeclaresAtFileScope
  <2>3. L \in Nat
    BY <1>1
  <2> HIDE DEF L
  <2>4. \A i \in 1..L : i \in 1..(L + 1)
    BY <2>3
  <2> QED BY <2>1, <2>2, <2>4
<1> QED BY <1>1, <1>3, <1>4, <1>5, <1>6, <1>7, <1>8, <1>9, <1>10 DEF Declared

\* And where an ordinary name is declared there and accepted.
LEMMA FileScopeDeclared ==
  ASSUME Inv, FileInv, NEW f \in Forms, DeclaresAtFileScope(f),
         Accepts(f, TRUE), f.kind # "tag"
  PROVE  FileInv'
<1> DEFINE L == Len(decls)
           p == Previous(f)
           new == NewDecl(f, TRUE)
           s1 == scopes[1]
           t1 == scopes'[1]
<1>0. Declared(f) /\ Added(f)
  BY DeclaredFacts
<1>1. /\ L \in Nat /\ L < MaxDecls /\ MaxDecls \in Nat
      /\ TypeOK /\ ScopesInv /\ Len(scopes) = 1
  BY <1>0 DEF Declared
<1>3. /\ \A i \in 1..L : SameButSize(decls[i], decls'[i])
      /\ decls'[L + 1] = new
  BY <1>0 DEF Declared
<1>4. /\ new.name = f.name /\ new.kind = f.kind /\ new.body = f.body
      /\ new.canonical = Canonical(f) /\ FileDecl(new)
      /\ HasParameters(new.type) <=> HasParameters(f.type)
      /\ new.type.proto = f.type.proto
  <2> HIDE DEF new
  <2> QED BY <1>0 DEF Added, HasParameters, new
<1>5. f.name \in Names /\ (f.body => f.kind = "func") /\ (f.kind = "func" => f.type.shape = "func")
  BY <1>0 DEF Declared
<1>6. /\ p = s1[f.name]
      /\ p = NoDecl => Canonical(f) = L + 1 /\ Binds(f)
      /\ p # NoDecl => /\ p \in 1..L /\ FileDecl(decls[p]) /\ decls[p].name = f.name
                       /\ decls[p].kind = f.kind /\ Shared(decls, s1, p)
                       /\ Canonical(f) = decls[p].canonical
                       /\ decls[p].canonical \in 1..L
  BY <1>0 DEF Declared
<1>7. /\ Binds(f) => t1[f.name] = L + 1
      /\ ~Binds(f) => t1[f.name] = p
      /\ \A n \in Names : n # f.name => t1[n] = s1[n]
  BY <1>0 DEF Declared
<1>8. definitions' = IF f.body THEN [definitions EXCEPT ![Canonical(f)] = L + 1]
                               ELSE definitions
  BY <1>0 DEF Declared
<1>9. ASSUME NEW i \in 1..Len(decls'), FileDecl(decls'[i]), i # L + 1
      PROVE  i \in 1..L /\ FileDecl(decls[i])
  BY <1>0, <1>9 DEF Declared
<1>10. ASSUME NEW i \in 1..L, FileDecl(decls[i])
       PROVE  /\ decls[i].name \in Names
              /\ s1[decls[i].name] \in 1..L /\ decls[i].canonical \in 1..L
              /\ Shared(decls, s1, i) /\ Recorded(decls, definitions, i)
              /\ SameButSize(decls[i], decls'[i])
              /\ SameButSize(decls[s1[decls[i].name]], decls'[s1[decls[i].name]])
              /\ SameButSize(decls[decls[i].canonical], decls'[decls[i].canonical])
              /\ decls[i].name = f.name =>
                   /\ p # NoDecl
                   /\ decls[i].canonical = Canonical(f) /\ decls[i].kind = f.kind
                   /\ f.kind = "func" /\ HasParameters(decls[i].type)
                        => HasParameters(decls[p].type)
  <2>1. /\ decls[i].name \in Names
        /\ s1[decls[i].name] \in 1..L /\ decls[i].canonical \in 1..L
    BY <1>10, FileBindings
  <2>2. Shared(decls, s1, i) /\ Recorded(decls, definitions, i)
    BY DEF FileInv, FileInvOf
  <2> HIDE DEF L, p, s1
  <2>3. ASSUME decls[i].name = f.name
        PROVE  /\ p # NoDecl
               /\ decls[i].canonical = Canonical(f) /\ decls[i].kind = f.kind
               /\ f.kind = "func" /\ HasParameters(decls[i].type)
                    => HasParameters(decls[p].type)
    <3>1. p # NoDecl
      BY <1>1, <1>6, <2>1, <2>3 DEF NoDecl
    <3>2. s1[decls[i].name] = p
      BY <1>6, <2>3
    <3> QED BY <1>6, <1>10, <2>2, <3>1, <3>2 DEF Shared
  <2> QED BY <1>3, <2>1, <2>2, <2>3
<1>11. ASSUME p # NoDecl, Binds(f), f.kind = "func", HasParameters(decls[p].type)
       PROVE  HasParameters(f.type)
  <2>1. f.type.proto
    BY <1>5, <1>11 DEF Binds, HasParameters
  <2>2. Compatible(decls[p].type, Normalized(f.type))
    BY <1>11 DEF Accepts, Redeclares
  <2>3. /\ Normalized(f.type).shape = "func" /\ Normalized(f.type).proto
        /\ Normalized(f.type).params = f.type.params
        /\ Normalized(f.type) \in Types
    BY <1>1, <1>5, <1>11, <2>1, NormalizedFacts
  <2>4. SameParameters(decls[p].type, Normalized(f.type))
    BY <1>11, <2>2, <2>3 DEF Compatible, CompatibleFunctions, HasParameters
  <2>5. Len(decls[p].type.params) = Len(f.type.params)
    BY <2>3, <2>4 DEF SameParameters
  <2>6. decls[p].type.params \in Seq(Params) /\ f.type.params \in Seq(Params)
    <3>1. decls[p] \in DeclSet
      BY <1>1, <1>11, PreviousFacts
    <3> QED BY <2>3, <3>1 DEF DeclSet, Types
  <2>7. Len(decls[p].type.params) # 0
    BY <1>11, <2>6, EmptySeq DEF HasParameters
  <2>8. f.type.params # <<>>
    BY <2>5, <2>7, EmptySeq
  <2> QED BY <2>1, <2>8 DEF HasParameters
<1>12. ASSUME p # NoDecl, ~Binds(f) PROVE ~HasParameters(f.type)
  BY <1>12 DEF Binds, HasParameters
<1>13. ~BodyConflict(f)
  BY DEF Accepts
<1>14. ASSUME NEW i \in 1..L, FileDecl(decls[i]), decls[i].body, decls[i].canonical = Canonical(f),
              f.kind = "func"
       PROVE  /\ ~f.body
              /\ HasParameters(f.type) => decls[i].type.proto
  <2>1. definitions[Canonical(f)] = i
    BY <1>10, <1>14 DEF Recorded
  <2>2. i # NoDecl
    <3> HIDE DEF L
    <3> QED BY <1>1 DEF NoDecl
  <2> QED BY <1>13, <1>14, <2>1, <2>2 DEF BodyConflict
<1> HIDE DEF L, p, new, s1, t1
<1>15. ASSUME NEW i \in 1..Len(decls'), FileDecl(decls'[i])
       PROVE  Shared(decls', t1, i)
  <2>1. CASE i # L + 1
    <3>1. i \in 1..L /\ FileDecl(decls[i])
      BY <1>9, <1>15, <2>1
    <3> DEFINE b == s1[decls[i].name]
               c == decls[i].canonical
    <3>2. /\ b \in 1..L /\ c \in 1..L /\ decls[i].name \in Names
          /\ SameButSize(decls[i], decls'[i]) /\ SameButSize(decls[b], decls'[b])
          /\ SameButSize(decls[c], decls'[c])
      BY <1>10, <3>1
    <3>3. /\ decls[b].canonical = c /\ decls[b].kind = decls[i].kind
          /\ c <= i /\ decls[c].canonical = c
          /\ decls[i].body => decls[i].kind = "func"
          /\ decls[i].kind = "func" /\ HasParameters(decls[i].type)
               => HasParameters(decls[b].type)
      <4>1. Shared(decls, s1, i)
        BY <1>10, <3>1
      <4> QED BY <3>1, <4>1 DEF Shared
    <3>4. /\ decls'[i].name = decls[i].name /\ decls'[i].canonical = c
          /\ decls'[c].canonical = c /\ decls'[i].kind = decls[i].kind
          /\ decls'[i].body => decls'[i].kind = "func"
          /\ HasParameters(decls'[i].type) <=> HasParameters(decls[i].type)
          /\ decls'[b].canonical = c /\ decls'[b].kind = decls'[i].kind
          /\ HasParameters(decls'[b].type) <=> HasParameters(decls[b].type)
      BY <3>2, <3>3 DEF SameButSize, HasParameters
    <3>5. CASE decls[i].name = f.name /\ Binds(f)
      <4>1. t1[decls'[i].name] = L + 1
        BY <1>7, <3>4, <3>5
      <4>2. /\ p # NoDecl /\ c = Canonical(f) /\ decls[i].kind = f.kind
            /\ f.kind = "func" /\ HasParameters(decls[i].type)
                 => HasParameters(decls[p].type)
        BY <1>10, <3>1, <3>5
      <4>3. decls[i].kind = "func" /\ HasParameters(decls[i].type)
              => HasParameters(new.type)
        BY <1>4, <1>11, <3>5, <4>2
      <4> HIDE DEF b, c
      <4> QED BY <1>3, <1>4, <3>3, <3>4, <4>1, <4>2, <4>3 DEF Shared
    <3>6. CASE ~(decls[i].name = f.name /\ Binds(f))
      <4>1. t1[decls'[i].name] = b
        BY <1>6, <1>7, <3>2, <3>4, <3>6
      <4> HIDE DEF b, c
      <4> QED BY <3>3, <3>4, <4>1 DEF Shared
    <3> QED BY <3>5, <3>6
  <2>2. CASE i = L + 1
    <3> DEFINE b == t1[f.name]
               c == Canonical(f)
    <3>1. /\ decls'[i] = new /\ decls'[i].name = f.name /\ decls'[i].canonical = c
          /\ decls'[i].kind = f.kind
          /\ decls'[i].body => f.kind = "func"
          /\ HasParameters(decls'[i].type) <=> HasParameters(f.type)
      BY <1>3, <1>4, <1>5, <2>2
    <3>2. c <= i /\ decls'[c].canonical = c
      <4>1. CASE p = NoDecl
        BY <1>1, <1>6, <2>2, <3>1, <4>1
      <4>2. CASE p # NoDecl
        <5>1. /\ p \in 1..L /\ c = decls[p].canonical /\ c \in 1..L
              /\ decls[p].canonical <= p /\ decls[c].canonical = c
          BY <1>6, <4>2 DEF Shared
        <5>2. SameButSize(decls[c], decls'[c])
          BY <1>3, <5>1
        <5> HIDE DEF c
        <5> QED BY <1>1, <2>2, <5>1, <5>2 DEF SameButSize
      <4> QED BY <4>1, <4>2
    <3>3. /\ decls'[b].canonical = c /\ decls'[b].kind = f.kind
          /\ HasParameters(f.type) => HasParameters(decls'[b].type)
      <4>1. CASE Binds(f)
        <5>1. b = i
          BY <1>7, <2>2, <4>1
        <5> HIDE DEF b, c
        <5> QED BY <3>1, <5>1
      <4>2. CASE ~Binds(f)
        <5>1. p # NoDecl /\ b = p
          BY <1>6, <1>7, <4>2
        <5>2. /\ p \in 1..L /\ decls[p].canonical = c /\ decls[p].kind = f.kind
          BY <1>6, <5>1
        <5>3. SameButSize(decls[p], decls'[p])
          BY <1>3, <5>2
        <5>4. ~HasParameters(f.type)
          BY <1>12, <4>2, <5>1
        <5> HIDE DEF b, c
        <5> QED BY <5>1, <5>2, <5>3, <5>4 DEF SameButSize
      <4> QED BY <4>1, <4>2
    <3>4. t1[decls'[i].name] = b
      BY <3>1
    <3> HIDE DEF b, c
    <3> QED BY <3>1, <3>2, <3>3, <3>4 DEF Shared
  <2> QED BY <2>1, <2>2
<1>16. ASSUME NEW i \in 1..Len(decls'), FileDecl(decls'[i]), decls'[i].body
       PROVE  definitions'[decls'[i].canonical] = i
  <2>1. CASE i # L + 1
    <3>1. i \in 1..L /\ FileDecl(decls[i])
      BY <1>9, <1>16, <2>1
    <3>2. decls[i].body /\ decls'[i].canonical = decls[i].canonical
      BY <1>3, <1>16, <3>1 DEF SameButSize
    <3>3. definitions[decls[i].canonical] = i
      BY <1>10, <3>1, <3>2 DEF Recorded
    <3>4. f.body => decls[i].canonical # Canonical(f)
      BY <1>5, <1>14, <3>1, <3>2
    <3> QED BY <1>8, <3>2, <3>3, <3>4
  <2>2. CASE i = L + 1
    <3>1. f.body /\ decls'[i].canonical = Canonical(f)
      BY <1>3, <1>4, <1>16, <2>2
    <3>2. Canonical(f) \in 1..MaxDecls
      BY <1>1, <1>6
    <3>3. DOMAIN definitions = 1..MaxDecls
      BY <1>1 DEF TypeOK
    <3> QED BY <1>8, <2>2, <3>1, <3>2, <3>3
  <2> QED BY <2>1, <2>2
<1>17. ASSUME NEW i \in 1..Len(decls'), NEW j \in 1..Len(decls'),
              FileDecl(decls'[i]), FileDecl(decls'[j]), decls'[i].name = decls'[j].name,
              decls'[i].body, HasParameters(decls'[j].type)
       PROVE  decls'[i].type.proto
  <2>1. CASE i # L + 1 /\ j # L + 1
    <3>1. /\ i \in 1..L /\ FileDecl(decls[i]) /\ SameButSize(decls[i], decls'[i])
          /\ j \in 1..L /\ FileDecl(decls[j]) /\ SameButSize(decls[j], decls'[j])
      BY <1>3, <1>9, <1>17, <2>1
    <3>2. NoClash(decls, i, j)
      BY <3>1 DEF FileInv, FileInvOf, L
    <3> QED BY <1>17, <3>1, <3>2 DEF NoClash, SameButSize, HasParameters
  <2>2. CASE i = L + 1 /\ j = L + 1
    BY <1>17, <2>2 DEF HasParameters
  <2>3. CASE i = L + 1 /\ j # L + 1
    <3>1. /\ j \in 1..L /\ FileDecl(decls[j]) /\ SameButSize(decls[j], decls'[j])
      BY <1>3, <1>9, <1>17, <2>3
    <3>2. decls'[i] = new /\ f.body /\ f.kind = "func" /\ decls[j].name = f.name
      BY <1>3, <1>4, <1>5, <1>17, <2>3, <3>1 DEF SameButSize
    <3>3. HasParameters(decls[j].type)
      BY <1>17, <3>1 DEF SameButSize, HasParameters
    <3>4. p # NoDecl /\ HasParameters(decls[p].type)
      BY <1>10, <3>1, <3>2, <3>3
    <3>5. f.type.proto
      BY <1>13, <3>2, <3>4 DEF BodyConflict, p
    <3> QED BY <1>4, <3>2, <3>5
  <2>4. CASE i # L + 1 /\ j = L + 1
    <3>1. /\ i \in 1..L /\ FileDecl(decls[i]) /\ SameButSize(decls[i], decls'[i])
      BY <1>3, <1>9, <1>17, <2>4
    <3>2. HasParameters(f.type) /\ decls[i].name = f.name /\ decls[i].body
      BY <1>3, <1>4, <1>17, <2>4, <3>1 DEF SameButSize
    <3>3. decls[i].canonical = Canonical(f) /\ decls[i].kind = f.kind
      BY <1>10, <3>1, <3>2
    <3>4. f.kind = "func"
      BY <1>10, <3>1, <3>2, <3>3 DEF Shared
    <3>5. decls[i].type.proto
      BY <1>14, <3>1, <3>2, <3>3, <3>4
    <3> QED BY <3>1, <3>5 DEF SameButSize
  <2> QED BY <2>1, <2>2, <2>3, <2>4
<1>18. \A i \in 1..Len(decls') : Shared(decls', t1, i) /\ Recorded(decls', definitions', i)
  BY <1>15, <1>16 DEF Shared, Recorded
<1>19. \A i, j \in 1..Len(decls') : NoClash(decls', i, j)
  BY <1>17 DEF NoClash
<1> QED BY <1>18, <1>19 DEF FileInv, FileInvOf, t1

\* A declaration that is refused, and a tag, leave the outermost scope.
LEMMA RefusedLeaves ==
  ASSUME Inv, NEW f \in Forms, DeclaresAtFileScope(f), decls' \in Seq(DeclSet),
         ~(Accepts(f, TRUE) /\ f.kind # "tag")
  PROVE  LeavesFileScope
<1>1. TypeOK /\ ScopesInv /\ Len(decls) < MaxDecls /\ Len(decls) \in Nat
  BY LenProperties DEF DeclaresAtFileScope, Inv, TypeOK
<1>2. /\ Grown(decls, DeclsAfter(f, TRUE)) /\ Len(DeclsAfter(f, TRUE)) = Len(decls) + 1
      /\ DeclsAfter(f, TRUE)[Len(decls) + 1] = NewDecl(f, TRUE)
  BY <1>1, DeclareFacts
<1>3. ~FileDecl(NewDecl(f, TRUE))
  BY DEF FileDecl, NewDecl
<1>4. f.body => f.kind = "func"
  BY FormsAssumption
<1>5. scopes'[1] = scopes[1] /\ definitions' = definitions
  BY <1>4 DEF DeclaresAtFileScope, ScopesAfter, Binds, DefinitionsAfter
<1>6. /\ Len(decls') >= Len(decls) + 1
      /\ \A i \in 1..(Len(decls) + 1) : decls'[i] = DeclsAfter(f, TRUE)[i]
      /\ \A i \in 1..Len(decls') : i > Len(decls) + 1 => ~FileDecl(decls'[i])
  BY DEF DeclaresAtFileScope, FileDecl
<1>7. Len(decls') \in Nat
  BY LenProperties
<1> DEFINE L == Len(decls)
           M == Len(decls')
<1>8. Grown(decls, decls')
  <2>1. \A i \in 1..L : SameButSize(decls[i], DeclsAfter(f, TRUE)[i])
    BY <1>2 DEF Grown
  <2>2. /\ L \in Nat /\ M \in Nat /\ M >= L + 1
        /\ \A i \in 1..(L + 1) : decls'[i] = DeclsAfter(f, TRUE)[i]
    BY <1>1, <1>6, <1>7
  <2> HIDE DEF L, M
  <2>3. M >= L /\ \A i \in 1..L : i \in 1..(L + 1)
    BY <2>2
  <2>4. \A i \in 1..L : SameButSize(decls[i], decls'[i])
    BY <2>1, <2>2, <2>3
  <2> QED BY <2>3, <2>4 DEF Grown, L, M
<1>9. \A i \in 1..Len(decls') : i > Len(decls) => ~FileDecl(decls'[i])
  <2>1. /\ L \in Nat /\ M \in Nat
        /\ decls'[L + 1] = NewDecl(f, TRUE)
        /\ \A i \in 1..M : i > L + 1 => ~FileDecl(decls'[i])
    <3>1. L + 1 \in 1..(L + 1)
      BY <1>1
    <3> QED BY <1>1, <1>2, <1>6, <1>7, <3>1
  <2> HIDE DEF L, M
  <2>2. \A i \in 1..M : i > L => i = L + 1 \/ i > L + 1
    BY <2>1
  <2>3. \A i \in 1..M : i > L => ~FileDecl(decls'[i])
    BY <1>3, <2>1, <2>2
  <2> QED BY <2>3 DEF L, M
<1>10. FileScopeStays
  <2>1. \A i \in 1..L : DeclsAfter(f, TRUE)[i] = decls[i]
    <3> SUFFICES ASSUME NEW i \in 1..L PROVE DeclsAfter(f, TRUE)[i] = decls[i]
      OBVIOUS
    <3>1. DeclsAfter(f, TRUE)[i] = Completed(f, TRUE, i)
      BY <1>1, DeclsAfterAt
    <3>2. f.kind = "tag" => ~CompletesPrevious(f)
      BY DEF Previous, CompletesPrevious
    <3> QED BY <3>1, <3>2 DEF Completed
  <2>2. L \in Nat /\ \A i \in 1..(L + 1) : decls'[i] = DeclsAfter(f, TRUE)[i]
    BY <1>1, <1>6
  <2> HIDE DEF L
  <2>3. \A i \in 1..L : i \in 1..(L + 1)
    BY <2>2
  <2> QED BY <2>1, <2>2, <2>3 DEF FileScopeStays, L
<1> QED BY <1>5, <1>8, <1>9, <1>10 DEF LeavesFileScope

LEMMA FileScopeCases ==
  ASSUME Inv, [Next]_vars
  PROVE  LeavesFileScope
           \/ \E f \in Forms : DeclaresAtFileScope(f) /\ Accepts(f, TRUE) /\ f.kind # "tag"
<1>1. decls' \in Seq(DeclSet)
  BY ScopesPreserved DEF Inv, ScopesStep, DeclsOK
<1> QED BY <1>1, FileScopeStep, RefusedLeaves

LEMMA FileInvIsInductive == Inv /\ FileInv /\ [Next]_vars => FileInv'
<1> SUFFICES ASSUME Inv, FileInv, [Next]_vars PROVE FileInv'
  OBVIOUS
<1>1. decls' \in Seq(DeclSet)
  BY ScopesPreserved DEF Inv, ScopesStep, DeclsOK
<1> QED BY <1>1, FileScopeCases, FileScopeLeft, FileScopeDeclared

LEMMA InitHasFileInv == Init => FileInv
<1> SUFFICES ASSUME Init PROVE FileInv
  OBVIOUS
<1>1. decls = <<>>
  BY DEF Init
<1>2. Len(decls) = 0
  BY <1>1
<1>3. 1..Len(decls) = {}
  BY <1>2
<1> QED BY <1>3 DEF FileInv, FileInvOf

(* All declarations of one name at file scope share one canonical          *)
(* declaration, the key of the backend's symbol.                           *)
THEOREM CanonicalCorrect == Spec => []OneCanonicalPerName
<1>1. Inv /\ FileInv => OneCanonicalPerName
  <2> SUFFICES ASSUME Inv, FileInv,
                      NEW i \in DOMAIN decls, NEW j \in DOMAIN decls, SameName(i, j)
               PROVE  /\ decls[i].canonical = decls[j].canonical
                      /\ decls[i].canonical <= i
                      /\ decls[decls[i].canonical].canonical = decls[i].canonical
    BY DEF OneCanonicalPerName
  <2>1. i \in 1..Len(decls) /\ j \in 1..Len(decls)
    BY LenProperties DEF Inv, TypeOK
  <2>2. FileDecl(decls[i]) /\ FileDecl(decls[j]) /\ decls[i].name = decls[j].name
    BY DEF SameName, AtFileScope, FileDecl
  <2>3. Shared(decls, scopes[1], i) /\ Shared(decls, scopes[1], j)
    BY <2>1 DEF FileInv, FileInvOf
  <2> QED BY <2>2, <2>3 DEF Shared
<1> QED BY <1>1, InitHasInv, InvIsInductive, InitHasFileInv, FileInvIsInductive, PTL DEF Spec

(* No function has two bodies, whatever declarations come between them, and *)
(* none has a body without a prototype beside a declaration with parameters. *)
THEOREM OneBodyCorrect == Spec => []OneBody
<1>1. Inv /\ FileInv => OneBody
  <2> SUFFICES ASSUME Inv, FileInv,
                      NEW i \in DOMAIN decls, NEW j \in DOMAIN decls, SameName(i, j),
                      decls[i].body
               PROVE  /\ decls[j].body => i = j
                      /\ HasParameters(decls[j].type) => decls[i].type.proto
    BY DEF OneBody
  <2>1. i \in 1..Len(decls) /\ j \in 1..Len(decls)
    BY LenProperties DEF Inv, TypeOK
  <2>2. FileDecl(decls[i]) /\ FileDecl(decls[j]) /\ decls[i].name = decls[j].name
    BY DEF SameName, AtFileScope, FileDecl
  <2>3. /\ Shared(decls, scopes[1], i) /\ Shared(decls, scopes[1], j)
        /\ Recorded(decls, definitions, i) /\ Recorded(decls, definitions, j)
    BY <2>1 DEF FileInv, FileInvOf
  <2>4. decls[i].canonical = decls[j].canonical
    BY <2>2, <2>3 DEF Shared
  <2>5. decls[j].body => i = j
    BY <2>2, <2>3, <2>4 DEF Recorded
  <2>6. NoClash(decls, i, j)
    BY <2>1 DEF FileInv, FileInvOf
  <2> QED BY <2>2, <2>5, <2>6 DEF NoClash
<1> QED BY <1>1, InitHasInv, InvIsInductive, InitHasFileInv, FileInvIsInductive, PTL DEF Spec

-----------------------------------------------------------------------------
(* The types of one name's declarations.  Compatibility is not transitive, *)
(* so the invariant relates each declaration to the one the name is bound  *)
(* to: that one knows all the others have said.                            *)

\* Its prototype, which every other prototype repeats and which fits those
\* declared without one.
Known(ds, s1, i) ==
  LET d == ds[i]
      seen == ds[s1[d.name]]
  IN  FileDecl(d) =>
        /\ d.type.shape = seen.type.shape
        /\ d.kind = "func" \/ d.type.proto => d.type.shape = "func"
        /\ ~d.type.proto => d.type.params = <<>>
        /\ d.type.proto => seen.type.proto /\ SameParameters(d.type, seen.type)
        /\ ~d.type.proto /\ seen.type.proto => FitsUnprototyped(seen.type)

\* Its size and its tag.
Sized(ds, s1, i) ==
  LET d == ds[i]
      seen == ds[s1[d.name]]
  IN  FileDecl(d) =>
        /\ d.type.size # 0
        /\ d.type.size > 0 => d.type.shape = "array" /\ seen.type.size = d.type.size
        /\ d.type.shape \in Tagged /\ s1[d.name] # i
             => d.type.tag # NoName /\ d.type.tag = seen.type.tag

\* The first declaration of a name stands for them all, and decides on linkage.
First(ds, i) ==
  LET d == ds[i]
      c == ds[d.canonical]
  IN  FileDecl(d) => /\ FileDecl(c) /\ c.name = d.name /\ c.kind = d.kind
                     /\ d.kind = "func" /\ d.sc = "STATIC" => c.sc = "STATIC"

\* What is recorded as a body is one.
Defined(ds, defs, c) ==
  LET d == ds[defs[c]]
  IN  defs[c] # NoDecl => FileDecl(d) /\ d.canonical = c /\ d.body

TypesInvOf(ds, s1, defs) ==
  /\ \A i \in 1..Len(ds) : Known(ds, s1, i) /\ First(ds, i)
  /\ \A c \in 1..MaxDecls : Defined(ds, defs, c)

TypesInv == TypesInvOf(decls, scopes[1], definitions)

SizesInv == phase = "analyze" => \A i \in 1..Len(decls) : Sized(decls, scopes[1], i)

LEMMA SameParametersFacts ==
  ASSUME NEW a \in Types, NEW b \in Types, NEW c \in Types
  PROVE  /\ SameParameters(a, a)
         /\ SameParameters(a, b) => SameParameters(b, a)
         /\ SameParameters(a, b) /\ SameParameters(b, c) => SameParameters(a, c)
         /\ SameParameters(a, b) /\ FitsUnprototyped(a) => FitsUnprototyped(b)
<1>1. /\ DOMAIN a.params = 1..Len(a.params) /\ DOMAIN b.params = 1..Len(b.params)
      /\ DOMAIN c.params = 1..Len(c.params)
  BY LenProperties DEF Types
<1> QED BY <1>1 DEF SameParameters, FitsUnprototyped

\* Sizes do not matter to them.
LEMMA SameButSizeFacts ==
  ASSUME NEW a, NEW b, NEW d, NEW e, SameButSize(a, d), SameButSize(b, e)
  PROVE  /\ SameParameters(a.type, b.type) <=> SameParameters(d.type, e.type)
         /\ FitsUnprototyped(a.type) <=> FitsUnprototyped(d.type)
         /\ FileDecl(a) <=> FileDecl(d)
BY DEF SameButSize, SameParameters, FitsUnprototyped, FileDecl

LEMMA KnownStays ==
  ASSUME NEW ds, NEW es, NEW s1, NEW i,
         SameButSize(ds[i], es[i]), FileDecl(es[i]),
         SameButSize(ds[s1[ds[i].name]], es[s1[ds[i].name]]),
         SameButSize(ds[ds[i].canonical], es[ds[i].canonical])
  PROVE  /\ Known(ds, s1, i) => Known(es, s1, i)
         /\ First(ds, i) => First(es, i)
<1> DEFINE b == s1[ds[i].name]
           c == ds[i].canonical
<1>1. es[i].name = ds[i].name /\ es[i].canonical = c
  BY DEF SameButSize
<1>2. /\ SameButSize(ds[i], es[i]) /\ SameButSize(ds[b], es[b]) /\ SameButSize(ds[c], es[c])
      /\ s1[es[i].name] = b
  BY <1>1
<1> HIDE DEF b, c
<1>3. ASSUME First(ds, i) PROVE First(es, i)
  <2>1. FileDecl(ds[i])
    BY <1>2, SameButSizeFacts
  <2>2. /\ FileDecl(ds[c]) /\ ds[c].name = ds[i].name /\ ds[c].kind = ds[i].kind
        /\ ds[i].kind = "func" /\ ds[i].sc = "STATIC" => ds[c].sc = "STATIC"
    BY <1>3, <2>1 DEF First, c
  <2>3. FileDecl(es[c])
    BY <1>2, <2>2, SameButSizeFacts
  <2> QED BY <1>1, <1>2, <2>2, <2>3 DEF First, SameButSize
<1>4. ASSUME Known(ds, s1, i) PROVE Known(es, s1, i)
  <2>1. /\ SameParameters(ds[i].type, ds[b].type) <=> SameParameters(es[i].type, es[b].type)
        /\ FitsUnprototyped(ds[b].type) <=> FitsUnprototyped(es[b].type)
        /\ FileDecl(ds[i])
    BY <1>2, SameButSizeFacts
  <2>2. /\ ds[i].type.shape = ds[b].type.shape
        /\ ds[i].kind = "func" \/ ds[i].type.proto => ds[i].type.shape = "func"
        /\ ~ds[i].type.proto => ds[i].type.params = <<>>
        /\ ds[i].type.proto => ds[b].type.proto /\ SameParameters(ds[i].type, ds[b].type)
        /\ ~ds[i].type.proto /\ ds[b].type.proto => FitsUnprototyped(ds[b].type)
    BY <1>4, <2>1 DEF Known, b
  <2> QED BY <1>1, <1>2, <2>1, <2>2 DEF Known, SameButSize
<1> QED BY <1>3, <1>4

LEMMA TypesLeft ==
  ASSUME Inv, TypesInv, LeavesFileScope, decls' \in Seq(DeclSet)
  PROVE  TypesInv'
<1>1. /\ Len(decls) \in Nat /\ Len(decls') \in Nat /\ Len(decls) <= Len(decls')
      /\ \A i \in 1..Len(decls) : SameButSize(decls[i], decls'[i])
  BY LenProperties DEF Inv, TypeOK, LeavesFileScope, Grown
<1>2. scopes'[1] = scopes[1] /\ definitions' = definitions
  BY DEF LeavesFileScope
<1>3. ASSUME NEW i \in 1..Len(decls')
      PROVE  Known(decls', scopes'[1], i) /\ First(decls', i)
  <2> SUFFICES ASSUME FileDecl(decls'[i])
               PROVE  Known(decls', scopes'[1], i) /\ First(decls', i)
    BY DEF Known, First
  <2>1. ~(i > Len(decls))
    BY DEF LeavesFileScope
  <2>2. i \in 1..Len(decls)
    BY <1>1, <2>1
  <2>3. FileDecl(decls[i])
    BY <1>1, <2>2 DEF FileDecl, SameButSize
  <2>4. scopes[1][decls[i].name] \in 1..Len(decls) /\ decls[i].canonical \in 1..Len(decls)
    BY <2>2, <2>3, FileBindings
  <2>5. Known(decls, scopes[1], i) /\ First(decls, i)
    BY <2>2 DEF TypesInv, TypesInvOf
  <2> QED BY <1>1, <1>2, <2>2, <2>4, <2>5, KnownStays
<1>4. ASSUME NEW c \in 1..MaxDecls
      PROVE  Defined(decls', definitions', c)
  <2> SUFFICES ASSUME definitions[c] # NoDecl PROVE Defined(decls', definitions', c)
    BY <1>2 DEF Defined
  <2>1. definitions[c] \in 0..Len(decls)
    BY DEF Inv, TypeOK
  <2>2. definitions[c] \in 1..Len(decls)
    BY <1>1, <2>1 DEF NoDecl
  <2>3. Defined(decls, definitions, c)
    BY DEF TypesInv, TypesInvOf
  <2> QED BY <1>1, <1>2, <2>2, <2>3 DEF Defined, SameButSize, FileDecl
<1> QED BY <1>3, <1>4 DEF TypesInv, TypesInvOf

LEMMA SizesLeft ==
  ASSUME Inv, SizesInv, LeavesFileScope, decls' \in Seq(DeclSet), phase' = "analyze" => phase = "analyze"
  PROVE  SizesInv'
<1> SUFFICES ASSUME phase' = "analyze", NEW i \in 1..Len(decls'), FileDecl(decls'[i])
             PROVE  Sized(decls', scopes'[1], i)
  BY DEF SizesInv, Sized
<1>1. /\ Len(decls) \in Nat /\ Len(decls') \in Nat /\ Len(decls) <= Len(decls')
      /\ \A j \in 1..Len(decls) : SameButSize(decls[j], decls'[j])
  BY LenProperties DEF Inv, TypeOK, LeavesFileScope, Grown
<1>2. ~(i > Len(decls))
  BY DEF LeavesFileScope
<1>3. i \in 1..Len(decls)
  BY <1>1, <1>2
<1>4. FileDecl(decls[i])
  BY <1>1, <1>3 DEF FileDecl, SameButSize
<1>5. /\ scopes[1][decls[i].name] \in 1..Len(decls)
      /\ FileDecl(decls[scopes[1][decls[i].name]])
  BY <1>3, <1>4, FileBindings
<1>6. /\ decls'[i] = decls[i]
      /\ decls'[scopes[1][decls[i].name]] = decls[scopes[1][decls[i].name]]
  BY <1>3, <1>4, <1>5 DEF LeavesFileScope, FileScopeStays, FileDecl
<1>7. Sized(decls, scopes[1], i)
  BY <1>3 DEF SizesInv
<1>8. scopes'[1] = scopes[1]
  BY DEF LeavesFileScope
<1> QED BY <1>6, <1>7, <1>8 DEF Sized

\* What f, accepted after the declaration p of its name, says in turn.
Agrees(f, old) ==
  LET new == NewDecl(f, TRUE)
  IN  /\ old.type \in Types /\ old.kind = f.kind
      /\ old.type.shape = new.type.shape
      /\ f.kind = "func" /\ f.sc = "STATIC" => old.sc = "STATIC"
      /\ old.type.proto => old.type.shape = "func"
      /\ Binds(f) /\ old.type.proto => new.type.proto
      /\ old.type.proto /\ new.type.proto => SameParameters(old.type, new.type)
      /\ old.type.proto /\ ~new.type.proto => FitsUnprototyped(old.type)
      /\ ~old.type.proto /\ new.type.proto => FitsUnprototyped(new.type)

LEMMA AgreesWithPrevious ==
  ASSUME Inv, TypesInv, NEW f \in Forms, Declared(f), Added(f),
         Accepts(f, TRUE), Previous(f) # NoDecl
  PROVE  Agrees(f, decls[Previous(f)])
<1> DEFINE old == decls[Previous(f)]
           new == NewDecl(f, TRUE)
           t == Normalized(f.type)
<1>1. old.type \in Types /\ old.kind = f.kind
  <2>1. old \in DeclSet
    BY PreviousFacts DEF Inv
  <2> QED BY <2>1 DEF DeclSet, Declared
<1>2. /\ Compatible(old.type, t) /\ ~LinkageConflict(old, f)
  BY DEF Accepts, Redeclares
<1>3. /\ t.shape = new.type.shape /\ t.proto = new.type.proto
      /\ t.variadic = new.type.variadic /\ t.params = new.type.params
      /\ t.shape = "func" <=> f.type.shape = "func"
      /\ t.proto = f.type.proto /\ t \in Types /\ new.type \in Types
  <2>1. TypeOK
    BY DEF Inv
  <2>2. /\ t.shape = new.type.shape /\ new.type.proto = f.type.proto
        /\ new.type.variadic = f.type.variadic /\ new.type.params = f.type.params
        /\ new.type \in Types
    BY DEF Added
  <2>3. /\ t \in Types /\ t.proto = f.type.proto /\ t.params = f.type.params
        /\ t.variadic = f.type.variadic
        /\ t.shape = "func" <=> f.type.shape = "func"
    BY <2>1, NormalizedFacts
  <2> QED BY <2>2, <2>3
<1>4. old.type.proto => old.type.shape = "func"
  <2>1. Previous(f) \in 1..Len(decls) /\ FileDecl(old)
    BY DEF Declared
  <2>2. Known(decls, scopes[1], Previous(f))
    BY <2>1 DEF TypesInv, TypesInvOf
  <2> QED BY <2>1, <2>2 DEF Known
<1>5. Binds(f) /\ old.type.proto => f.type.shape # "func" \/ f.type.proto
  BY DEF Binds
<1> HIDE DEF old, t, new
<1>6. old.type.shape = t.shape
  BY <1>2 DEF Compatible
<1>7. t.proto => t.shape = "func"
  BY <1>3, FormsAssumption
<1>8. old.type.proto \/ t.proto => CompatibleFunctions(old.type, t)
  BY <1>2, <1>4, <1>6, <1>7 DEF Compatible
<1>9. /\ old.type.proto /\ t.proto => SameParameters(old.type, t)
      /\ old.type.proto /\ ~t.proto => FitsUnprototyped(old.type)
      /\ ~old.type.proto /\ t.proto => FitsUnprototyped(t)
  BY <1>8 DEF CompatibleFunctions
<1>10. /\ SameParameters(old.type, t) <=> SameParameters(old.type, new.type)
       /\ FitsUnprototyped(t) <=> FitsUnprototyped(new.type)
  BY <1>3 DEF SameParameters, FitsUnprototyped
<1>11. f.kind = "func" /\ f.sc = "STATIC" => old.sc = "STATIC"
  BY <1>1, <1>2 DEF LinkageConflict
<1>12. Binds(f) /\ old.type.proto => new.type.proto
  BY <1>3, <1>4, <1>5, <1>6
<1> QED BY <1>1, <1>3, <1>4, <1>6, <1>9, <1>10, <1>11, <1>12 DEF Agrees, old, new

LEMMA TypesDeclared ==
  ASSUME Inv, FileInv, TypesInv, NEW f \in Forms, DeclaresAtFileScope(f),
         Accepts(f, TRUE), f.kind # "tag"
  PROVE  TypesInv'
<1> DEFINE L == Len(decls)
           p == Previous(f)
           new == NewDecl(f, TRUE)
           s1 == scopes[1]
           t1 == scopes'[1]
<1>1. Declared(f) /\ Added(f)
  BY DeclaredFacts
<1>2. p # NoDecl => Agrees(f, decls[p])
  BY <1>1, AgreesWithPrevious
<1>3. /\ L \in Nat /\ L < MaxDecls /\ MaxDecls \in Nat
      /\ decls'[L + 1] = new
      /\ \A i \in 1..L : SameButSize(decls[i], decls'[i])
  BY <1>1 DEF Declared
<1>4. /\ p = s1[f.name] /\ f.name \in Names
      /\ p = NoDecl => Canonical(f) = L + 1 /\ Binds(f)
      /\ p # NoDecl => /\ p \in 1..L /\ FileDecl(decls[p]) /\ decls[p].name = f.name
                       /\ Canonical(f) = decls[p].canonical
                       /\ Canonical(f) \in 1..L
      /\ Binds(f) => t1[f.name] = L + 1
      /\ ~Binds(f) => t1[f.name] = p
      /\ \A n \in Names : n # f.name => t1[n] = s1[n]
  BY <1>1 DEF Declared
<1>5. /\ new.name = f.name /\ new.kind = f.kind /\ new.body = f.body /\ new.sc = f.sc
      /\ new.canonical = Canonical(f) /\ FileDecl(new) /\ new.type \in Types
      /\ new.type.proto = f.type.proto
      /\ new.kind = "func" \/ new.type.proto => new.type.shape = "func"
      /\ ~new.type.proto => new.type.params = <<>>
  <2>1. /\ new.name = f.name /\ new.kind = f.kind /\ new.body = f.body /\ new.sc = f.sc
        /\ new.canonical = Canonical(f) /\ FileDecl(new) /\ new.type \in Types
        /\ new.type.proto = f.type.proto /\ new.type.params = f.type.params
        /\ new.type.shape = Normalized(f.type).shape
    BY <1>1 DEF Added
  <2>2. Normalized(f.type).shape = "func" <=> f.type.shape = "func"
    BY NormalizedFacts DEF Inv
  <2> HIDE DEF new
  <2> QED BY <2>1, <2>2, FormsAssumption
<1>6. ASSUME NEW i \in 1..L, FileDecl(decls[i])
      PROVE  /\ decls[i].name \in Names /\ s1[decls[i].name] \in 1..L
             /\ decls[i].canonical \in 1..L
             /\ decls[i].type \in Types
             /\ Known(decls, s1, i) /\ First(decls, i)
  <2>1. /\ decls[i].name \in Names /\ s1[decls[i].name] \in 1..L
        /\ decls[i].canonical \in 1..L
    BY <1>6, FileBindings
  <2>2. decls[i] \in DeclSet
    BY ElementOfSeq DEF Inv, TypeOK
  <2>3. Known(decls, s1, i) /\ First(decls, i)
    BY DEF TypesInv, TypesInvOf
  <2> QED BY <2>1, <2>2, <2>3 DEF DeclSet
<1>7. ASSUME NEW i \in 1..Len(decls'), FileDecl(decls'[i]), i # L + 1
      PROVE  i \in 1..L /\ FileDecl(decls[i])
  BY <1>1, <1>7 DEF Declared
<1> HIDE DEF L, p, new, s1, t1
<1>8. ASSUME NEW i \in 1..Len(decls'), FileDecl(decls'[i]), i # L + 1
      PROVE  Known(decls', t1, i) /\ First(decls', i)
  <2> DEFINE d == decls[i]
  <2>1. i \in 1..L /\ FileDecl(d)
    BY <1>7, <1>8
  <2>2. /\ d.name \in Names /\ s1[d.name] \in 1..L /\ d.canonical \in 1..L /\ d.type \in Types
        /\ Known(decls, s1, i) /\ First(decls, i)
    BY <1>6, <2>1
  <2>3. Known(decls', s1, i) /\ First(decls', i)
    BY <1>3, <1>8, <2>1, <2>2, KnownStays
  <2>4. decls'[i].name = d.name /\ SameButSize(d, decls'[i])
    BY <1>3, <2>1 DEF SameButSize
  <2>5. CASE ~(d.name = f.name /\ Binds(f))
    <3>1. t1[decls'[i].name] = s1[decls'[i].name]
      BY <1>4, <2>2, <2>4, <2>5
    <3> QED BY <2>3, <3>1 DEF Known
  <2>6. CASE d.name = f.name /\ Binds(f)
    <3>1. s1[d.name] = p /\ p # NoDecl
      <4>1. s1[d.name] = p
        BY <1>4, <2>6
      <4> QED BY <1>3, <2>2, <4>1 DEF NoDecl
    <3> DEFINE o == decls[p]
    <3>2. /\ d.type.shape = o.type.shape
          /\ d.kind = "func" \/ d.type.proto => d.type.shape = "func"
          /\ ~d.type.proto => d.type.params = <<>>
          /\ d.type.proto => o.type.proto /\ SameParameters(d.type, o.type)
          /\ ~d.type.proto /\ o.type.proto => FitsUnprototyped(o.type)
      BY <2>1, <2>2, <3>1 DEF Known
    <3>3. /\ o.type \in Types /\ o.type.shape = new.type.shape
          /\ o.type.proto => new.type.proto
          /\ o.type.proto /\ new.type.proto => SameParameters(o.type, new.type)
          /\ ~o.type.proto /\ new.type.proto => FitsUnprototyped(new.type)
      BY <1>2, <2>6, <3>1 DEF Agrees, new
    <3>4. /\ SameParameters(d.type, o.type) /\ SameParameters(o.type, new.type)
               => SameParameters(d.type, new.type)
          /\ SameParameters(o.type, new.type) /\ FitsUnprototyped(o.type)
               => FitsUnprototyped(new.type)
      BY <1>5, <2>2, <3>3, SameParametersFacts
    <3>5. /\ d.type.shape = new.type.shape
          /\ d.type.proto => new.type.proto /\ SameParameters(d.type, new.type)
          /\ ~d.type.proto /\ new.type.proto => FitsUnprototyped(new.type)
      <4> HIDE DEF d, o
      <4> QED BY <3>2, <3>3, <3>4
    <3>6. SameParameters(d.type, new.type) <=> SameParameters(decls'[i].type, new.type)
      BY <2>4 DEF SameButSize, SameParameters
    <3>7. t1[decls'[i].name] = L + 1
      BY <1>4, <2>4, <2>6
    <3> HIDE DEF d, o
    <3>8. Known(decls', t1, i)
      BY <1>3, <2>4, <3>2, <3>5, <3>6, <3>7 DEF Known, SameButSize
    <3> QED BY <2>3, <3>8
  <2> QED BY <2>5, <2>6
<1>9. Known(decls', t1, L + 1)
  <2>1. CASE Binds(f)
    <3>1. t1[new.name] = L + 1
      BY <1>4, <1>5, <2>1
    <3>2. SameParameters(new.type, new.type)
      BY <1>5, SameParametersFacts
    <3> QED BY <1>3, <1>5, <3>1, <3>2 DEF Known
  <2>2. CASE ~Binds(f)
    <3>1. p # NoDecl /\ p \in 1..L /\ t1[new.name] = p
      BY <1>4, <1>5, <2>2
    <3>2. /\ f.type.shape = "func" /\ ~f.type.proto /\ decls[p].type.proto
      BY <2>2, <1>1 DEF Binds, Declared, p
    <3>3. SameButSize(decls[p], decls'[p])
      BY <1>3, <3>1
    <3>4. /\ decls[p].type.shape = new.type.shape
          /\ FitsUnprototyped(decls[p].type)
      BY <1>2, <1>5, <3>1, <3>2 DEF Agrees, new
    <3>5. FitsUnprototyped(decls'[p].type)
      BY <3>3, <3>4, SameButSizeFacts
    <3>6. decls'[p].type.shape = new.type.shape
      BY <3>3, <3>4 DEF SameButSize
    <3> QED BY <1>3, <1>5, <3>1, <3>2, <3>5, <3>6 DEF Known
  <2> QED BY <2>1, <2>2
<1>10. First(decls', L + 1)
  <2>1. CASE p = NoDecl
    BY <1>3, <1>4, <1>5, <2>1 DEF First
  <2>2. CASE p # NoDecl
    <3> DEFINE c == Canonical(f)
    <3>1. /\ p \in 1..L /\ FileDecl(decls[p]) /\ c = decls[p].canonical /\ c \in 1..L
          /\ decls[p].name = f.name
      BY <1>4, <2>2
    <3>2. /\ decls[p].kind = f.kind
          /\ f.kind = "func" /\ f.sc = "STATIC" => decls[p].sc = "STATIC"
      BY <1>2, <2>2 DEF Agrees
    <3>3. First(decls, p)
      BY <1>6, <3>1
    <3>4. /\ FileDecl(decls[c]) /\ decls[c].name = f.name /\ decls[c].kind = f.kind
          /\ f.kind = "func" /\ f.sc = "STATIC" => decls[c].sc = "STATIC"
      BY <3>1, <3>2, <3>3 DEF First
    <3>5. SameButSize(decls[c], decls'[c])
      BY <1>3, <3>1
    <3>6. new.canonical = c
      BY <1>5
    <3> HIDE DEF c
    <3>7. /\ FileDecl(decls'[c]) /\ decls'[c].name = f.name /\ decls'[c].kind = f.kind
          /\ f.kind = "func" /\ f.sc = "STATIC" => decls'[c].sc = "STATIC"
      BY <3>4, <3>5 DEF SameButSize, FileDecl
    <3> QED BY <1>3, <1>5, <3>6, <3>7 DEF First
  <2> QED BY <2>1, <2>2
<1>11. ASSUME NEW c \in 1..MaxDecls
       PROVE  Defined(decls', definitions', c)
  <2>1. /\ definitions' = IF f.body THEN [definitions EXCEPT ![Canonical(f)] = L + 1]
                                    ELSE definitions
    BY <1>1 DEF Declared, L
  <2>2. definitions \in [1..MaxDecls -> 0..L]
    BY DEF Inv, TypeOK, L
  <2>3. CASE f.body /\ c = Canonical(f)
    <3>1. definitions'[c] = L + 1
      BY <2>1, <2>2, <2>3
    <3> QED BY <1>3, <1>5, <2>3, <3>1 DEF Defined
  <2>4. CASE ~(f.body /\ c = Canonical(f))
    <3>1. definitions'[c] = definitions[c]
      BY <2>1, <2>2, <2>4
    <3> SUFFICES ASSUME definitions[c] # NoDecl PROVE Defined(decls', definitions', c)
      BY <3>1 DEF Defined
    <3> DEFINE b == definitions[c]
    <3>2. b \in 1..L
      BY <1>3, <2>2 DEF NoDecl
    <3>3. FileDecl(decls[b]) /\ decls[b].canonical = c /\ decls[b].body
      BY DEF TypesInv, TypesInvOf, Defined
    <3>4. SameButSize(decls[b], decls'[b])
      BY <1>3, <3>2
    <3>5. FileDecl(decls'[b]) /\ decls'[b].canonical = c /\ decls'[b].body
      <4> HIDE DEF b
      <4> QED BY <3>3, <3>4 DEF SameButSize, FileDecl
    <3> QED BY <3>1, <3>5 DEF Defined
  <2> QED BY <2>3, <2>4
<1>12. \A i \in 1..Len(decls') : Known(decls', t1, i) /\ First(decls', i)
  BY <1>8, <1>9, <1>10 DEF Known, First
<1> QED BY <1>11, <1>12 DEF TypesInv, TypesInvOf, t1

\* Only arrays have a size, and it is positive once it is known.
LEMMA DeclaredSize ==
  ASSUME Inv, NEW f \in Forms, Accepts(f, TRUE)
  PROVE  /\ f.type.size \in Int
         /\ Normalized(f.type).size = f.type.size
         /\ Normalized(f.type).shape = "array" <=> f.type.shape = "array"
         /\ f.type.size # 0
         /\ f.type.size > 0 => f.type.shape = "array"
<1> DEFINE t == Normalized(f.type)
<1>1. t \in Types /\ t.size = f.type.size /\ f.type \in Types
  <2>1. f \in FormSet
    BY FormsAssumption
  <2> QED BY <2>1, NormalizedFacts DEF Inv, FormSet
<1>2. t.shape = "array" <=> f.type.shape = "array"
  <2>1. CASE TagClash(f.type)
    <3>1. f.type.shape \in Tagged /\ f.type.tag \in Names
      BY <1>1, <2>1 DEF TagClash, Types
    <3>2. tags[f.type.tag] \in Tagged \union {"none"} /\ tags[f.type.tag] # "none"
      BY <2>1, <3>1 DEF TagClash, Inv, TypeOK
    <3>3. t.shape = tags[f.type.tag]
      BY <1>1, <2>1 DEF Normalized, Types
    <3> QED BY <3>1, <3>2, <3>3 DEF Tagged
  <2>2. CASE ~TagClash(f.type)
    BY <2>2 DEF Normalized
  <2> QED BY <2>1, <2>2
<1>3. f.type.size >= 0 => f.type.shape = "array"
  BY FormsAssumption
<1>4. t.shape = "array" => t.size # 0
  BY DEF Accepts, WellFormed, ValidType
<1>5. f.type.size \in Int
  BY <1>1 DEF Types
<1> HIDE DEF t
<1>6. f.type.size # 0
  BY <1>1, <1>2, <1>3, <1>4, <1>5
<1>7. f.type.size > 0 => f.type.shape = "array"
  BY <1>3, <1>5
<1> QED BY <1>1, <1>2, <1>5, <1>6, <1>7 DEF t

LEMMA SizesDeclared ==
  ASSUME Inv, FileInv, TypesInv, SizesInv, NEW f \in Forms, DeclaresAtFileScope(f),
         Accepts(f, TRUE), f.kind # "tag", phase' = "analyze" => phase = "analyze"
  PROVE  SizesInv'
<1> DEFINE L == Len(decls)
           p == Previous(f)
           o == decls[p]
           new == NewDecl(f, TRUE)
           s1 == scopes[1]
           t1 == scopes'[1]
           size == f.type.size
           array == f.type.shape = "array"
           completes == CompletesPrevious(f)
<1> SUFFICES ASSUME phase' = "analyze", NEW i \in 1..Len(decls'), FileDecl(decls'[i])
             PROVE  Sized(decls', t1, i)
  BY DEF SizesInv, Sized
<1>1. Declared(f) /\ Added(f)
  BY DeclaredFacts
<1>2. \A j \in 1..L : Sized(decls, s1, j) /\ Known(decls, s1, j)
  BY DEF SizesInv, TypesInv, TypesInvOf
<1>3. /\ L \in Nat /\ decls'[L + 1] = new
      /\ \A j \in 1..L : /\ decls'[j] = Completed(f, TRUE, j)
                         /\ SameButSize(decls[j], decls'[j])
      /\ i # L + 1 => i \in 1..L /\ FileDecl(decls[i])
  BY <1>1 DEF Declared
<1>4. /\ p = s1[f.name] /\ f.name \in Names
      /\ p = NoDecl => Binds(f)
      /\ p # NoDecl => p \in 1..L /\ FileDecl(o) /\ o.name = f.name
      /\ Binds(f) => t1[f.name] = L + 1
      /\ ~Binds(f) => t1[f.name] = p
      /\ \A n \in Names : n # f.name => t1[n] = s1[n]
  BY <1>1 DEF Declared
<1>5. /\ size \in Int /\ size # 0 /\ (size > 0 => array)
      /\ Normalized(f.type).shape = "array" <=> array
      /\ Normalized(f.type).size = size
  BY DeclaredSize
<1>6. /\ new.name = f.name /\ FileDecl(new)
      /\ new.type.shape = "array" <=> array
      /\ new.type.size = IF array /\ size < 0 /\ p # NoDecl THEN o.type.size ELSE size
      /\ new.type.size = SharedSize(f)
      /\ Normalized(f.type).shape = new.type.shape /\ Normalized(f.type).tag = new.type.tag
  BY <1>1, <1>5 DEF Added, SharedSize
<1>7. p # NoDecl => /\ o.type.shape = new.type.shape /\ o.type.size \in Int
                    /\ array => o.type.size < 0 \/ size < 0 \/ o.type.size = size
                    /\ new.type.shape \in Tagged => o.type.tag # NoName /\ o.type.tag = new.type.tag
  <2> SUFFICES ASSUME p # NoDecl
               PROVE  /\ o.type.shape = new.type.shape /\ o.type.size \in Int
                      /\ array => o.type.size < 0 \/ size < 0 \/ o.type.size = size
                      /\ new.type.shape \in Tagged => o.type.tag # NoName /\ o.type.tag = new.type.tag
    OBVIOUS
  <2>1. Compatible(o.type, Normalized(f.type))
    BY DEF Accepts, Redeclares
  <2>2. o \in DeclSet
    BY PreviousFacts DEF Inv
  <2> QED BY <1>5, <1>6, <2>1, <2>2 DEF Compatible, DeclSet, Types
<1>8. completes => p # NoDecl /\ array /\ size >= 0 /\ o.type.size < 0
  BY DEF CompletesPrevious
<1>9. ~Binds(f) => p # NoDecl /\ f.type.shape = "func"
  BY <1>1 DEF Binds
<1>10. \A j \in 1..L : ~(completes /\ j = p) => decls'[j] = decls[j]
  BY <1>3 DEF Completed
<1>11. ASSUME completes
       PROVE  decls'[p].type.size = size
  <2>1. p \in 1..L /\ decls'[p] = [decls[p] EXCEPT !.type.size = size]
    BY <1>3, <1>4, <1>8, <1>11 DEF Completed
  <2>2. decls[p] \in DeclSet
    BY <2>1, ElementOfSeq DEF Inv, TypeOK
  <2> QED BY <2>1, <2>2 DEF DeclSet, Types
<1>12. CASE i = L + 1
  <2>1. Binds(f) => t1[new.name] = L + 1
    BY <1>4, <1>6
  <2>2. ~Binds(f) => size < 0 /\ new.type.shape \notin Tagged /\ new.type.size = size
    <3>1. Normalized(f.type).shape = "func" <=> f.type.shape = "func"
      BY NormalizedFacts DEF Inv
    <3>2. ~Binds(f) => ~array /\ new.type.shape = "func"
      BY <1>6, <1>9, <3>1
    <3>3. "func" \notin Tagged
      BY DEF Tagged
    <3> HIDE DEF p, o, new, size, array
    <3>4. ~array => size < 0 /\ new.type.size = size
      BY <1>5, <1>6
    <3> QED BY <3>2, <3>3, <3>4
  <2>3. p # NoDecl => o.type.size # 0
    BY <1>2, <1>4 DEF Sized
  <2>4. new.type.size # 0 /\ (new.type.size > 0 => array)
    BY <1>5, <1>6, <2>3
  <2> HIDE DEF L, p, o, new, s1, t1, size, array, completes
  <2>5. /\ decls'[i] = new /\ L + 1 = i /\ size \in Int
        /\ new.type.shape = "array" <=> array
    BY <1>3, <1>5, <1>6, <1>12
  <2>6. CASE Binds(f)
    <3>1. decls'[t1[decls'[i].name]] = new /\ t1[decls'[i].name] = i
      BY <2>1, <2>5, <2>6
    <3> QED BY <2>4, <2>5, <3>1 DEF Sized
  <2>7. CASE ~Binds(f)
    <3>1. size < 0 /\ new.type.shape \notin Tagged /\ new.type.size = size
      BY <2>2, <2>7
    <3>2. ~(new.type.size > 0)
      BY <2>5, <3>1
    <3> QED BY <2>4, <2>5, <3>1, <3>2 DEF Sized
  <2> QED BY <2>6, <2>7
<1>13. CASE i # L + 1 /\ decls[i].name # f.name
  <2>1. /\ i \in 1..L /\ FileDecl(decls[i]) /\ decls[i].name \in Names
        /\ s1[decls[i].name] \in 1..L /\ decls[s1[decls[i].name]].name = decls[i].name
    BY <1>3, <1>13, FileBindings
  <2>2. /\ decls'[i] = decls[i] /\ decls'[s1[decls[i].name]] = decls[s1[decls[i].name]]
        /\ t1[decls[i].name] = s1[decls[i].name]
    BY <1>4, <1>8, <1>10, <1>13, <2>1
  <2> DEFINE d == decls[i]
             c == decls[s1[d.name]]
  <2>3. decls'[i] = d /\ decls'[t1[d.name]] = c /\ t1[d.name] = s1[d.name]
    BY <2>2
  <2>4. Sized(decls, s1, i)
    BY <1>2, <2>1
  <2>5. /\ d.type.size # 0
        /\ d.type.size > 0 => d.type.shape = "array" /\ c.type.size = d.type.size
        /\ d.type.shape \in Tagged /\ s1[d.name] # i
             => d.type.tag # NoName /\ d.type.tag = c.type.tag
    BY <2>1, <2>4, Zenon DEF Sized
  <2> HIDE DEF d, c
  <2> QED BY <2>3, <2>5, Zenon DEF Sized
<1>14. CASE i # L + 1 /\ decls[i].name = f.name
  <2> DEFINE d == decls[i]
             e == decls'[i]
  <2>1. i \in 1..L /\ FileDecl(d) /\ s1[d.name] = p /\ p # NoDecl /\ p \in 1..L
    <3>1. i \in 1..L /\ FileDecl(d)
      BY <1>3, <1>14
    <3>2. s1[d.name] \in 1..L
      BY <3>1, FileBindings
    <3> QED BY <1>3, <1>4, <1>14, <3>1, <3>2 DEF NoDecl
  <2>2. /\ d.type.shape = o.type.shape
        /\ d.type.size # 0
        /\ d.type.size > 0 => d.type.shape = "array" /\ o.type.size = d.type.size
        /\ d.type.shape \in Tagged /\ i # p => d.type.tag # NoName /\ d.type.tag = o.type.tag
    BY <1>2, <2>1 DEF Sized, Known
  <2>3. /\ e.name = f.name /\ e.type.shape = d.type.shape
        /\ ~(completes /\ i = p) => e = d
        /\ completes /\ i = p => e.type.size = size
    BY <1>3, <1>10, <1>11, <1>14, <2>1 DEF SameButSize
  <2>4. CASE Binds(f)
    <3>1. t1[e.name] = L + 1
      BY <1>4, <2>3, <2>4
    <3>2. e.type.size # 0
      BY <1>5, <2>2, <2>3
    <3>3. e.type.size > 0 => e.type.shape = "array" /\ new.type.size = e.type.size
      <4>1. CASE completes /\ i = p
        <5>1. /\ e.type.size = size /\ array /\ size >= 0 /\ p # NoDecl
              /\ e.type.shape = d.type.shape /\ d.type.shape = o.type.shape
              /\ o.type.shape = new.type.shape
          BY <1>7, <1>8, <2>2, <2>3, <4>1
        <5> HIDE DEF L, p, o, new, s1, t1, size, array, completes, d, e
        <5>2. ~(size < 0)
          BY <1>5, <5>1
        <5> QED BY <1>6, <5>1, <5>2
      <4>2. CASE ~(completes /\ i = p)
        <5>1. e = d
          BY <2>3, <4>2
        <5> HIDE DEF L, p, o, new, s1, t1, size, array, completes, d, e
        <5> QED BY <1>5, <1>6, <1>7, <2>1, <2>2, <5>1
      <4> QED BY <4>1, <4>2
    <3>4. e.type.shape \in Tagged => e.type.tag # NoName /\ e.type.tag = new.type.tag
      <4>1. e.type.shape \in Tagged => e = d
        BY <1>6, <1>7, <1>8, <2>1, <2>2, <2>3 DEF Tagged
      <4> HIDE DEF L, p, new, s1, t1, size, array, completes, d, e
      <4> QED BY <1>7, <2>1, <2>2, <4>1 DEF d
    <3> HIDE DEF d, new
    <3> QED BY <1>3, <3>1, <3>2, <3>3, <3>4 DEF Sized
  <2>5. CASE ~Binds(f)
    <3>1. ~completes /\ t1[d.name] = p
      BY <1>4, <1>8, <1>9, <1>14, <2>5
    <3>2. decls'[i] = d /\ decls'[p] = o
      BY <1>10, <2>1, <3>1
    <3> QED BY <1>2, <2>1, <3>1, <3>2 DEF Sized
  <2> QED BY <2>4, <2>5
<1> QED BY <1>12, <1>13, <1>14

LEMMA PhaseStays ==
  ASSUME [Next]_vars, phase' = "analyze"
  PROVE  phase = "analyze"
<1>1. CASE Statement
  BY <1>1 DEF Statement, DeclareInBlock, OpenBlock, CloseBlock, OpenFor,
              DeclareForInitializer, EnterForBody, CloseFor, OpenWhile, CloseWhile,
              Jump, Use, Call
<1>2. CASE EndOfUnit
  BY <1>2 DEF EndOfUnit
<1>3. CASE DeclareAtFileScope \/ DefineFunction \/ EndFunction \/ UNCHANGED vars
  BY <1>3 DEF DeclareAtFileScope, DefineFunction, EndFunction, vars
<1> QED BY <1>1, <1>2, <1>3 DEF Next

LEMMA TypesInvIsInductive == Inv /\ FileInv /\ TypesInv /\ [Next]_vars => TypesInv'
<1> SUFFICES ASSUME Inv, FileInv, TypesInv, [Next]_vars PROVE TypesInv'
  OBVIOUS
<1>1. decls' \in Seq(DeclSet)
  BY ScopesPreserved DEF Inv, ScopesStep, DeclsOK
<1> QED BY <1>1, FileScopeCases, TypesLeft, TypesDeclared

LEMMA SizesInvIsInductive ==
  Inv /\ FileInv /\ TypesInv /\ SizesInv /\ [Next]_vars => SizesInv'
<1> SUFFICES ASSUME Inv, FileInv, TypesInv, SizesInv, [Next]_vars PROVE SizesInv'
  OBVIOUS
<1>1. decls' \in Seq(DeclSet)
  BY ScopesPreserved DEF Inv, ScopesStep, DeclsOK
<1>2. phase' = "analyze" => phase = "analyze"
  BY PhaseStays
<1> QED BY <1>1, <1>2, FileScopeCases, SizesLeft, SizesDeclared

LEMMA InitHasTypesInv == Init => TypesInv /\ SizesInv
<1> SUFFICES ASSUME Init PROVE TypesInv /\ SizesInv
  OBVIOUS
<1>1. decls = <<>> /\ \A c \in 1..MaxDecls : definitions[c] = NoDecl
  BY DEF Init
<1>2. Len(decls) = 0
  BY <1>1
<1>3. 1..Len(decls) = {}
  BY <1>2
<1> QED BY <1>1, <1>3 DEF TypesInv, TypesInvOf, SizesInv, Defined

\* Any two accepted declarations of a name agree with the one it is bound to,
\* and so with each other.
LEMMA AgreeThroughBinding ==
  ASSUME Inv, FileInv, TypesInv, SizesInv, phase = "analyze",
         NEW i \in 1..Len(decls), NEW j \in 1..Len(decls), i # j,
         FileDecl(decls[i]), FileDecl(decls[j]), decls[i].name = decls[j].name
  PROVE  decls[i].kind = decls[j].kind /\ Compatible(decls[i].type, decls[j].type)
<1> DEFINE b == scopes[1][decls[i].name]
           s == decls[b].type
           t == decls[i].type
           u == decls[j].type
<1>1. b \in 1..Len(decls)
  BY FileBindings
<1>2. s \in Types /\ t \in Types /\ u \in Types
  <2>1. \A k \in 1..Len(decls) : decls[k] \in DeclSet
    BY ElementOfSeq DEF Inv, TypeOK
  <2> QED BY <1>1, <2>1 DEF DeclSet
<1>3. decls[i].kind = decls[j].kind
  BY DEF FileInv, FileInvOf, Shared
<1>4. /\ Known(decls, scopes[1], i) /\ Known(decls, scopes[1], j)
      /\ Sized(decls, scopes[1], i) /\ Sized(decls, scopes[1], j)
  BY DEF TypesInv, TypesInvOf, SizesInv
<1>5. /\ t.shape = s.shape /\ u.shape = s.shape
      /\ t.proto => s.proto /\ SameParameters(t, s)
      /\ u.proto => s.proto /\ SameParameters(u, s)
      /\ ~(t.proto /\ u.proto) /\ s.proto => FitsUnprototyped(s)
  BY <1>4 DEF Known
<1>6. /\ t.size # 0 /\ u.size # 0
      /\ t.size > 0 => s.size = t.size
      /\ u.size > 0 => s.size = u.size
      /\ t.shape \in Tagged /\ b # i => t.tag # NoName /\ t.tag = s.tag
      /\ u.shape \in Tagged /\ b # j => u.tag # NoName /\ u.tag = s.tag
  BY <1>4 DEF Sized
<1>7. /\ SameParameters(t, s) /\ SameParameters(u, s) => SameParameters(t, u)
      /\ SameParameters(t, s) /\ FitsUnprototyped(s) => FitsUnprototyped(t)
      /\ SameParameters(u, s) /\ FitsUnprototyped(s) => FitsUnprototyped(u)
  BY <1>2, SameParametersFacts
<1>8. t.size < 0 \/ u.size < 0 \/ t.size = u.size
  <2>1. t.size \in Int /\ u.size \in Int
    BY <1>2 DEF Types
  <2> HIDE DEF s, t, u
  <2> QED BY <1>6, <2>1
<1>9. t.shape \in Tagged => t.tag # NoName /\ t.tag = u.tag
  <2>1. b = i => t = s
    OBVIOUS
  <2>2. b = j => u = s
    OBVIOUS
  <2> HIDE DEF s, t, u, b
  <2> QED BY <1>5, <1>6, <2>1, <2>2
<1> HIDE DEF s, t, u
<1>10. CompatibleFunctions(t, u)
  BY <1>5, <1>7 DEF CompatibleFunctions
<1> QED BY <1>3, <1>5, <1>8, <1>9, <1>10 DEF Compatible, t, u

(* The accepted declarations of a name never contradict each other, though *)
(* each was compared with one of them only.                                *)
THEOREM RedeclarationsCorrect == Spec => []RedeclarationsAgree
<1>1. Inv /\ FileInv /\ TypesInv /\ SizesInv => RedeclarationsAgree
  <2> SUFFICES ASSUME Inv, FileInv, TypesInv, SizesInv, phase = "analyze",
                      NEW i \in DOMAIN decls, NEW j \in DOMAIN decls,
                      SameName(i, j), i # j
               PROVE  /\ decls[i].kind = decls[j].kind
                      /\ Compatible(decls[i].type, decls[j].type)
    BY DEF RedeclarationsAgree
  <2>1. i \in 1..Len(decls) /\ j \in 1..Len(decls)
    BY LenProperties DEF Inv, TypeOK
  <2>2. FileDecl(decls[i]) /\ FileDecl(decls[j]) /\ decls[i].name = decls[j].name
    BY DEF SameName, AtFileScope, FileDecl
  <2> QED BY <2>1, <2>2, AgreeThroughBinding
<1> QED BY <1>1, InitHasInv, InvIsInductive, InitHasFileInv, FileInvIsInductive,
           InitHasTypesInv, TypesInvIsInductive, SizesInvIsInductive, PTL DEF Spec

(* A later use of a name sees the prototype and the array size any of its   *)
(* accepted declarations has given.                                        *)
THEOREM VisibleCorrect == Spec => []VisibleIsComposite
<1>1. Inv /\ FileInv /\ TypesInv /\ SizesInv => VisibleIsComposite
  <2> SUFFICES ASSUME Inv, TypesInv, SizesInv, phase = "analyze",
                      NEW i \in DOMAIN decls, AtFileScope(i)
               PROVE  LET seen == decls[scopes[1][decls[i].name]].type
                      IN  /\ decls[i].type.proto => seen.proto
                          /\ decls[i].type.size > 0 => seen.size = decls[i].type.size
    BY DEF VisibleIsComposite
  <2>1. i \in 1..Len(decls) /\ FileDecl(decls[i])
    BY LenProperties DEF Inv, TypeOK, AtFileScope, FileDecl
  <2>2. Known(decls, scopes[1], i) /\ Sized(decls, scopes[1], i)
    BY <2>1 DEF TypesInv, TypesInvOf, SizesInv
  <2> QED BY <2>1, <2>2 DEF Known, Sized
<1> QED BY <1>1, InitHasInv, InvIsInductive, InitHasFileInv, FileInvIsInductive,
           InitHasTypesInv, TypesInvIsInductive, SizesInvIsInductive, PTL DEF Spec

-----------------------------------------------------------------------------
(* The refinement: what a function is known by, read off a type.           *)
Sym(t, body) ==
  [known    |-> IF t.proto THEN "prototype" ELSE "unspecified",
   params   |-> [i \in DOMAIN t.params |-> t.params[i].shape],
   variadic |-> t.variadic,
   body     |-> body]

LEMMA SymIsSymbol ==
  ASSUME NEW t \in Types, NEW body \in Nat
  PROVE  Sym(t, body) \in Symbols!Symbols /\ Sym(t, body).known # "nothing"
<1> DEFINE s == [i \in DOMAIN t.params |-> t.params[i].shape]
           k == IF t.proto THEN "prototype" ELSE "unspecified"
<1>1. t.params \in Seq(Params) /\ t.variadic \in BOOLEAN
  BY DEF Types
<1>2. DOMAIN t.params = 1..Len(t.params) /\ Len(t.params) \in Nat
  BY <1>1, LenProperties
<1>3. \A i \in 1..Len(t.params) : t.params[i].shape \in Shapes
  <2>1. \A i \in 1..Len(t.params) : t.params[i] \in Params
    BY <1>1, ElementOfSeq
  <2> QED BY <2>1 DEF Params, Shapes
<1>4. s \in Seq(Shapes)
  <2>1. s \in [1..Len(t.params) -> Shapes]
    BY <1>2, <1>3
  <2> HIDE DEF s
  <2> QED BY <1>2, <2>1, SeqDef
<1>5. k \in {"unspecified", "prototype"}
  OBVIOUS
<1>6. Sym(t, body) = [known |-> k, params |-> s, variadic |-> t.variadic, body |-> body]
  BY DEF Sym
<1> HIDE DEF s, k
<1> QED BY <1>1, <1>4, <1>5, <1>6 DEF Symbols!Symbols

LEMMA SymExtends ==
  ASSUME NEW t \in Types, NEW u \in Types, NEW b, NEW c,
         t.proto => u.proto /\ SameParameters(t, u),
         ~t.proto /\ u.proto => FitsUnprototyped(u),
         ~t.proto /\ u.proto /\ b # 0 => u.params = <<>>,
         b # 0 => c = b
  PROVE  Symbols!Extends(Sym(t, b), Sym(u, c))
<1> DEFINE x == Sym(t, b)
           y == Sym(u, c)
<1>1. /\ x.known = IF t.proto THEN "prototype" ELSE "unspecified"
      /\ y.known = IF u.proto THEN "prototype" ELSE "unspecified"
      /\ x.params = [i \in DOMAIN t.params |-> t.params[i].shape]
      /\ y.params = [i \in DOMAIN u.params |-> u.params[i].shape]
      /\ x.variadic = t.variadic /\ y.variadic = u.variadic
      /\ x.body = b /\ y.body = c
  BY DEF Sym
<1>2. DOMAIN t.params = 1..Len(t.params) /\ DOMAIN u.params = 1..Len(u.params)
  BY LenProperties DEF Types
<1> HIDE DEF x, y
<1>3. SameParameters(t, u) => y.params = x.params /\ y.variadic = x.variadic
  BY <1>1, <1>2 DEF SameParameters
<1>4. FitsUnprototyped(u) => Symbols!Promotable(y)
  BY <1>1 DEF FitsUnprototyped, Symbols!Promotable
<1>5. u.params = <<>> => y.params = <<>>
  BY <1>1
<1>6. CASE t.proto
  <2>1. u.proto /\ SameParameters(t, u)
    BY <1>6
  <2>2. x.known = "prototype" /\ y.known = "prototype"
    BY <1>1, <1>6, <2>1
  <2>3. y.params = x.params /\ y.variadic = x.variadic
    BY <1>3, <2>1
  <2> QED BY <1>1, <2>2, <2>3 DEF Symbols!Extends, x, y
<1>7. CASE ~t.proto /\ ~u.proto
  <2>1. x.known = "unspecified" /\ y.known = "unspecified"
    BY <1>1, <1>7
  <2> QED BY <1>1, <2>1 DEF Symbols!Extends, x, y
<1>8. CASE ~t.proto /\ u.proto
  <2>1. x.known = "unspecified" /\ y.known = "prototype"
    BY <1>1, <1>8
  <2>2. Symbols!Promotable(y) /\ (x.body # 0 => y.params = <<>>)
    BY <1>1, <1>4, <1>5, <1>8
  <2> QED BY <1>1, <2>1, <2>2 DEF Symbols!Extends, x, y
<1> QED BY <1>6, <1>7, <1>8

\* What a name is bound to at file scope.
LEMMA OutermostBinding ==
  ASSUME Inv, NEW n \in Names, scopes[1][n] # NoDecl
  PROVE  /\ scopes[1][n] \in 1..Len(decls)
         /\ FileDecl(decls[scopes[1][n]]) /\ decls[scopes[1][n]].name = n
         /\ decls[scopes[1][n]].canonical \in 1..Len(decls)
         /\ decls[scopes[1][n]].type \in Types
<1>1. /\ Len(decls) \in Nat /\ 1 \in 1..Len(scopes)
      /\ \A k \in 1..Len(scopes) : scopes[k] \in [Names -> 0..Len(decls)]
  BY TypeParts DEF Inv
<1>2. scopes[1][n] \in 0..Len(decls)
  BY <1>1
<1>3. scopes[1][n] \in 1..Len(decls)
  BY <1>1, <1>2 DEF NoDecl
<1>4. Binding(decls, scopes, opened, 1, n)
  BY <1>1 DEF Inv, ScopesInv, ScopesInvOf
<1>5. FileDecl(decls[scopes[1][n]]) /\ decls[scopes[1][n]].name = n
  BY <1>4 DEF Binding, FileDecl
<1>6. decls[scopes[1][n]].canonical \in 1..Len(decls)
  BY <1>3, <1>5, FileBindings
<1>7. decls[scopes[1][n]] \in DeclSet
  BY <1>3, ElementOfSeq DEF Inv, TypeOK
<1> QED BY <1>3, <1>5, <1>6, <1>7 DEF DeclSet

\* SymbolOf, in this and in the next state.
SymbolIn(ds, b, defs) ==
  IF b = NoDecl \/ ds[b].kind # "func" THEN Symbols!Unknown
  ELSE Sym(ds[b].type, defs[ds[b].canonical])

LEMMA SymbolIs ==
  ASSUME NEW n
  PROVE  /\ SymbolOf(n) = SymbolIn(decls, scopes[1][n], definitions)
         /\ SymbolOf(n)' = SymbolIn(decls', scopes'[1][n], definitions')
BY DEF SymbolOf, SymbolIn, Sym, Symbols!Unknown

LEMMA SymbolKept ==
  ASSUME NEW ds, NEW es, NEW b, NEW defs, NEW edefs,
         b # NoDecl => SameButSize(ds[b], es[b]) /\ edefs[ds[b].canonical] = defs[ds[b].canonical]
  PROVE  SymbolIn(es, b, edefs) = SymbolIn(ds, b, defs)
<1>1. CASE b = NoDecl
  BY <1>1 DEF SymbolIn
<1>2. CASE b # NoDecl
  <2>1. /\ es[b].kind = ds[b].kind /\ es[b].canonical = ds[b].canonical
        /\ es[b].type.proto = ds[b].type.proto /\ es[b].type.params = ds[b].type.params
        /\ es[b].type.variadic = ds[b].type.variadic
        /\ edefs[ds[b].canonical] = defs[ds[b].canonical]
    BY <1>2 DEF SameButSize
  <2>2. Sym(es[b].type, edefs[es[b].canonical]) = Sym(ds[b].type, defs[ds[b].canonical])
    BY <2>1 DEF Sym
  <2> QED BY <2>1, <2>2 DEF SymbolIn
<1> QED BY <1>1, <1>2

\* A declaration teaches something of its own name only.
LEMMA OthersKept ==
  ASSUME Inv, FileInv, TypesInv, NEW f \in Forms, DeclaresAtFileScope(f),
         Accepts(f, TRUE), f.kind # "tag", NEW n \in Names, n # f.name
  PROVE  SymbolOf(n)' = SymbolOf(n)
<1> DEFINE b == scopes[1][n]
           p == Previous(f)
           L == Len(decls)
<1>1. Declared(f)
  BY DeclaredFacts
<1>2. scopes'[1][n] = b
  BY <1>1 DEF Declared
<1>3. ASSUME b # NoDecl
      PROVE  /\ SameButSize(decls[b], decls'[b])
             /\ definitions'[decls[b].canonical] = definitions[decls[b].canonical]
  <2> DEFINE c == decls[b].canonical
  <2>1. /\ b \in 1..L /\ FileDecl(decls[b]) /\ decls[b].name = n /\ c \in 1..L
    BY <1>3, OutermostBinding
  <2>2. SameButSize(decls[b], decls'[b])
    BY <1>1, <2>1 DEF Declared
  <2>3. decls[c].name = n
    BY <2>1 DEF TypesInv, TypesInvOf, First
  <2>4. c # Canonical(f)
    <3>1. CASE p = NoDecl
      <4>1. Canonical(f) = L + 1 /\ L \in Nat
        BY <1>1, <3>1 DEF Declared
      <4> HIDE DEF c, L
      <4> QED BY <2>1, <4>1
    <3>2. CASE p # NoDecl
      <4>1. /\ p \in 1..L /\ FileDecl(decls[p]) /\ decls[p].name = f.name
            /\ Canonical(f) = decls[p].canonical
        BY <1>1, <3>2 DEF Declared
      <4>2. First(decls, p)
        BY <4>1 DEF TypesInv, TypesInvOf
      <4>3. decls[Canonical(f)].name = f.name
        BY <4>1, <4>2 DEF First
      <4> QED BY <2>3, <4>3
    <3> QED BY <3>1, <3>2
  <2>5. definitions' = IF f.body THEN [definitions EXCEPT ![Canonical(f)] = L + 1]
                                 ELSE definitions
    BY <1>1 DEF Declared
  <2>6. definitions \in [1..MaxDecls -> 0..L]
    BY DEF Inv, TypeOK
  <2>7. c \in 1..MaxDecls
    <3>1. L \in Nat /\ MaxDecls \in Nat /\ L < MaxDecls
      BY <1>1 DEF Declared
    <3> HIDE DEF c, L
    <3> QED BY <2>1, <3>1
  <2> HIDE DEF c, L
  <2> QED BY <2>2, <2>4, <2>5, <2>6, <2>7 DEF c
<1> HIDE DEF b
<1>4. SymbolIn(decls', b, definitions') = SymbolIn(decls, b, definitions)
  BY <1>3, SymbolKept
<1> QED BY <1>2, <1>4, SymbolIs DEF b

\* And of that name it teaches what extends what was known.
LEMMA OwnExtended ==
  ASSUME Inv, FileInv, TypesInv, NEW f \in Forms, DeclaresAtFileScope(f),
         Accepts(f, TRUE), f.kind # "tag", decls' \in Seq(DeclSet)
  PROVE  \/ SymbolOf(f.name)' = SymbolOf(f.name)
         \/ /\ SymbolOf(f.name)' \in Symbols!Symbols
            /\ Symbols!Extends(SymbolOf(f.name), SymbolOf(f.name)')
<1> DEFINE L == Len(decls)
           p == Previous(f)
           new == NewDecl(f, TRUE)
           t1 == scopes'[1]
           c == Canonical(f)
<1>1. Declared(f) /\ Added(f)
  BY DeclaredFacts
<1>2. /\ L \in Nat /\ L < MaxDecls /\ MaxDecls \in Nat
      /\ decls'[L + 1] = new /\ f.name \in Names
      /\ \A i \in 1..L : SameButSize(decls[i], decls'[i])
      /\ p = scopes[1][f.name]
      /\ p = NoDecl => c = L + 1 /\ Binds(f)
      /\ p # NoDecl => /\ p \in 1..L /\ FileDecl(decls[p]) /\ decls[p].name = f.name
                       /\ decls[p].kind = f.kind
                       /\ c = decls[p].canonical /\ c \in 1..L
      /\ Binds(f) => t1[f.name] = L + 1
      /\ ~Binds(f) => t1[f.name] = p
      /\ f.kind = "func" => f.type.shape = "func"
  BY <1>1 DEF Declared
<1>3. /\ new.kind = f.kind /\ new.canonical = c /\ new.type \in Types
      /\ new.type.proto = f.type.proto /\ new.type.params = f.type.params
  BY <1>1 DEF Added
<1>4. definitions \in [1..MaxDecls -> 0..L]
  BY DEF Inv, TypeOK
<1>5. definitions' = IF f.body THEN [definitions EXCEPT ![c] = L + 1] ELSE definitions
  BY <1>1 DEF Declared
<1>6. ~BodyConflict(f)
  BY DEF Accepts
<1>7. /\ SymbolOf(f.name) = SymbolIn(decls, p, definitions)
      /\ SymbolOf(f.name)' = SymbolIn(decls', t1[f.name], definitions')
  BY <1>2, SymbolIs
<1>8. CASE f.kind # "func"
  <2>1. SymbolIn(decls, p, definitions) = Symbols!Unknown
    BY <1>2, <1>8 DEF SymbolIn
  <2>2. SymbolIn(decls', t1[f.name], definitions') = Symbols!Unknown
    <3>1. CASE Binds(f)
      BY <1>2, <1>3, <1>8, <3>1 DEF SymbolIn
    <3>2. CASE ~Binds(f)
      <4>1. p # NoDecl /\ SameButSize(decls[p], decls'[p]) /\ t1[f.name] = p
        BY <1>2, <3>2
      <4> QED BY <1>2, <1>8, <4>1 DEF SymbolIn, SameButSize
    <3> QED BY <3>1, <3>2
  <2> QED BY <1>7, <2>1, <2>2
<1>9. CASE f.kind = "func"
  <2> DEFINE b == t1[f.name]
             t == decls'[b].type
             body == definitions'[c]
  <2>1. /\ b # NoDecl /\ b \in 1..(L + 1) /\ decls'[b].kind = "func"
        /\ decls'[b].canonical = c
    <3>1. CASE Binds(f)
      <4>1. b = L + 1 /\ decls'[b] = new
        BY <1>2, <3>1
      <4>2. decls'[b].kind = "func" /\ decls'[b].canonical = c
        BY <1>3, <1>9, <4>1
      <4> HIDE DEF b, L
      <4> QED BY <1>2, <4>1, <4>2 DEF NoDecl
    <3>2. CASE ~Binds(f)
      <4>1. b = p /\ p # NoDecl /\ p \in 1..L /\ SameButSize(decls[p], decls'[p])
            /\ decls[p].kind = "func" /\ decls[p].canonical = c
        BY <1>2, <1>9, <3>2
      <4>2. decls'[b].kind = "func" /\ decls'[b].canonical = c
        BY <4>1 DEF SameButSize
      <4> HIDE DEF b, L, p
      <4> QED BY <1>2, <4>1, <4>2
    <3> QED BY <3>1, <3>2
  <2>2. SymbolOf(f.name)' = Sym(t, body)
    BY <1>7, <2>1 DEF SymbolIn
  <2>3. t \in Types
    <3>1. CASE b = L + 1
      BY <1>2, <1>3, <3>1
    <3>2. CASE b # L + 1
      <4> DEFINE M == Len(decls')
      <4>1. M >= L + 1 /\ M \in Nat
        BY LenProperties DEF DeclaresAtFileScope
      <4>2. b \in 1..M
        <5> HIDE DEF b, L, M
        <5> QED BY <1>2, <2>1, <4>1
      <4>3. decls'[b] \in DeclSet
        BY <4>2, ElementOfSeq
      <4> QED BY <4>3 DEF DeclSet
    <3> QED BY <3>1, <3>2
  <2>4. c \in 1..MaxDecls
    <3> HIDE DEF c, p, L
    <3> QED BY <1>2
  <2>5. body \in Nat /\ definitions[c] \in 0..L
    <3>1. body = IF f.body THEN L + 1 ELSE definitions[c]
      BY <1>4, <1>5, <2>4
    <3>2. definitions[c] \in 0..L
      BY <1>4, <2>4
    <3> HIDE DEF body, c, L
    <3> QED BY <1>2, <3>1, <3>2
  <2>6. SymbolOf(f.name)' \in Symbols!Symbols /\ SymbolOf(f.name)'.known # "nothing"
    <3>1. Sym(t, body) \in Symbols!Symbols /\ Sym(t, body).known # "nothing"
      <4> HIDE DEF t, body
      <4> QED BY <2>3, <2>5, SymIsSymbol
    <3> QED BY <2>2, <3>1
  <2>7. CASE p = NoDecl
    <3>1. SymbolOf(f.name) = Symbols!Unknown
      BY <1>7, <2>7 DEF SymbolIn
    <3> HIDE DEF p
    <3> QED BY <2>6, <3>1 DEF Symbols!Extends, Symbols!Unknown
  <2>8. CASE p # NoDecl
    <3> DEFINE o == decls[p].type
    <3>1. SymbolOf(f.name) = Sym(o, definitions[c])
      BY <1>2, <1>7, <1>9, <2>8 DEF SymbolIn
    <3>2. Agrees(f, decls[p])
      BY <1>1, <2>8, AgreesWithPrevious
    <3>3. o \in Types
      BY <3>2 DEF Agrees
    <3>4. definitions[c] # NoDecl => body = definitions[c]
      <4>1. definitions[c] # NoDecl => ~f.body
        BY <1>6, <1>9 DEF BodyConflict
      <4> QED BY <1>5, <4>1
    <3>5. /\ o.proto => t.proto /\ SameParameters(o, t)
          /\ ~o.proto /\ t.proto => Binds(f) /\ FitsUnprototyped(t)
      <4>1. CASE Binds(f)
        <5>1. t = new.type
          BY <1>2, <4>1
        <5> HIDE DEF t, o, new
        <5> QED BY <3>2, <4>1, <5>1 DEF Agrees, o, new
      <4>2. CASE ~Binds(f)
        <5>1. /\ b = p /\ SameButSize(decls[p], decls'[p])
          BY <1>2, <2>8, <4>2
        <5>2. SameParameters(o, o)
          BY <3>3, SameParametersFacts
        <5>3. t.proto = o.proto /\ (SameParameters(o, t) <=> SameParameters(o, o))
          BY <5>1 DEF SameButSize, SameParameters
        <5>4. o.proto
          BY <1>1, <4>2 DEF Binds
        <5> HIDE DEF t, o
        <5> QED BY <5>2, <5>3, <5>4
      <4> QED BY <4>1, <4>2
    <3>6. ASSUME ~o.proto, t.proto, definitions[c] # NoDecl
          PROVE  t.params = <<>>
      <4> DEFINE d == definitions[c]
      <4>1. Binds(f)
        BY <3>5, <3>6
      <4>2. t = new.type
        BY <1>2, <4>1
      <4>3. d \in 1..L
        BY <1>2, <2>5, <3>6 DEF NoDecl
      <4>4. FileDecl(decls[d]) /\ decls[d].canonical = c
        BY <2>4, <3>6 DEF TypesInv, TypesInvOf, Defined
      <4>5. decls[d].name = f.name
        <5>1. decls[c].name = decls[d].name
          BY <4>3, <4>4 DEF TypesInv, TypesInvOf, First
        <5>2. decls[c].name = f.name
          BY <1>2, <2>8 DEF TypesInv, TypesInvOf, First
        <5> QED BY <5>1, <5>2
      <4>6. ~decls[d].type.proto
        <5>1. Known(decls, scopes[1], d)
          BY <4>3 DEF TypesInv, TypesInvOf
        <5>2. scopes[1][decls[d].name] = p
          BY <1>2, <4>5
        <5>3. decls[d].type.proto => o.proto
          BY <4>4, <5>1, <5>2 DEF Known
        <5> QED BY <3>6, <5>3
      <4>7. ~HasParameters(f.type)
        BY <1>6, <1>9, <3>6, <4>6 DEF BodyConflict
      <4>8. t.proto = f.type.proto /\ t.params = f.type.params
        BY <1>3, <4>2
      <4> QED BY <3>6, <4>7, <4>8 DEF HasParameters
    <3>7. Symbols!Extends(Sym(o, definitions[c]), Sym(t, body))
      <4> HIDE DEF o, t, body
      <4> QED BY <2>3, <3>3, <3>4, <3>5, <3>6, SymExtends DEF NoDecl
    <3> QED BY <2>2, <2>6, <3>1, <3>7
  <2> QED BY <2>7, <2>8
<1> QED BY <1>8, <1>9

LEMMA InitialSymbols == Init => Symbols!Init
<1> SUFFICES ASSUME Init PROVE [n \in Names |-> SymbolOf(n)] = [n \in Names |-> Symbols!Unknown]
  BY DEF Symbols!Init
<1>1. \A n \in Names : scopes[1][n] = NoDecl
  BY DEF Init, Unbound
<1>2. ASSUME NEW n \in Names PROVE SymbolOf(n) = Symbols!Unknown
  BY <1>1, SymbolIs DEF SymbolIn
<1> QED BY <1>2

\* Every step of the walk is one name learning something, or none.
LEMMA SymbolsStep ==
  ASSUME Inv, FileInv, TypesInv, [Next]_vars
  PROVE  [Symbols!Next]_([n \in Names |-> SymbolOf(n)])
<1> DEFINE old == [n \in Names |-> SymbolOf(n)]
           new == [n \in Names |-> SymbolOf(n)']
<1>1. decls' \in Seq(DeclSet)
  BY ScopesPreserved DEF Inv, ScopesStep, DeclsOK
<1>2. CASE LeavesFileScope
  <2>1. ASSUME NEW n \in Names PROVE SymbolOf(n)' = SymbolOf(n)
    <3> DEFINE b == scopes[1][n]
    <3>1. scopes'[1][n] = b /\ definitions' = definitions
      BY <1>2 DEF LeavesFileScope
    <3>2. b # NoDecl => SameButSize(decls[b], decls'[b])
      BY <1>2, OutermostBinding DEF LeavesFileScope, Grown
    <3> HIDE DEF b
    <3>3. SymbolIn(decls', b, definitions') = SymbolIn(decls, b, definitions)
      BY <3>1, <3>2, SymbolKept
    <3> QED BY <3>1, <3>3, SymbolIs DEF b
  <2>2. new = old
    BY <2>1
  <2> QED BY <2>2
<1>3. ASSUME NEW f \in Forms, DeclaresAtFileScope(f), Accepts(f, TRUE), f.kind # "tag"
      PROVE  new = old \/ \E n \in Names : /\ new[n] \in Symbols!Symbols
                                           /\ Symbols!Extends(old[n], new[n])
                                           /\ new = [old EXCEPT ![n] = new[n]]
  <2>1. f.name \in Names
    BY <1>3, DeclaredFacts DEF Declared
  <2>2. \A n \in Names : n # f.name => new[n] = old[n]
    BY <1>3, OthersKept
  <2>3. \/ new[f.name] = old[f.name]
        \/ /\ new[f.name] \in Symbols!Symbols
           /\ Symbols!Extends(old[f.name], new[f.name])
    BY <1>1, <1>3, <2>1, OwnExtended
  <2>4. DOMAIN new = Names /\ DOMAIN old = Names
        /\ new = [n \in Names |-> new[n]] /\ old = [n \in Names |-> old[n]]
    OBVIOUS
  <2> HIDE DEF new, old
  <2>5. new[f.name] = old[f.name] => new = old
    BY <2>2, <2>4
  <2>6. new = [old EXCEPT ![f.name] = new[f.name]]
    BY <2>1, <2>2, <2>4
  <2> QED BY <2>1, <2>3, <2>5, <2>6
<1>4. CASE \E f \in Forms : DeclaresAtFileScope(f) /\ Accepts(f, TRUE) /\ f.kind # "tag"
  <2>1. new = old \/ \E n \in Names : /\ new[n] \in Symbols!Symbols
                                      /\ Symbols!Extends(old[n], new[n])
                                      /\ new = [old EXCEPT ![n] = new[n]]
    BY <1>3, <1>4
  <2>2. CASE new = old
    BY <2>2
  <2>3. CASE \E n \in Names : /\ new[n] \in Symbols!Symbols
                              /\ Symbols!Extends(old[n], new[n])
                              /\ new = [old EXCEPT ![n] = new[n]]
    BY <2>3 DEF Symbols!Next, Symbols!Learn
  <2> QED BY <2>1, <2>2, <2>3
<1> QED BY <1>2, <1>4, FileScopeCases

(* The walk implements FunctionSymbols: what semantic analysis knows of a  *)
(* function, its parameter list or its body, is never taken back.          *)
THEOREM SymbolsImplemented == Spec => SymbolsOnlyGrow
BY InitialSymbols, SymbolsStep, InitHasInv, InvIsInductive, InitHasFileInv,
   FileInvIsInductive, InitHasTypesInv, TypesInvIsInductive, PTL
   DEF Spec, SymbolsOnlyGrow, Symbols!Spec

-----------------------------------------------------------------------------
(* Generation.  What analysis hands on: without an error every declaration  *)
(* was accepted; only functions at file scope have bodies; and a call       *)
(* checked against a prototype has the arguments it asks for.               *)
Fits(ds, c) ==
  LET d == ds[c.decl]
  IN  /\ d.ok
      /\ d.kind = "func" /\ d.type.proto =>
           \/ c.args = Len(d.type.params)
           \/ d.type.variadic /\ c.args > Len(d.type.params)

AcceptedOf(ds, cs, errs) ==
  /\ ~errs => \A i \in 1..Len(ds) : ds[i].ok
  /\ \A i \in 1..Len(ds) : ds[i].body => ds[i].kind = "func" /\ ds[i].depth = 1
  /\ \A i \in 1..Len(cs) : Fits(ds, cs[i])

Accepted == AcceptedOf(decls, calls, errors)

StageInv ==
  /\ stage \in {"analysis", "select", "declare", "emit", "generated", "failed"}
  /\ at \in Nat \ {0} /\ (stage = "analysis" => at = 1)
  /\ stage # "analysis" => phase = "analyzed" /\ ~errors
  /\ stage = "analysis" => order = <<>> /\ selected = Empty
  /\ stage \in {"analysis", "select", "declare"} => public = {} /\ emitted = <<>>

\* The declarations of functions that selection has met.
Met(d) == /\ FileDecl(decls[d]) /\ decls[d].kind = "func"
          /\ stage = "select" => d < at

\* The selected one of those has the body if any has, and else a prototype if
\* any has.
Covered(d) ==
  LET s == decls[selected[Key(d)]]
  IN  /\ selected[Key(d)] # NoDecl
      /\ decls[d].body => s.body
      /\ decls[d].type.proto => s.body \/ s.type.proto

Chosen(k) ==
  selected[k] # NoDecl => /\ selected[k] \in 1..Len(decls)
                          /\ FileDecl(decls[selected[k]])
                          /\ decls[selected[k]].kind = "func"
                          /\ decls[selected[k]].canonical = k

SelectionInv ==
  /\ order \in Seq(1..MaxDecls) /\ selected \in [1..MaxDecls -> Nat]
  /\ \A i, j \in 1..Len(order) : order[i] = order[j] => i = j
  /\ \A k \in 1..MaxDecls : /\ selected[k] # NoDecl <=> \E i \in 1..Len(order) : order[i] = k
                            /\ Chosen(k)
  /\ stage \in {"select", "declare", "emit", "generated"} =>
       \A d \in 1..Len(decls) : Met(d) => Covered(d)

\* The functions declared in the module so far, by their place in `order`.
SignaturesInv ==
  /\ functions \in [1..MaxDecls -> Nat]
  /\ \A i \in 1..Len(order) :
       (\/ stage \in {"emit", "generated"}
        \/ stage = "declare" /\ i < at) =>
         /\ functions[order[i]] = selected[order[i]]
         /\ ~decls[selected[order[i]]].type.variadic

\* The bodies emitted so far.
IsEmitted(k) == \E i \in 1..Len(emitted) : emitted[i] = k

EmissionInv ==
  /\ emitted \in Seq(1..MaxDecls) /\ public \subseteq 1..MaxDecls
  /\ \A i, j \in 1..Len(emitted) : emitted[i] = emitted[j] => i = j
  /\ \A i \in 1..Len(emitted) :
       \E j \in 1..Len(order) : order[j] = emitted[i] /\ (stage = "emit" => j < at)
  /\ \A j \in 1..Len(order) :
       /\ decls[selected[order[j]]].body
       /\ \/ stage = "generated"
          \/ stage = "emit" /\ j < at
       => IsEmitted(order[j])
  /\ \A k \in public : External(selected[k])
  /\ \A i \in 1..Len(emitted) :
       External(selected[emitted[i]]) => emitted[i] \in public

GenerationInv == StageInv /\ SelectionInv /\ SignaturesInv /\ EmissionInv

-----------------------------------------------------------------------------
(* Analysis keeps what it hands on.                                        *)
LEMMA AcceptedStays ==
  ASSUME NEW ds, NEW es, NEW cs, NEW errs, NEW still, AcceptedOf(ds, cs, errs),
         Len(ds) \in Nat, Len(es) \in Nat, Grown(ds, es),
         ~still => ~errs,
         \A i \in 1..Len(es) : i > Len(ds) =>
            /\ ~still => es[i].ok
            /\ es[i].body => es[i].kind = "func" /\ es[i].depth = 1,
         \A i \in 1..Len(cs) : cs[i].decl \in 1..Len(ds)
  PROVE  AcceptedOf(es, cs, still)
<1> DEFINE L == Len(ds)
           M == Len(es)
<1>1. L \in Nat /\ M \in Nat /\ \A i \in 1..L : SameButSize(ds[i], es[i])
  BY DEF Grown
<1>2. ASSUME NEW i \in 1..M
      PROVE  /\ ~still => es[i].ok
             /\ es[i].body => es[i].kind = "func" /\ es[i].depth = 1
  <2>1. CASE i > L
    BY <2>1
  <2>2. CASE ~(i > L)
    <3>1. i \in 1..L
      <4> HIDE DEF L, M
      <4> QED BY <1>1, <2>2
    <3>2. SameButSize(ds[i], es[i])
      BY <1>1, <3>1
    <3>3. /\ ~errs => ds[i].ok
          /\ ds[i].body => ds[i].kind = "func" /\ ds[i].depth = 1
      BY <3>1 DEF AcceptedOf
    <3> QED BY <3>2, <3>3 DEF SameButSize
  <2> QED BY <2>1, <2>2
<1>3. ASSUME NEW i \in 1..Len(cs) PROVE Fits(es, cs[i])
  <2> DEFINE c == cs[i]
             k == c.decl
  <2>1. Fits(ds, c) /\ k \in 1..L
    BY DEF AcceptedOf
  <2>2. SameButSize(ds[k], es[k])
    BY <1>1, <2>1
  <2> QED BY <2>1, <2>2 DEF Fits, SameButSize
<1> QED BY <1>2, <1>3 DEF AcceptedOf

LEMMA AcceptedIsInductive == Inv /\ Accepted /\ [Next]_vars => Accepted'
<1> SUFFICES ASSUME Inv, Accepted, [Next]_vars PROVE Accepted'
  OBVIOUS
<1> DEFINE L == Len(decls)
<1>1. /\ L \in Nat /\ TypeOK /\ ScopesInv /\ NestingAgrees /\ NestShape
      /\ errors \in BOOLEAN
  BY LenProperties DEF Inv, TypeOK
<1>2. \A i \in 1..Len(calls) : calls[i].decl \in 1..L
  <2>1. calls \in Seq(CallSet(L))
    BY <1>1 DEF TypeOK, CallSet
  <2>2. \A i \in 1..Len(calls) : calls[i] \in CallSet(L)
    BY <2>1, ElementOfSeq
  <2> QED BY <2>2 DEF CallSet
<1>3. Grown(decls, decls)
  BY <1>1 DEF Grown, SameButSize
<1>4. ASSUME UNCHANGED <<decls, calls>>, ~errors' => ~errors PROVE Accepted'
  <2>1. \A i \in 1..Len(decls') : ~(i > L)
    BY <1>1, <1>4
  <2>2. AcceptedOf(decls', calls, errors')
    BY <1>1, <1>2, <1>3, <1>4, <2>1, AcceptedStays DEF Accepted
  <2> QED BY <1>4, <2>2 DEF Accepted
<1>5. nest = <<>> => Len(scopes) = 1
  <2>1. nest = <<>> => Frames({"body", "block", "header", "for"}) = {}
    BY DEF Frames
  <2>2. Cardinality({}) = 0
    BY FS_EmptySet
  <2>3. Len(scopes) = 1 + Cardinality(Frames({"body", "block", "header", "for"}))
    BY <1>1 DEF NestingAgrees
  <2>4. nest = <<>> => Cardinality(Frames({"body", "block", "header", "for"})) = 0
    BY <2>1, <2>2, Zenon
  <2>5. 1 + 0 = 1
    OBVIOUS
  <2> QED BY <2>3, <2>4, <2>5, Zenon
<1>6. ASSUME NEW f \in Forms PROVE f.body => f.kind = "func"
  BY FormsAssumption
<1>7. ASSUME NEW f \in Forms, NEW global \in BOOLEAN, L < MaxDecls,
             Declare(f, global), f.body => Len(scopes) = 1, UNCHANGED calls
      PROVE  Accepted'
  <2> DEFINE new == NewDecl(f, global)
  <2>1. /\ Len(decls') = L + 1 /\ Grown(decls, decls') /\ decls'[L + 1] = new
    BY <1>1, <1>7, DeclareFacts DEF Declare
  <2>2. /\ new.ok = Accepts(f, global) /\ new.body = f.body /\ new.kind = f.kind
        /\ new.depth = Len(scopes)
    BY DEF NewDecl
  <2>3. errors' = (errors \/ TagClash(f.type) \/ ~Accepts(f, global))
    BY <1>7 DEF Declare
  <2>4. ~errors' => ~errors /\ new.ok
    <3> HIDE DEF new
    <3> QED BY <2>2, <2>3, Zenon
  <2>5. new.body => new.kind = "func" /\ new.depth = 1
    BY <1>6, <1>7, <2>2
  <2>6. \A i \in 1..Len(decls') : i > L =>
           /\ ~errors' => decls'[i].ok
           /\ decls'[i].body => decls'[i].kind = "func" /\ decls'[i].depth = 1
    <3> HIDE DEF new, L
    <3> QED BY <1>1, <2>1, <2>4, <2>5
  <2>7. AcceptedOf(decls', calls, errors')
    <3>1. Len(decls') \in Nat
      BY <1>1, <2>1
    <3> QED BY <1>1, <1>2, <2>1, <2>4, <2>6, <3>1, AcceptedStays DEF Accepted
  <2> QED BY <1>7, <2>7 DEF Accepted
<1>8. CASE DeclareAtFileScope
  <2>1. PICK f \in Forms : Declare(f, TRUE)
    BY <1>8 DEF DeclareAtFileScope
  <2>2. Len(scopes) = 1 /\ L < MaxDecls /\ UNCHANGED calls
    BY <1>5, <1>8 DEF DeclareAtFileScope
  <2> QED BY <1>7, <2>1, <2>2
<1>9. CASE DefineFunction
  <2>1. PICK f \in Forms :
          /\ L + 1 + Len(f.type.params) <= MaxDecls
          /\ f.body /\ Accepts(f, TRUE)
          /\ decls' = DeclsAfter(f, TRUE) \o Parameters(f.type)
          /\ errors' = (errors \/ \E i \in DOMAIN f.type.params :
                                     ~Declarable(f.type.params[i]))
    BY <1>9 DEF DefineFunction
  <2> DEFINE ps == Parameters(f.type)
             ds == DeclsAfter(f, TRUE)
             new == NewDecl(f, TRUE)
             P == Len(f.type.params)
  <2>2. /\ P \in Nat /\ ps \in Seq(DeclSet) /\ Len(ps) = P
    BY <1>1, <2>1, ParametersFacts
  <2>3. Len(scopes) = 1 /\ L < MaxDecls /\ UNCHANGED calls
    <3>1. L + 1 + P <= MaxDecls /\ L \in Nat /\ P \in Nat /\ MaxDecls \in Nat
      BY <1>1, <2>1, <2>2, BoundsAssumption
    <3>2. L < MaxDecls
      <4> HIDE DEF L, P
      <4> QED BY <3>1
    <3> QED BY <1>5, <1>9, <3>2 DEF DefineFunction
  <2>4. /\ ds \in Seq(DeclSet) /\ Len(ds) = L + 1 /\ Grown(decls, ds) /\ ds[L + 1] = new
    BY <1>1, <2>3, DeclareFacts
  <2>5. /\ new.ok = Accepts(f, TRUE) /\ new.body = f.body /\ new.kind = f.kind
        /\ new.depth = Len(scopes)
    BY DEF NewDecl
  <2>6. new.ok /\ new.kind = "func" /\ new.depth = 1
    BY <1>6, <2>1, <2>3, <2>5
  <2>7. \A i \in 1..P : ~ps[i].body /\ ps[i].ok = Declarable(f.type.params[i])
    <3>1. DOMAIN f.type.params = 1..P
      <4>1. f.type.params \in Seq(Params)
        BY FormsAssumption DEF FormSet, Types
      <4> QED BY <4>1, LenProperties
    <3> QED BY <3>1 DEF Parameters, Parameter
  <2>8. ~errors' => ~errors /\ \A i \in 1..P : ps[i].ok
    <3>1. DOMAIN f.type.params = 1..P
      <4>1. f.type.params \in Seq(Params)
        BY FormsAssumption DEF FormSet, Types
      <4> QED BY <4>1, LenProperties
    <3> HIDE DEF ps
    <3> QED BY <2>1, <2>7, <3>1
  <2>9. decls' = ds \o ps
    BY <2>1
  <2> HIDE DEF ds, ps, L, P, new
  <2>10. /\ Len(decls') = L + 1 + P
         /\ \A i \in 1..(L + 1 + P) :
              decls'[i] = IF i <= L + 1 THEN ds[i] ELSE ps[i - (L + 1)]
    <3>1. /\ Len(ds \o ps) = Len(ds) + Len(ps)
          /\ \A i \in 1..(Len(ds) + Len(ps)) :
               (ds \o ps)[i] = IF i <= Len(ds) THEN ds[i] ELSE ps[i - Len(ds)]
      <4>1. ds \in Seq(DeclSet) /\ ps \in Seq(DeclSet)
        BY <2>2, <2>4
      <4> QED BY <4>1, ConcatProperties
    <3>2. L \in Nat /\ P \in Nat
      BY <1>1, <2>2
    <3> QED BY <2>2, <2>4, <2>9, <3>1, <3>2
  <2>11. Len(decls') \in Nat /\ L <= Len(decls')
    BY <1>1, <2>2, <2>10
  <2>12. Grown(decls, decls')
    <3>1. \A i \in 1..L : i \in 1..(L + 1 + P) /\ i <= L + 1
      BY <1>1, <2>2
    <3>2. \A i \in 1..L : SameButSize(decls[i], ds[i])
      BY <2>4 DEF Grown, L
    <3>3. \A i \in 1..L : SameButSize(decls[i], decls'[i])
      BY <2>10, <3>1, <3>2
    <3> QED BY <2>11, <3>3 DEF Grown, L
  <2>13. ASSUME NEW i \in 1..Len(decls'), i > L
         PROVE  /\ ~errors' => decls'[i].ok
                /\ decls'[i].body => decls'[i].kind = "func" /\ decls'[i].depth = 1
    <3>1. CASE i = L + 1
      <4>1. decls'[i] = new
        BY <1>1, <2>2, <2>4, <2>10, <3>1
      <4> QED BY <2>6, <4>1
    <3>2. CASE i # L + 1
      <4>1. i - (L + 1) \in 1..P /\ decls'[i] = ps[i - (L + 1)]
        BY <1>1, <2>2, <2>10, <2>13, <3>2
      <4> QED BY <2>7, <2>8, <4>1
    <3> QED BY <3>1, <3>2
  <2>14. AcceptedOf(decls', calls, errors')
    BY <1>1, <1>2, <2>8, <2>11, <2>12, <2>13, AcceptedStays DEF Accepted, L
  <2> QED BY <2>3, <2>14 DEF Accepted
<1>10. CASE EndOfUnit
  <2>1. /\ decls' = [i \in DOMAIN decls |->
                       IF Tentative(decls[i]) THEN [decls[i] EXCEPT !.type.size = 1]
                                              ELSE decls[i]]
        /\ UNCHANGED <<errors, calls>>
    BY <1>10 DEF EndOfUnit
  <2>2. Len(decls') = L /\ Grown(decls, decls')
    BY <1>1, <2>1, EndGrows
  <2>3. \A i \in 1..Len(decls') : ~(i > L)
    BY <1>1, <2>2
  <2>4. Len(decls') \in Nat
    BY <1>1, <2>2
  <2>5. AcceptedOf(decls', calls, errors')
    BY <1>1, <1>2, <2>1, <2>2, <2>3, <2>4, AcceptedStays DEF Accepted
  <2> QED BY <2>1, <2>5 DEF Accepted
<1>11. ASSUME NEW n \in Names, NEW args \in 0..MaxArgs, NEW live \in BOOLEAN,
              Call(n, args, live)
       PROVE  Accepted'
  <2>1. CASE ~CallAllowed(n, args)
    BY <1>4, <1>11, <2>1 DEF Call
  <2>2. CASE CallAllowed(n, args)
    <3> DEFINE d == Lookup(n)
               c == [fn |-> function, decl |-> d, args |-> args, live |-> live]
    <3>1. UNCHANGED <<decls, errors>> /\ calls' = Append(calls, c)
      BY <1>11, <2>2 DEF Call
    <3>2. d # NoDecl
      BY <2>2 DEF CallAllowed, Usable
    <3>3. decls[d].ok
      <4>1. PICK k \in 1..Len(scopes) : d = scopes[k][n] /\ scopes[k][n] # NoDecl
        BY <1>1, <3>2, LookupFacts
      <4>2. Binding(decls, scopes, opened, k, n)
        BY <1>1 DEF ScopesInv, ScopesInvOf
      <4> HIDE DEF d
      <4> QED BY <4>1, <4>2 DEF Binding
    <3>4. Fits(decls, c)
      <4>1. decls[d].type.proto => \/ args = Len(decls[d].type.params)
                                   \/ /\ decls[d].type.variadic
                                      /\ args > Len(decls[d].type.params)
        BY <2>2 DEF CallAllowed
      <4>2. c.decl = d /\ c.args = args
        OBVIOUS
      <4> HIDE DEF c, d
      <4> QED BY <3>3, <4>1, <4>2 DEF Fits
    <3>5. /\ Len(calls') = Len(calls) + 1 /\ Len(calls) \in Nat
          /\ calls'[Len(calls) + 1] = c
          /\ \A i \in 1..Len(calls) : calls'[i] = calls[i]
      <4> DEFINE S == CallSet(L) \union {c}
      <4>1. calls \in Seq(CallSet(L)) /\ CallSet(L) \subseteq S
        BY <1>1 DEF TypeOK, CallSet
      <4> HIDE DEF S
      <4>2. calls \in Seq(S)
        BY <4>1, SeqMonotonic
      <4>3. c \in S
        BY DEF S
      <4> HIDE DEF c
      <4> QED BY <3>1, <4>2, <4>3, AppendProperties, LenProperties
    <3> HIDE DEF c
    <3>6. \A i \in 1..Len(calls') : Fits(decls, calls'[i])
      <4>1. \A i \in 1..Len(calls) : Fits(decls, calls[i])
        BY DEF Accepted, AcceptedOf
      <4>2. \A i \in 1..Len(calls') : i \in 1..Len(calls) \/ i = Len(calls) + 1
        BY <3>5
      <4> QED BY <3>4, <3>5, <4>1, <4>2
    <3> QED BY <3>1, <3>6 DEF Accepted, AcceptedOf
  <2> QED BY <2>1, <2>2
<1>12. CASE Statement
  <2>1. CASE DeclareInBlock
    <3>1. PICK f \in Forms : ~f.body /\ Declare(f, FALSE)
      BY <2>1 DEF DeclareInBlock
    <3> QED BY <1>7, <2>1, <3>1 DEF DeclareInBlock
  <2>2. CASE DeclareForInitializer
    <3>1. PICK f \in Forms :
            /\ ~f.body
            /\ IF ForInitializer(f)
               THEN Declare(f, FALSE)
               ELSE errors' = TRUE /\ UNCHANGED <<decls, scopes, definitions, tags>>
      BY <2>2 DEF DeclareForInitializer
    <3>2. L < MaxDecls /\ UNCHANGED calls
      BY <2>2 DEF DeclareForInitializer
    <3>3. CASE ForInitializer(f)
      BY <1>7, <3>1, <3>2, <3>3
    <3>4. CASE ~ForInitializer(f)
      BY <1>4, <3>1, <3>2, <3>4
    <3> QED BY <3>3, <3>4
  <2>3. CASE OpenBlock \/ CloseBlock \/ OpenFor \/ EnterForBody \/ CloseFor
             \/ OpenWhile \/ CloseWhile
    <3>1. UNCHANGED <<decls, calls, errors>>
      BY <2>3 DEF OpenBlock, CloseBlock, OpenFor, EnterForBody, CloseFor, OpenWhile, CloseWhile
    <3> QED BY <1>4, <3>1
  <2>4. CASE Jump
    BY <1>4, <2>4 DEF Jump
  <2>5. CASE \E n \in Names : Use(n)
    BY <1>4, <2>5 DEF Use
  <2>6. CASE \E n \in Names, args \in 0..MaxArgs, live \in BOOLEAN : Call(n, args, live)
    BY <1>11, <2>6
  <2> QED BY <1>12, <2>1, <2>2, <2>3, <2>4, <2>5, <2>6 DEF Statement
<1>13. CASE EndFunction \/ UNCHANGED vars
  <2>1. UNCHANGED <<decls, calls, errors>>
    BY <1>13 DEF EndFunction, vars
  <2> QED BY <1>4, <2>1
<1> QED BY <1>8, <1>9, <1>10, <1>12, <1>13 DEF Next

-----------------------------------------------------------------------------
(* Generation keeps its invariant.                                         *)
LEMMA InitHasGenerationInv == EInit => Accepted /\ GenerationInv
<1> SUFFICES ASSUME EInit PROVE Accepted /\ GenerationInv
  OBVIOUS
<1>1. /\ decls = <<>> /\ calls = <<>> /\ stage = "analysis" /\ at = 1 /\ order = <<>>
      /\ selected = Empty /\ functions = Empty /\ public = {} /\ emitted = <<>>
  BY DEF EInit, Init
<1>2. Len(<<>>) = 0 /\ 1..0 = {} /\ MaxDecls \in Nat
  BY BoundsAssumption
<1>3. Empty \in [1..MaxDecls -> Nat] /\ \A k \in 1..MaxDecls : Empty[k] = NoDecl
  BY DEF Empty, NoDecl
<1>4. \A S : <<>> \in Seq(S)
  BY EmptySeq
<1>5. Accepted
  BY <1>1, <1>2 DEF Accepted, AcceptedOf
<1>6. StageInv
  BY <1>1 DEF StageInv
<1>7. SelectionInv
  BY <1>1, <1>2, <1>3, <1>4 DEF SelectionInv, Chosen
<1>8. SignaturesInv
  BY <1>1, <1>2, <1>3 DEF SignaturesInv
<1>9. EmissionInv
  BY <1>1, <1>2, <1>4 DEF EmissionInv
<1> QED BY <1>5, <1>6, <1>7, <1>8, <1>9 DEF GenerationInv

\* While analysis runs there is nothing to keep.
LEMMA GenerationWaits ==
  ASSUME GenerationInv, stage = "analysis", UNCHANGED generation
  PROVE  GenerationInv'
<1>1. /\ stage' = "analysis" /\ at' = 1 /\ order' = <<>>
      /\ selected' = Empty /\ functions' = functions /\ public' = {} /\ emitted' = <<>>
  BY DEF generation, GenerationInv, StageInv
<1>2. Len(<<>>) = 0 /\ 1..0 = {} /\ MaxDecls \in Nat
  BY BoundsAssumption
<1>3. Empty \in [1..MaxDecls -> Nat] /\ \A k \in 1..MaxDecls : Empty[k] = NoDecl
  BY DEF Empty, NoDecl
<1>4. \A S : <<>> \in Seq(S)
  BY EmptySeq
<1>5. StageInv'
  BY <1>1 DEF StageInv
<1>6. SelectionInv'
  BY <1>1, <1>2, <1>3, <1>4 DEF SelectionInv, Chosen
<1>7. SignaturesInv'
  BY <1>1, <1>2 DEF SignaturesInv, GenerationInv
<1>8. EmissionInv'
  BY <1>1, <1>2, <1>4 DEF EmissionInv
<1> QED BY <1>5, <1>6, <1>7, <1>8 DEF GenerationInv

LEMMA StageStep == ASSUME Inv, GenerationInv, Generate PROVE StageInv'
<1>1. StageInv /\ UNCHANGED vars
  BY DEF GenerationInv, Generate, StartGeneration, SkipTypedef, Select, RefuseDeclaration,
         EndSelection, DeclareSelected, EndDeclarations, SkipBodyless, EmitFunction,
         FailBody, EndEmission
<1>2. UNCHANGED <<phase, errors>>
  BY <1>1 DEF vars
<1>3. CASE StartGeneration
  BY <1>1, <1>2, <1>3 DEF StartGeneration, StageInv
<1>4. CASE SkipTypedef \/ Select
  <2>1. PICK d \in Remaining : at' = d + 1
    BY <1>4 DEF SkipTypedef, Select
  <2>2. d \in Nat
    <3>1. DOMAIN decls = 1..Len(decls)
      BY LenProperties DEF Inv, TypeOK
    <3> QED BY <3>1 DEF Remaining
  <2>3. stage = "select" /\ UNCHANGED <<stage, public, emitted>>
    BY <1>4 DEF SkipTypedef, Select
  <2>4. at' \in Nat \ {0}
    BY <2>1, <2>2
  <2> QED BY <1>1, <1>2, <2>3, <2>4 DEF StageInv
<1>5. CASE RefuseDeclaration \/ EndSelection
  BY <1>1, <1>2, <1>5 DEF RefuseDeclaration, EndSelection, StageInv
<1>6. CASE DeclareSelected
  BY <1>1, <1>2, <1>6 DEF DeclareSelected, StageInv
<1>7. CASE EndDeclarations \/ SkipBodyless
  BY <1>1, <1>2, <1>7 DEF EndDeclarations, SkipBodyless, StageInv
<1>8. CASE EmitFunction
  BY <1>1, <1>2, <1>8 DEF EmitFunction, StageInv
<1>9. CASE FailBody \/ EndEmission
  BY <1>1, <1>2, <1>9 DEF FailBody, EndEmission, StageInv
<1> QED BY <1>3, <1>4, <1>5, <1>6, <1>7, <1>8, <1>9 DEF Generate

\* An accepted declaration has a key.
LEMMA KeyFacts ==
  ASSUME Inv, NEW d \in 1..Len(decls), decls[d].ok
  PROVE  /\ Key(d) \in 1..MaxDecls /\ Key(d) \in 1..Len(decls)
         /\ Len(decls) \in Nat /\ MaxDecls \in Nat /\ Len(decls) <= MaxDecls
<1> DEFINE L == Len(decls)
           k == Key(d)
<1>1. L \in Nat /\ MaxDecls \in Nat /\ L <= MaxDecls
  BY LenProperties, BoundsAssumption DEF Inv, TypeOK
<1>2. DeclsOK(decls)
  BY TypeParts DEF Inv
<1>3. k \in 0..L /\ k # 0
  BY <1>2 DEF DeclsOK, Key, NoDecl
<1>4. k \in 1..MaxDecls /\ k \in 1..L
  <2> HIDE DEF L, k
  <2> QED BY <1>1, <1>3
<1> QED BY <1>1, <1>4

LEMMA SelectionStep ==
  ASSUME Inv, Accepted, GenerationInv, Generate
  PROVE  SelectionInv'
<1> DEFINE L == Len(decls)
<1>1. UNCHANGED vars
  BY DEF Generate, StartGeneration, SkipTypedef, Select, RefuseDeclaration,
         EndSelection, DeclareSelected, EndDeclarations, SkipBodyless, EmitFunction,
         FailBody, EndEmission
<1>2. decls' = decls /\ DOMAIN decls = 1..L /\ L \in Nat /\ MaxDecls \in Nat
  BY <1>1, LenProperties, BoundsAssumption DEF vars, Inv, TypeOK
<1>3. StageInv /\ SelectionInv
  BY DEF GenerationInv
<1>4. stage # "analysis" => \A d \in 1..L : decls[d].ok
  BY <1>3 DEF Accepted, AcceptedOf, StageInv
<1>5. ASSUME NEW d \in 1..L PROVE d \in Nat
  BY <1>2
<1>6. ASSUME UNCHANGED <<order, selected>>,
             stage' \in {"select", "declare", "emit", "generated"} =>
               \A d \in 1..L : Met(d)' => Covered(d)
      PROVE  SelectionInv'
  <2>1. \A d : Covered(d)' <=> Covered(d)
    BY <1>2, <1>6 DEF Covered, Key
  <2>2. \A k : Chosen(k)' <=> Chosen(k)
    BY <1>2, <1>6 DEF Chosen
  <2> QED BY <1>2, <1>3, <1>6, <2>1, <2>2 DEF SelectionInv
<1>7. CASE StartGeneration
  <2>1. /\ stage' = "select" /\ at' = 1 /\ UNCHANGED <<order, selected>>
    BY <1>3, <1>7 DEF StartGeneration, StageInv
  <2>2. \A d \in 1..L : ~Met(d)'
    BY <1>2, <1>5, <2>1 DEF Met
  <2> QED BY <1>6, <2>1, <2>2
<1>8. ASSUME NEW d \in Remaining, IsNext(d), stage = "select", UNCHANGED stage, at' = d + 1,
             NEW e \in 1..L, Met(e)'
      PROVE  e = d \/ Met(e)
  <2>1. FileDecl(decls[e]) /\ decls[e].kind = "func" /\ e < d + 1
    BY <1>2, <1>8 DEF Met
  <2>2. d \in 1..L /\ at \in Nat
    BY <1>2, <1>3 DEF Remaining, StageInv
  <2>3. CASE e < at
    BY <2>1, <2>3 DEF Met
  <2>4. CASE ~(e < at)
    <3>1. e \in Remaining
      BY <1>2, <2>1, <2>2, <2>4 DEF Remaining, FileDecl
    <3>2. d <= e
      BY <1>8, <3>1 DEF IsNext
    <3> QED BY <2>1, <2>2, <3>2
  <2> QED BY <2>3, <2>4
<1>9. \A d \in 1..L : stage = "select" /\ Met(d) => Covered(d)
  BY <1>3 DEF SelectionInv
<1>10. CASE SkipTypedef
  <2>1. PICK d \in Remaining : IsNext(d) /\ decls[d].kind = "typedef" /\ at' = d + 1
    BY <1>10 DEF SkipTypedef
  <2>2. stage = "select" /\ UNCHANGED <<stage, order, selected>>
    BY <1>10 DEF SkipTypedef
  <2>3. \A e \in 1..L : Met(e)' => decls[e].kind = "func"
    BY <1>2 DEF Met
  <2>4. \A e \in 1..L : Met(e)' => Met(e)
    BY <1>8, <2>1, <2>2, <2>3
  <2> QED BY <1>6, <1>9, <2>2, <2>4
<1>11. CASE Select
  <2>1. PICK d \in Remaining :
          /\ IsNext(d) /\ decls[d].kind = "func"
          /\ at' = d + 1
          /\ order' = IF selected[Key(d)] = NoDecl THEN Append(order, Key(d)) ELSE order
          /\ selected' = IF selected[Key(d)] = NoDecl \/ Supersedes(d)
                         THEN [selected EXCEPT ![Key(d)] = d]
                         ELSE selected
    BY <1>11 DEF Select
  <2> DEFINE k == Key(d)
  <2>2. stage = "select" /\ UNCHANGED stage
    BY <1>11 DEF Select
  <2>3. d \in 1..L /\ decls[d].depth = 1 /\ decls[d].ok
    BY <1>2, <1>4, <2>2 DEF Remaining
  <2>4. FileDecl(decls[d]) /\ d # NoDecl
    BY <2>1, <2>3 DEF FileDecl, NoDecl
  <2>5. k \in 1..MaxDecls
    BY <2>3, KeyFacts
  <2>6. /\ selected \in [1..MaxDecls -> Nat] /\ order \in Seq(1..MaxDecls)
        /\ \A i, j \in 1..Len(order) : order[i] = order[j] => i = j
        /\ \A j \in 1..MaxDecls : /\ selected[j] # NoDecl
                                       <=> \E i \in 1..Len(order) : order[i] = j
                                  /\ Chosen(j)
    BY <1>3 DEF SelectionInv
  <2>7. \A e \in 1..L : Met(e)' => e = d \/ Covered(e)
    BY <1>8, <1>9, <2>1, <2>2
  <2>8. \A e \in 1..L : FileDecl(decls[e]) => Key(e) \in 1..MaxDecls
    BY KeyFacts DEF FileDecl
  <2>9. CASE ~(selected[k] = NoDecl \/ Supersedes(d))
    <3>1. UNCHANGED <<order, selected>>
      BY <2>1, <2>9
    <3>2. Covered(d)
      BY <2>9 DEF Covered, Supersedes
    <3> QED BY <1>6, <2>2, <2>7, <3>1, <3>2
  <2>10. CASE selected[k] = NoDecl \/ Supersedes(d)
    <3>1. selected' = [selected EXCEPT ![k] = d]
      BY <2>1, <2>10
    <3> HIDE DEF k
    <3>2. /\ selected' \in [1..MaxDecls -> Nat] /\ selected'[k] = d
          /\ \A j \in 1..MaxDecls : j # k => selected'[j] = selected[j]
      BY <1>5, <2>3, <2>5, <2>6, <3>1
    <3>3. ASSUME NEW j \in 1..MaxDecls PROVE Chosen(j)'
      <4>1. CASE j = k
        BY <1>2, <2>1, <2>3, <2>4, <3>2, <4>1 DEF Chosen, Key, k
      <4>2. CASE j # k
        BY <1>2, <2>6, <3>2, <4>2 DEF Chosen
      <4> QED BY <4>1, <4>2
    <3>4. ASSUME NEW e \in 1..L, Met(e)' PROVE Covered(e)'
      <4>1. FileDecl(decls[e]) /\ Key(e)' = Key(e) /\ Key(e) \in 1..MaxDecls
        BY <1>2, <2>8, <3>4 DEF Met, Key
      <4>2. CASE e = d
        BY <1>2, <2>4, <3>2, <4>2 DEF Covered, Key, k
      <4>3. CASE e # d /\ Key(e) # k
        <5>1. Covered(e) /\ selected'[Key(e)] = selected[Key(e)]
          BY <2>7, <3>2, <3>4, <4>1, <4>3
        <5> QED BY <1>2, <4>1, <5>1 DEF Covered
      <4>4. CASE e # d /\ Key(e) = k
        <5>1. Covered(e) /\ selected'[Key(e)] = d
          BY <2>7, <3>2, <3>4, <4>4
        <5>2. Supersedes(d) /\ selected[k] # NoDecl
          BY <2>10, <4>4, <5>1 DEF Covered
        <5>3. \/ decls[d].body
              \/ ~decls[selected[k]].body /\ decls[d].type.proto
          BY <5>2 DEF Supersedes, k
        <5>4. /\ decls[e].body => decls[selected[k]].body
              /\ decls[e].type.proto => \/ decls[selected[k]].body
                                        \/ decls[selected[k]].type.proto
          BY <4>4, <5>1 DEF Covered
        <5>5. /\ decls[e].body => decls[d].body
              /\ decls[e].type.proto => decls[d].body \/ decls[d].type.proto
          BY <5>3, <5>4
        <5> QED BY <1>2, <2>4, <4>1, <5>1, <5>5 DEF Covered
      <4> QED BY <4>2, <4>3, <4>4
    <3>5. /\ order' \in Seq(1..MaxDecls)
          /\ \A i, j \in 1..Len(order)' : order'[i] = order'[j] => i = j
          /\ \A j \in 1..MaxDecls : selected'[j] # NoDecl
                                       <=> \E i \in 1..Len(order)' : order'[i] = j
      <4>1. CASE selected[k] # NoDecl
        <5>1. order' = order
          BY <2>1, <4>1 DEF k
        <5>2. \A j \in 1..MaxDecls : selected'[j] # NoDecl <=> selected[j] # NoDecl
          BY <2>4, <3>2, <4>1
        <5> QED BY <2>6, <5>1, <5>2
      <4>2. CASE selected[k] = NoDecl
        <5> DEFINE N == Len(order)
        <5>1. order' = Append(order, k)
          BY <2>1, <4>2 DEF k
        <5>2. /\ order' \in Seq(1..MaxDecls) /\ Len(order') = N + 1 /\ N \in Nat
              /\ order'[N + 1] = k /\ \A i \in 1..N : order'[i] = order[i]
          BY <2>5, <2>6, <5>1, AppendProperties, LenProperties
        <5>3. \A i \in 1..N : order[i] # k
          <6>1. \A i \in 1..N : order[i] \in 1..MaxDecls
            BY <2>6, ElementOfSeq
          <6> QED BY <2>5, <2>6, <4>2, <6>1
        <5> HIDE DEF N
        <5>4. \A i \in 1..(N + 1) : i \in 1..N \/ i = N + 1
          BY <5>2
        <5>5. \A i \in 1..N : i \in 1..(N + 1)
          BY <5>2
        <5>6. N + 1 \in 1..(N + 1)
          BY <5>2
        <5>7. \A i, j \in 1..(N + 1) : order'[i] = order'[j] => i = j
          <6>1. \A i, j \in 1..N : order[i] = order[j] => i = j
            BY <2>6 DEF N
          <6> QED BY <5>2, <5>3, <5>4, <6>1
        <5>8. ASSUME NEW j \in 1..MaxDecls
              PROVE selected'[j] # NoDecl <=> \E i \in 1..(N + 1) : order'[i] = j
          <6>1. CASE j = k
            BY <2>4, <3>2, <5>2, <5>6, <6>1
          <6>2. CASE j # k
            <7>1. selected[j] # NoDecl <=> \E i \in 1..N : order[i] = j
              BY <2>6 DEF N
            <7> QED BY <3>2, <5>2, <5>4, <5>5, <6>2, <7>1
          <6> QED BY <6>1, <6>2
        <5> QED BY <5>2, <5>7, <5>8
      <4> QED BY <4>1, <4>2
    <3> QED BY <1>2, <3>2, <3>3, <3>4, <3>5 DEF SelectionInv
  <2> QED BY <2>9, <2>10
<1>12. CASE EndSelection
  <2>1. stage = "select" /\ Remaining = {} /\ UNCHANGED <<order, selected>>
    BY <1>12 DEF EndSelection
  <2>2. ASSUME NEW e \in 1..L, Met(e)' PROVE Met(e)
    <3>1. FileDecl(decls[e]) /\ decls[e].kind = "func"
      BY <1>2, <2>2 DEF Met
    <3>2. ~(e >= at) /\ at \in Nat
      BY <1>2, <1>3, <2>1, <3>1 DEF Remaining, FileDecl, StageInv
    <3>3. e < at
      BY <3>2
    <3> QED BY <3>1, <3>3 DEF Met
  <2> QED BY <1>6, <1>9, <2>1, <2>2
<1>13. CASE RefuseDeclaration \/ FailBody
  <2>1. stage' = "failed" /\ UNCHANGED <<order, selected>>
    BY <1>13 DEF RefuseDeclaration, FailBody
  <2> QED BY <1>6, <2>1
<1>14. CASE DeclareSelected \/ EndDeclarations \/ SkipBodyless \/ EmitFunction \/ EndEmission
  <2>1. /\ stage \in {"declare", "emit"} /\ UNCHANGED <<order, selected>>
        /\ stage' \in {"declare", "emit", "generated", "failed"}
    BY <1>14 DEF DeclareSelected, EndDeclarations, SkipBodyless, EmitFunction, EndEmission
  <2>2. \A d \in 1..L : Met(d) => Covered(d)
    BY <1>3, <2>1 DEF SelectionInv
  <2>3. \A d \in 1..L : Met(d)' => Met(d)
    BY <1>2, <2>1 DEF Met
  <2> QED BY <1>6, <2>1, <2>2, <2>3
<1> QED BY <1>7, <1>10, <1>11, <1>12, <1>13, <1>14 DEF Generate

\* The function at a place of `order`.
LEMMA PlaceFacts ==
  ASSUME SelectionInv, NEW j \in 1..Len(order)
  PROVE  /\ Len(order) \in Nat /\ order[j] \in 1..MaxDecls
         /\ selected[order[j]] \in 1..Len(decls)
         /\ FileDecl(decls[selected[order[j]]])
         /\ decls[selected[order[j]]].kind = "func"
         /\ Key(selected[order[j]]) = order[j]
         /\ \A i \in 1..Len(order) : i # j => order[i] # order[j]
<1>1. order \in Seq(1..MaxDecls) /\ Len(order) \in Nat
  BY LenProperties DEF SelectionInv
<1>2. order[j] \in 1..MaxDecls
  BY <1>1, ElementOfSeq
<1>3. selected[order[j]] # NoDecl /\ Chosen(order[j])
  BY <1>2 DEF SelectionInv
<1>4. \A i \in 1..Len(order) : i # j => order[i] # order[j]
  BY DEF SelectionInv
<1> QED BY <1>1, <1>2, <1>3, <1>4 DEF Chosen, Key

LEMMA SignaturesStep ==
  ASSUME Inv, GenerationInv, Generate
  PROVE  SignaturesInv'
<1>1. decls' = decls
  BY DEF vars, Generate, StartGeneration, SkipTypedef, Select, RefuseDeclaration,
         EndSelection, DeclareSelected, EndDeclarations, SkipBodyless, EmitFunction,
         FailBody, EndEmission
<1>2. StageInv /\ SelectionInv /\ SignaturesInv /\ at \in Nat \ {0}
  BY DEF GenerationInv, StageInv
<1>3. functions \in [1..MaxDecls -> Nat]
  BY <1>2 DEF SignaturesInv
<1>4. ASSUME UNCHANGED functions, stage' \notin {"declare", "emit", "generated"}
      PROVE  SignaturesInv'
  BY <1>3, <1>4 DEF SignaturesInv
<1>5. CASE StartGeneration \/ SkipTypedef \/ Select \/ RefuseDeclaration \/ FailBody
  <2>1. UNCHANGED functions /\ stage' \in {"select", "failed"}
    BY <1>5 DEF StartGeneration, SkipTypedef, Select, RefuseDeclaration, FailBody
  <2> QED BY <1>4, <2>1
<1>6. CASE EndSelection
  <2>1. stage' = "declare" /\ at' = 1 /\ UNCHANGED <<functions, order>>
    BY <1>6 DEF EndSelection
  <2>2. \A i \in 1..Len(order) : ~(i < 1)
    <3>1. Len(order) \in Nat
      BY <1>2, LenProperties DEF SelectionInv
    <3> QED BY <3>1
  <2> QED BY <1>3, <2>1, <2>2 DEF SignaturesInv
<1>7. CASE DeclareSelected
  <2> DEFINE k == order[at]
             d == selected[k]
  <2>1. /\ stage = "declare" /\ at <= Len(order) /\ UNCHANGED <<order, selected>>
        /\ \/ /\ ~decls[d].type.variadic
              /\ functions' = [functions EXCEPT ![Key(d)] = d]
              /\ at' = at + 1
              /\ UNCHANGED stage
           \/ stage' = "failed" /\ UNCHANGED <<at, functions>>
    BY <1>7 DEF DeclareSelected
  <2>2. CASE stage' = "failed" /\ UNCHANGED <<at, functions>>
    BY <1>4, <2>2
  <2>3. CASE /\ ~decls[d].type.variadic
             /\ functions' = [functions EXCEPT ![Key(d)] = d]
             /\ at' = at + 1
             /\ UNCHANGED stage
    <3>1. Len(order) \in Nat
      BY <1>2, LenProperties DEF SelectionInv
    <3>2. at \in 1..Len(order)
      BY <1>2, <2>1, <3>1
    <3>3. /\ k \in 1..MaxDecls /\ d \in 1..Len(decls) /\ Key(d) = k
          /\ \A i \in 1..Len(order) : i # at => order[i] # k
      BY <1>2, <3>2, PlaceFacts
    <3>4. \A i \in 1..Len(order) : order[i] \in 1..MaxDecls
      BY <1>2, PlaceFacts
    <3>5. d \in Nat
      BY <3>3
    <3> HIDE DEF d, k
    <3>6. /\ functions' \in [1..MaxDecls -> Nat] /\ functions'[k] = d
          /\ \A j \in 1..MaxDecls : j # k => functions'[j] = functions[j]
      BY <1>3, <2>3, <3>3, <3>5
    <3>7. ASSUME NEW i \in 1..Len(order), i < at + 1
          PROVE  /\ functions'[order[i]] = selected[order[i]]
                 /\ ~decls[selected[order[i]]].type.variadic
      <4>1. CASE i = at
        BY <2>3, <3>6, <4>1 DEF d, k
      <4>2. CASE i # at
        <5>1. i < at
          BY <1>2, <3>1, <3>7, <4>2
        <5>2. functions'[order[i]] = functions[order[i]]
          BY <3>3, <3>4, <3>6, <4>2
        <5> QED BY <1>2, <2>1, <5>1, <5>2 DEF SignaturesInv
      <4> QED BY <4>1, <4>2
    <3> QED BY <1>1, <2>1, <2>3, <3>6, <3>7 DEF SignaturesInv
  <2> QED BY <2>1, <2>2, <2>3
<1>8. CASE EndDeclarations
  <2>1. /\ stage = "declare" /\ at > Len(order) /\ stage' = "emit"
        /\ UNCHANGED <<order, selected, functions>>
    BY <1>8 DEF EndDeclarations
  <2>2. \A i \in 1..Len(order) : i < at
    <3>1. Len(order) \in Nat
      BY <1>2, LenProperties DEF SelectionInv
    <3> QED BY <1>2, <2>1, <3>1
  <2> QED BY <1>1, <1>2, <2>1, <2>2 DEF SignaturesInv
<1>9. CASE SkipBodyless \/ EmitFunction \/ EndEmission
  <2>1. /\ stage = "emit" /\ stage' \in {"emit", "generated"}
        /\ UNCHANGED <<order, selected, functions>>
    BY <1>9 DEF SkipBodyless, EmitFunction, EndEmission
  <2> QED BY <1>1, <1>2, <2>1 DEF SignaturesInv
<1> QED BY <1>5, <1>6, <1>7, <1>8, <1>9 DEF Generate

LEMMA EmissionStep ==
  ASSUME Inv, GenerationInv, Generate
  PROVE  EmissionInv'
<1> DEFINE k == order[at]
           d == selected[k]
           N == Len(order)
           M == Len(emitted)
<1>1. decls' = decls /\ \A i : External(i)' <=> External(i)
  <2>1. decls' = decls
    BY DEF vars, Generate, StartGeneration, SkipTypedef, Select, RefuseDeclaration,
         EndSelection, DeclareSelected, EndDeclarations, SkipBodyless, EmitFunction,
         FailBody, EndEmission
  <2> QED BY <2>1 DEF External, Key
<1>2. StageInv /\ SelectionInv /\ EmissionInv /\ at \in Nat \ {0}
  BY DEF GenerationInv, StageInv
<1>3. /\ N \in Nat /\ M \in Nat /\ emitted \in Seq(1..MaxDecls) /\ public \subseteq 1..MaxDecls
      /\ \A i, j \in 1..M : emitted[i] = emitted[j] => i = j
      /\ \A i \in 1..M : emitted[i] \in 1..MaxDecls
      /\ \A c \in public : External(selected[c])
      /\ \A i \in 1..M : External(selected[emitted[i]]) => emitted[i] \in public
  BY <1>2, LenProperties, ElementOfSeq DEF EmissionInv, SelectionInv
<1>4. ASSUME stage \in {"analysis", "select", "declare"}, UNCHANGED <<public, emitted>>,
             \/ stage' \notin {"emit", "generated"}
             \/ stage' = "emit" /\ at' = 1 /\ UNCHANGED order
      PROVE  EmissionInv'
  <2>1. public' = {} /\ emitted' = <<>>
    BY <1>2, <1>4 DEF StageInv
  <2>2. Len(emitted') = 0 /\ 1..0 = {} /\ emitted' \in Seq(1..MaxDecls)
    BY <2>1, EmptySeq
  <2>3. \A j \in 1..N : ~(j < 1)
    BY <1>3
  <2> QED BY <1>4, <2>1, <2>2, <2>3 DEF EmissionInv
<1>5. CASE StartGeneration \/ SkipTypedef \/ Select \/ RefuseDeclaration \/ EndSelection
  <2>1. /\ stage \in {"analysis", "select"} /\ UNCHANGED <<public, emitted>>
        /\ stage' \in {"select", "failed", "declare"}
    BY <1>5 DEF StartGeneration, SkipTypedef, Select, RefuseDeclaration, EndSelection
  <2> QED BY <1>4, <2>1
<1>6. CASE DeclareSelected
  <2>1. /\ stage = "declare" /\ UNCHANGED <<public, emitted>>
        /\ stage' \in {"failed", "declare"}
    BY <1>6 DEF DeclareSelected
  <2> QED BY <1>4, <2>1
<1>7. CASE EndDeclarations
  BY <1>4, <1>7 DEF EndDeclarations
<1>8. \A i \in 1..M : \E j \in 1..N : order[j] = emitted[i] /\ (stage = "emit" => j < at)
  BY <1>2 DEF EmissionInv
<1>9. \A j \in 1..N : stage = "emit" /\ decls[selected[order[j]]].body /\ j < at
                        => IsEmitted(order[j])
  BY <1>2 DEF EmissionInv
<1>10. CASE SkipBodyless
  <2>1. /\ stage = "emit" /\ ~decls[d].body /\ at' = at + 1
        /\ UNCHANGED <<stage, order, selected, public, emitted>>
    BY <1>10 DEF SkipBodyless
  <2>2. \A i \in 1..M : \E j \in 1..N : order[j] = emitted[i] /\ j < at + 1
    BY <1>2, <1>3, <1>8, <2>1
  <2>3. ASSUME NEW j \in 1..N, decls[selected[order[j]]].body, j < at + 1
        PROVE  IsEmitted(order[j])
    <3>1. j # at
      BY <2>1, <2>3
    <3>2. j < at
      BY <1>2, <1>3, <2>3, <3>1
    <3> QED BY <1>9, <2>1, <2>3, <3>2
  <2>4. \A c : IsEmitted(c)' <=> IsEmitted(c)
    BY <2>1 DEF IsEmitted
  <2> QED BY <1>1, <1>3, <2>1, <2>2, <2>3, <2>4 DEF EmissionInv
<1>11. stage = "emit" /\ at <= N =>
         /\ at \in 1..N /\ k \in 1..MaxDecls /\ Key(d) = k
         /\ \A i \in 1..N : i # at => order[i] # k
  <2>1. at <= N => at \in 1..N
    BY <1>2, <1>3
  <2> QED BY <1>2, <2>1, PlaceFacts
<1>12. CASE EmitFunction
  <2>1. /\ stage = "emit" /\ at <= N
        /\ public' = IF External(d) THEN public \union {Key(d)} ELSE public
        /\ emitted' = Append(emitted, Key(d))
        /\ at' = at + 1
        /\ UNCHANGED <<stage, order, selected>>
    BY <1>12 DEF EmitFunction
  <2>2. /\ at \in 1..N /\ k \in 1..MaxDecls /\ Key(d) = k
        /\ \A i \in 1..N : i # at => order[i] # k
    BY <1>11, <2>1
  <2>3. /\ emitted' \in Seq(1..MaxDecls) /\ Len(emitted') = M + 1
        /\ emitted'[M + 1] = k /\ \A i \in 1..M : emitted'[i] = emitted[i]
    BY <1>3, <2>1, <2>2, AppendProperties
  <2>4. \A i \in 1..M : emitted[i] # k
    <3>1. ASSUME NEW i \in 1..M PROVE emitted[i] # k
      <4>1. PICK j \in 1..N : order[j] = emitted[i] /\ j < at
        BY <1>8, <2>1
      <4>2. j # at
        BY <1>2, <4>1
      <4> QED BY <2>2, <4>1, <4>2
    <3> QED BY <3>1
  <2>5. public' = IF External(selected[k]) THEN public \union {k} ELSE public
    BY <2>1, <2>2
  <2> HIDE DEF k, M, N
  <2>6. \A i \in 1..(M + 1) : i \in 1..M \/ i = M + 1
    BY <1>3
  <2>7. \A i, j \in 1..(M + 1) : emitted'[i] = emitted'[j] => i = j
    BY <1>3, <2>3, <2>4, <2>6
  <2>8. ASSUME NEW i \in 1..(M + 1)
        PROVE  \E j \in 1..N : order[j] = emitted'[i] /\ j < at + 1
    <3>1. CASE i = M + 1
      <4>1. at < at + 1
        BY <1>2
      <4> QED BY <2>2, <2>3, <3>1, <4>1 DEF k
    <3>2. CASE i \in 1..M
      <4>1. PICK j \in 1..N : order[j] = emitted[i] /\ j < at
        BY <1>8, <2>1, <3>2
      <4>2. j < at + 1
        BY <1>2, <1>3, <4>1
      <4> QED BY <2>3, <3>2, <4>1, <4>2
    <3> QED BY <2>6, <3>1, <3>2
  <2>9. M + 1 \in 1..(M + 1) /\ \A i \in 1..M : i \in 1..(M + 1)
    BY <1>3
  <2>10. ASSUME NEW j \in 1..N, decls[selected[order[j]]].body, j < at + 1
         PROVE  \E i \in 1..(M + 1) : emitted'[i] = order[j]
    <3>1. CASE j = at
      BY <2>3, <2>9, <3>1 DEF k
    <3>2. CASE j # at
      <4>1. j < at
        BY <1>2, <1>3, <2>10, <3>2
      <4>2. PICK i \in 1..M : emitted[i] = order[j]
        BY <1>9, <2>1, <2>10, <4>1 DEF IsEmitted, M
      <4> QED BY <2>3, <2>9, <4>2
    <3> QED BY <3>1, <3>2
  <2>11. public' \subseteq 1..MaxDecls /\ \A c \in public' : External(selected[c])
    BY <1>3, <2>2, <2>5
  <2>12. \A i \in 1..(M + 1) : External(selected[emitted'[i]]) => emitted'[i] \in public'
    BY <1>3, <2>3, <2>5, <2>6
  <2>13. \A j \in 1..N : IsEmitted(order[j])' <=> \E i \in 1..(M + 1) : emitted'[i] = order[j]
    BY <2>1, <2>3 DEF IsEmitted
  <2>14. Len(order)' = N /\ Len(emitted)' = M + 1 /\ stage' = "emit" /\ at' = at + 1
         /\ order' = order /\ selected' = selected
    BY <2>1, <2>3 DEF N
  <2> QED BY <1>1, <2>3, <2>7, <2>8, <2>10, <2>11, <2>12, <2>13, <2>14 DEF EmissionInv
<1>13. CASE FailBody
  <2>1. /\ stage = "emit" /\ at <= N
        /\ public' = IF External(d) THEN public \union {Key(d)} ELSE public
        /\ stage' = "failed"
        /\ UNCHANGED <<order, selected, emitted>>
    BY <1>13 DEF FailBody
  <2>2. k \in 1..MaxDecls /\ Key(d) = k
    BY <1>11, <2>1
  <2>3. public' \subseteq 1..MaxDecls /\ \A c \in public' : External(selected[c])
    BY <1>3, <2>1, <2>2
  <2>4. public \subseteq public'
    BY <2>1
  <2> QED BY <1>1, <1>3, <1>8, <2>1, <2>3, <2>4 DEF EmissionInv
<1>14. CASE EndEmission
  <2>1. /\ stage = "emit" /\ at > N /\ stage' = "generated"
        /\ UNCHANGED <<order, selected, public, emitted>>
    BY <1>14 DEF EndEmission
  <2>2. \A j \in 1..N : j < at
    BY <1>2, <1>3, <2>1
  <2>3. \A j \in 1..N : decls[selected[order[j]]].body => IsEmitted(order[j])
    BY <1>9, <2>1, <2>2
  <2>4. \A c : IsEmitted(c)' <=> IsEmitted(c)
    BY <2>1 DEF IsEmitted
  <2> QED BY <1>1, <1>3, <1>8, <2>1, <2>3, <2>4 DEF EmissionInv
<1> QED BY <1>5, <1>6, <1>7, <1>10, <1>12, <1>13, <1>14 DEF Generate

WholeInv == Inv /\ FileInv /\ TypesInv /\ Accepted /\ GenerationInv

LEMMA InitHasWholeInv == EInit => WholeInv
<1>1. EInit => Init
  BY DEF EInit
<1> QED BY <1>1, InitHasInv, InitHasFileInv, InitHasTypesInv, InitHasGenerationInv DEF WholeInv

LEMMA WholeInvIsInductive == WholeInv /\ [ENext]_allVars => WholeInv'
<1> SUFFICES ASSUME WholeInv, [ENext]_allVars PROVE WholeInv'
  OBVIOUS
<1>1. Inv /\ FileInv /\ TypesInv /\ Accepted /\ GenerationInv
  BY DEF WholeInv
<1>2. ASSUME [Next]_vars PROVE Inv' /\ FileInv' /\ TypesInv' /\ Accepted'
  BY <1>1, <1>2, InvIsInductive, FileInvIsInductive, TypesInvIsInductive, AcceptedIsInductive
<1>3. CASE Analyse
  <2>1. [Next]_vars /\ stage = "analysis" /\ UNCHANGED generation
    BY <1>3 DEF Analyse
  <2> QED BY <1>1, <1>2, <2>1, GenerationWaits DEF WholeInv
<1>4. CASE Generate
  <2>1. UNCHANGED vars
    BY <1>4 DEF Generate, StartGeneration, SkipTypedef, Select, RefuseDeclaration,
           EndSelection, DeclareSelected, EndDeclarations, SkipBodyless, EmitFunction,
           FailBody, EndEmission
  <2>2. GenerationInv'
    BY <1>1, <1>4, StageStep, SelectionStep, SignaturesStep, EmissionStep DEF GenerationInv
  <2> QED BY <1>2, <2>1, <2>2 DEF WholeInv
<1>5. CASE UNCHANGED allVars
  <2>1. UNCHANGED vars /\ UNCHANGED generation
    BY <1>5 DEF allVars
  <2>2. /\ UNCHANGED <<decls, phase, errors, stage, at, order, selected>>
        /\ UNCHANGED <<functions, public, emitted>>
    BY <2>1 DEF vars, generation
  <2>3. StageInv'
    BY <1>1, <2>2 DEF StageInv, GenerationInv
  <2>4. /\ \A d : (Covered(d)' <=> Covered(d)) /\ (Met(d)' <=> Met(d))
        /\ \A c : Chosen(c)' <=> Chosen(c)
    BY <2>2 DEF Covered, Met, Chosen, Key
  <2>5. SelectionInv'
    BY <1>1, <2>2, <2>4 DEF SelectionInv, GenerationInv
  <2>6. SignaturesInv'
    BY <1>1, <2>2 DEF SignaturesInv, GenerationInv
  <2>7. \A c : (IsEmitted(c)' <=> IsEmitted(c)) /\ (External(c)' <=> External(c))
    BY <2>2 DEF IsEmitted, External, Key
  <2>8. EmissionInv'
    BY <1>1, <2>2, <2>7 DEF EmissionInv, GenerationInv
  <2> QED BY <1>2, <2>1, <2>3, <2>5, <2>6, <2>8 DEF WholeInv, GenerationInv
<1> QED BY <1>3, <1>4, <1>5 DEF ENext

\* Once selection is over, a declaration and the one selected for it.
LEMMA SelectedFacts ==
  ASSUME WholeInv, stage \in {"declare", "emit", "generated"},
         NEW d \in 1..Len(decls), FileDecl(decls[d]), decls[d].kind = "func"
  PROVE  LET s == selected[Key(d)]
         IN  /\ Covered(d)
             /\ s \in 1..Len(decls) /\ FileDecl(decls[s]) /\ decls[s].kind = "func"
             /\ decls[s].canonical = decls[d].canonical /\ decls[s].name = decls[d].name
             /\ \E j \in 1..Len(order) : order[j] = Key(d)
<1> DEFINE k == Key(d)
           s == selected[k]
<1>1. Inv /\ TypesInv /\ SelectionInv
  BY DEF WholeInv, GenerationInv
<1>2. k \in 1..MaxDecls
  BY <1>1, KeyFacts DEF FileDecl
<1>3. Covered(d)
  BY <1>1 DEF SelectionInv, Met
<1>4. s # NoDecl
  BY <1>3 DEF Covered
<1>5. \E j \in 1..Len(order) : order[j] = k
  BY <1>1, <1>2, <1>4 DEF SelectionInv
<1>6. /\ s \in 1..Len(decls) /\ FileDecl(decls[s]) /\ decls[s].kind = "func"
      /\ decls[s].canonical = k
  BY <1>1, <1>2, <1>4 DEF SelectionInv, Chosen
<1>7. First(decls, d) /\ First(decls, s)
  BY <1>1, <1>6 DEF TypesInv, TypesInvOf
<1>8. decls[k].name = decls[d].name /\ decls[k].name = decls[s].name
  BY <1>6, <1>7 DEF First, Key
<1>9. k = decls[d].canonical
  BY DEF Key
<1> HIDE DEF s, k
<1> QED BY <1>3, <1>5, <1>6, <1>8, <1>9 DEF s, k

(* A call that analysis checked against a prototype finds its callee        *)
(* declared in the module with as many parameters as it has arguments.     *)
THEOREM CallsCorrect == ESpec => []CheckedCallsAreCallable
<1>1. WholeInv => CheckedCallsAreCallable
  <2> SUFFICES ASSUME WholeInv, stage \in {"emit", "generated"}, NEW i \in DOMAIN calls,
                      decls[calls[i].decl].kind = "func", decls[calls[i].decl].depth = 1,
                      decls[calls[i].decl].type.proto
               PROVE  Callable(calls[i])
    BY DEF CheckedCallsAreCallable
  <2> DEFINE c == calls[i]
             d == c.decl
             k == Key(d)
             s == selected[k]
             t == decls[d].type
             u == decls[s].type
             seen == decls[scopes[1][decls[d].name]].type
  <2>1. Inv /\ FileInv /\ TypesInv /\ Accepted /\ SignaturesInv
    BY DEF WholeInv, GenerationInv
  <2>2. i \in 1..Len(calls) /\ d \in 1..Len(decls)
    <3>1. calls \in Seq(CallSet(Len(decls)))
      BY <2>1 DEF Inv, TypeOK, CallSet
    <3>2. i \in 1..Len(calls)
      BY <3>1, LenProperties
    <3>3. c \in CallSet(Len(decls))
      BY <3>1, <3>2, ElementOfSeq
    <3> QED BY <3>2, <3>3 DEF CallSet
  <2>3. Fits(decls, c)
    BY <2>1, <2>2 DEF Accepted, AcceptedOf
  <2>4. FileDecl(decls[d])
    BY <2>3 DEF Fits, FileDecl
  <2>5. /\ Covered(d)
        /\ s \in 1..Len(decls) /\ FileDecl(decls[s]) /\ decls[s].kind = "func"
        /\ decls[s].canonical = decls[d].canonical /\ decls[s].name = decls[d].name
        /\ \E j \in 1..Len(order) : order[j] = k
    BY <2>2, <2>4, SelectedFacts
  <2>6. functions[k] = s /\ ~u.variadic
    <3>1. PICK j \in 1..Len(order) : order[j] = k
      BY <2>5
    <3> QED BY <2>1, <3>1 DEF SignaturesInv
  <2>7. Known(decls, scopes[1], d) /\ Known(decls, scopes[1], s)
    BY <2>1, <2>2, <2>5 DEF TypesInv, TypesInvOf
  <2>8. /\ seen.proto /\ SameParameters(t, seen)
        /\ u.proto => SameParameters(u, seen)
        /\ ~u.proto => u.params = <<>> /\ FitsUnprototyped(seen)
    BY <2>4, <2>5, <2>7 DEF Known
  <2>9. \/ c.args = Len(t.params)
        \/ t.variadic /\ c.args > Len(t.params)
    BY <2>3 DEF Fits
  <2>10. CASE u.proto
    <3>1. t.variadic = seen.variadic /\ Len(t.params) = Len(seen.params)
      BY <2>8 DEF SameParameters
    <3>2. u.variadic = seen.variadic /\ Len(u.params) = Len(seen.params)
      BY <2>8, <2>10 DEF SameParameters
    <3>3. c.args = Len(u.params)
      <4> HIDE DEF c, t, u, seen
      <4> QED BY <2>6, <2>9, <3>1, <3>2
    <3> QED BY <2>5, <2>6, <3>3 DEF Callable, NoDecl
  <2>11. CASE ~u.proto
    <3>1. t.variadic = seen.variadic
      BY <2>8 DEF SameParameters
    <3>2. ~seen.variadic
      BY <2>8, <2>11 DEF FitsUnprototyped
    <3>3. c.args = Len(t.params)
      <4> HIDE DEF c, t, u, seen
      <4> QED BY <2>9, <3>1, <3>2
    <3>4. decls[s].body
      BY <2>5, <2>11 DEF Covered
    <3>5. NoClash(decls, s, d)
      BY <2>1, <2>2, <2>5 DEF FileInv, FileInvOf
    <3>6. t.params = <<>>
      BY <2>4, <2>5, <2>11, <3>4, <3>5 DEF NoClash, HasParameters
    <3>7. c.args = Len(u.params)
      BY <2>8, <2>11, <3>3, <3>6
    <3> QED BY <2>5, <2>6, <3>7 DEF Callable, NoDecl
  <2> QED BY <2>10, <2>11
<1> QED BY <1>1, InitHasWholeInv, WholeInvIsInductive, PTL DEF ESpec

(* An emitted function is exported exactly if its first declaration is not *)
(* static, whichever of its declarations was selected.                     *)
THEOREM LinkageCorrect == ESpec => []LinkageAsDeclared
<1>1. WholeInv => LinkageAsDeclared
  <2> SUFFICES ASSUME WholeInv, NEW i \in DOMAIN emitted, NEW d \in DOMAIN decls,
                      AtFileScope(d), decls[d].name = decls[emitted[i]].name,
                      \A e \in 1..(d - 1) : ~SameName(d, e)
               PROVE  emitted[i] \in public <=> decls[d].sc # "STATIC"
    BY DEF LinkageAsDeclared
  <2> DEFINE c == emitted[i]
             s == selected[c]
  <2>1. Inv /\ FileInv /\ TypesInv /\ SelectionInv /\ EmissionInv
    BY DEF WholeInv, GenerationInv
  <2>2. i \in 1..Len(emitted)
    BY <2>1, LenProperties DEF EmissionInv
  <2>3. d \in 1..Len(decls) /\ Len(decls) \in Nat
    BY <2>1, LenProperties DEF Inv, TypeOK
  <2>4. PICK j \in 1..Len(order) : order[j] = c
    BY <2>1, <2>2 DEF EmissionInv
  <2>5. s \in 1..Len(decls) /\ FileDecl(decls[s]) /\ decls[s].kind = "func" /\ Key(s) = c
    BY <2>1, <2>4, PlaceFacts
  <2>6. c \in 1..Len(decls)
    BY <2>1, <2>5, KeyFacts DEF FileDecl
  <2>7. /\ FileDecl(decls[c])
        /\ decls[s].sc = "STATIC" => decls[c].sc = "STATIC"
    <3>1. First(decls, s)
      BY <2>1, <2>5 DEF TypesInv, TypesInvOf
    <3> QED BY <2>5, <3>1 DEF First, Key
  <2>8. FileDecl(decls[d])
    BY DEF AtFileScope, FileDecl
  <2>9. decls[d].canonical = c /\ c <= d
    <3>1. /\ Shared(decls, scopes[1], s) /\ Shared(decls, scopes[1], c)
          /\ Shared(decls, scopes[1], d)
      BY <2>1, <2>3, <2>5, <2>6 DEF FileInv, FileInvOf
    <3>2. decls[c].canonical = c
      BY <2>5, <3>1 DEF Shared, Key
    <3>3. decls[d].canonical = decls[c].canonical
      BY <2>7, <2>8, <3>1 DEF Shared
    <3>4. decls[d].canonical <= d
      BY <2>8, <3>1 DEF Shared
    <3> QED BY <3>2, <3>3, <3>4
  <2>10. SameName(d, c)
    BY <2>7 DEF SameName, AtFileScope, FileDecl
  <2>11. c = d
    <3>1. c \notin 1..(d - 1)
      BY <2>10
    <3> HIDE DEF c
    <3> QED BY <2>3, <2>6, <2>9, <3>1
  <2>12. External(s) <=> decls[c].sc # "STATIC"
    BY <2>5, <2>7 DEF External
  <2>13. c \in public <=> External(s)
    BY <2>1, <2>2 DEF EmissionInv
  <2> QED BY <2>11, <2>12, <2>13
<1> QED BY <1>1, InitHasWholeInv, WholeInvIsInductive, PTL DEF ESpec

(* A generated module has every body of the unit once.                     *)
THEOREM BodiesCorrect == ESpec => []EveryBodyIsEmitted
<1>1. WholeInv => EveryBodyIsEmitted
  <2> SUFFICES ASSUME WholeInv, stage = "generated", NEW d \in DOMAIN decls,
                      decls[d].ok, decls[d].body
               PROVE  \E i \in DOMAIN emitted :
                        /\ emitted[i] = Key(d) /\ selected[Key(d)] = d
                        /\ \A j \in DOMAIN emitted : emitted[j] = Key(d) => j = i
    BY DEF EveryBodyIsEmitted
  <2> DEFINE k == Key(d)
             s == selected[k]
  <2>1. Inv /\ FileInv /\ Accepted /\ EmissionInv
    BY DEF WholeInv, GenerationInv
  <2>2. d \in 1..Len(decls)
    BY <2>1, LenProperties DEF Inv, TypeOK
  <2>3. decls[d].kind = "func" /\ FileDecl(decls[d])
    BY <2>1, <2>2 DEF Accepted, AcceptedOf, FileDecl
  <2>4. /\ Covered(d)
        /\ s \in 1..Len(decls) /\ FileDecl(decls[s])
        /\ decls[s].canonical = decls[d].canonical
        /\ \E j \in 1..Len(order) : order[j] = k
    BY <2>2, <2>3, SelectedFacts
  <2>5. decls[s].body
    BY <2>4 DEF Covered
  <2>6. s = d
    <3>1. Recorded(decls, definitions, s) /\ Recorded(decls, definitions, d)
      BY <2>1, <2>2, <2>4 DEF FileInv, FileInvOf
    <3> QED BY <2>3, <2>4, <2>5, <3>1 DEF Recorded
  <2>7. PICK j \in 1..Len(order) : order[j] = k
    BY <2>4
  <2>8. IsEmitted(k)
    BY <2>1, <2>5, <2>7 DEF EmissionInv
  <2>9. PICK i \in 1..Len(emitted) : emitted[i] = k
    BY <2>8 DEF IsEmitted
  <2>10. DOMAIN emitted = 1..Len(emitted)
    BY <2>1, LenProperties DEF EmissionInv
  <2>11. \A l \in 1..Len(emitted) : emitted[l] = k => l = i
    BY <2>1, <2>9 DEF EmissionInv
  <2> QED BY <2>6, <2>9, <2>10, <2>11
<1> QED BY <1>1, InitHasWholeInv, WholeInvIsInductive, PTL DEF ESpec
=============================================================================
