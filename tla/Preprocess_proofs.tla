-------------------------- MODULE Preprocess_proofs --------------------------
(***************************************************************************)
(* Proofs about Preprocess.  The inductive invariant is TypeOK together    *)
(* with SectionsNest and NothingWaitsAcrossFiles; the action property on   *)
(* skipped groups follows from it.  OnceInv, built on it, follows a file   *)
(* that asks to be read once through all invocations.  Track, the last,    *)
(* relates the stack, the macro table, the waiting text and the output at  *)
(* a line to what ConditionalGroups says of the text before it.            *)
(***************************************************************************)
EXTENDS Preprocess, FiniteSetTheorems, SequenceTheorems, TLAPS, WellFoundedInduction

(* Opening a section keeps the stack nested when the new section says of   *)
(* its surroundings what the innermost open one says of itself.            *)
LEMMA PushNested ==
  ASSUME NEW s \in Seq(Conditional), Nested(s), NEW c \in Conditional,
         c.parentActive <=> IF s = <<>> THEN TRUE ELSE s[Len(s)].active,
         c.active => c.parentActive /\ c.taken,
         c.seenElse => c.taken
  PROVE  Nested(Append(s, c))
<1> DEFINE t == Append(s, c)
<1>1. Len(t) = Len(s) + 1 /\ \A i \in 1..Len(s) : t[i] = s[i]
  OBVIOUS
<1>2. t[Len(s) + 1] = c
  OBVIOUS
<1>3. c.parentActive <=> \A j \in 1..Len(s) : s[j].active
  <2>1. CASE s = <<>>
    BY <2>1
  <2>2. CASE s # <<>>
    <3>1. Len(s) \in 1..Len(s)
      BY <2>2
    <3>2. s[Len(s)].active => \A j \in 1..(Len(s) - 1) : s[j].active
      BY <3>1 DEF Nested
    <3>3. QED
      BY <2>2, <3>1, <3>2
  <2>3. QED
    BY <2>1, <2>2
<1>4. ASSUME NEW i \in 1..Len(t)
      PROVE  /\ t[i].parentActive <=> \A j \in 1..(i - 1) : t[j].active
             /\ t[i].active => t[i].parentActive /\ t[i].taken
             /\ t[i].seenElse => t[i].taken
  <2>1. CASE i = Len(s) + 1
    BY <1>1, <1>2, <1>3, <2>1
  <2>2. CASE i \in 1..Len(s)
    BY <1>1, <2>2 DEF Nested
  <2>3. QED
    BY <1>1, <2>1, <2>2
<1>5. QED
  BY <1>4 DEF Nested

(* Changing the innermost section keeps the stack nested when it keeps     *)
(* what it says of its surroundings.                                       *)
LEMMA ReplaceNested ==
  ASSUME NEW s \in Seq(Conditional), Nested(s), s # <<>>,
         NEW c \in Conditional,
         c.parentActive = s[Len(s)].parentActive,
         c.active => c.parentActive /\ c.taken,
         c.seenElse => c.taken
  PROVE  Nested([s EXCEPT ![Len(s)] = c])
<1> DEFINE t == [s EXCEPT ![Len(s)] = c]
<1>1. /\ Len(t) = Len(s)
      /\ t[Len(s)] = c
      /\ \A i \in 1..(Len(s) - 1) : t[i] = s[i]
  OBVIOUS
<1>2. ASSUME NEW i \in 1..Len(t)
      PROVE  /\ t[i].parentActive <=> \A j \in 1..(i - 1) : t[j].active
             /\ t[i].active => t[i].parentActive /\ t[i].taken
             /\ t[i].seenElse => t[i].taken
  <2>1. \A j \in 1..(i - 1) : t[j] = s[j]
    BY <1>1
  <2>2. CASE i = Len(s)
    BY <1>1, <2>1, <2>2 DEF Nested
  <2>3. CASE i # Len(s)
    <3>1. i \in 1..Len(s) /\ t[i] = s[i]
      BY <1>1, <2>3
    <3>2. QED
      BY <2>1, <3>1 DEF Nested
  <2>4. QED
    BY <2>2, <2>3
<1>3. QED
  BY <1>2 DEF Nested

(* Closing the innermost section keeps the stack nested.                   *)
LEMMA PopNested ==
  ASSUME NEW s \in Seq(Conditional), Nested(s), s # <<>>
  PROVE  Nested(SubSeq(s, 1, Len(s) - 1))
BY DEF Nested

(* The innermost section of a nested stack is active only when all are.    *)
LEMMA InnermostDecides ==
  ASSUME TypeOK, Nested(conds)
  PROVE  Active <=> \A i \in 1..Len(conds) : conds[i].active
<1>1. CASE conds = <<>>
  BY <1>1 DEF Active
<1>2. CASE conds # <<>>
  <2>1. Len(conds) \in 1..Len(conds)
    BY <1>2 DEF TypeOK
  <2>2. Top.active => \A i \in 1..(Len(conds) - 1) : conds[i].active
    BY <2>1 DEF Nested, Top
  <2>3. QED
    BY <1>2, <2>1, <2>2 DEF Active, Top
<1>3. QED
  BY <1>1, <1>2

(* Every nonempty set of numbers has a least element: the first directory  *)
(* of the search path that holds a header is well defined.                 *)
Less == {p \in Nat \X Nat : p[1] < p[2]}

LEMMA LeastNumber ==
  ASSUME NEW S \in SUBSET Nat, NEW n \in S
  PROVE  \E i \in S : \A j \in S : i <= j
<1>1. IsWellFoundedOn(Less, Nat)
  BY NatLessThanWellFounded DEF OpToRel, Less
<1>2. \A i, j \in Nat : <<j, i>> \in Less <=> j < i
  BY DEF Less
<1>3. PICK m \in S : \A j \in S : ~(<<j, m>> \in Less)
  BY <1>1, WFMin
<1>4. ASSUME NEW j \in S
      PROVE  m <= j
  <2>1. m \in Nat /\ j \in Nat /\ ~(<<j, m>> \in Less)
    BY <1>3
  <2>2. ~(j < m)
    BY <1>2, <2>1
  <2>3. QED
    BY <2>1, <2>2
<1>5. QED
  BY <1>4

-----------------------------------------------------------------------------
(* The text that waits expands to text, whatever the macros are.           *)
LEMMA ExpansionType ==
  ASSUME TypeOK
  PROVE  Expansion \in Seq(OutToken)
<1>1. ASSUME NEW i \in 1..Len(pending)
      PROVE  [tok |-> pending[i].tok, file |-> pending[i].file,
              line |-> pending[i].line, value |-> ValueOf(pending[i].tok)]
               \in OutToken
  <2>1. pending[i] \in PPToken
    BY DEF TypeOK
  <2>2. ValueOf(pending[i].tok) \in Value \cup {Undefined}
    <3>1. macros[Fn] \in Value \cup {Undefined}
      BY NamesAssumption DEF TypeOK
    <3>2. \A n \in Name : macros[n] \in Value \cup {Undefined}
      BY DEF TypeOK
    <3>3. QED
      BY <3>1, <3>2 DEF ValueOf
  <2>3. QED
    BY <2>1, <2>2 DEF PPToken, OutToken
<1>2. Len(pending) \in Nat
  BY DEF TypeOK
<1>3. QED
  BY <1>1, <1>2 DEF Expansion

(* Expanding what waits when nothing waits adds nothing.                   *)
LEMMA ExpansionOfNothing ==
  ASSUME TypeOK, pending = <<>>
  PROVE  output \o Expansion = output
<1>1. Expansion = <<>>
  BY DEF Expansion
<1>2. QED
  BY <1>1 DEF TypeOK

(* What Flush and Fail leave in output and pending.                        *)
LEMMA FlushType ==
  ASSUME TypeOK, Flush
  PROVE  output' \in Seq(OutToken) /\ pending' \in Seq(PPToken)
BY ExpansionType DEF Flush, TypeOK

LEMMA FailType ==
  ASSUME TypeOK, Fail
  PROVE  TypeOK'
BY DEF Fail, TypeOK, shared

(* A line that is read is one of the lines of the language.                *)
LEMMA CurrentIsLine ==
  ASSUME TypeOK, AtLine
  PROVE  /\ Current \in Line
         /\ pos + 1 \in 1..(Len(source[file]) + 1)
BY DEF TypeOK, AtLine, Current

(* The arguments of a directive by its kind.                               *)
LEMMA LineFields ==
  ASSUME NEW l \in Line
  PROVE  /\ l.kind = "text" => l.tok \in Token
         /\ l.kind \in {"if", "ifdef", "ifndef", "elif", "undef"}
              => l.name \in Name \cup {Malformed}
         /\ l.kind = "define"
              => l.name \in Name \cup {Malformed} /\ l.value \in Value
         /\ l.kind = "include"
              => l.header \in Header \cup {Malformed} /\ l.quoted \in BOOLEAN
BY DEF Line

-----------------------------------------------------------------------------
(* Type correctness of the directives that only move within a file.        *)
LEMMA SimpleStepsType ==
  ASSUME TypeOK, Run \/ ReadText \/ FlushFails \/ NullDirective
                 \/ SkipDirective \/ ErrorDirective
  PROVE  TypeOK'
<1>1. CASE Run
  BY <1>1, ProgramsAssumption DEF Run, TypeOK
<1>2. CASE ReadText
  <2>1. Current.tok \in Token /\ pos + 1 \in 1..(Len(source[file]) + 1)
    BY <1>2, CurrentIsLine, LineFields DEF ReadText
  <2>2. [tok |-> Current.tok, file |-> file, line |-> pos] \in PPToken
    BY <2>1 DEF TypeOK, PPToken
  <2>3. pending' \in Seq(PPToken)
    BY <1>2, <2>2 DEF ReadText, TypeOK
  <2>4. QED
    BY <1>2, <2>1, <2>3 DEF ReadText, Proceed, shared, TypeOK
<1>3. CASE FlushFails \/ ErrorDirective
  BY <1>3, FailType DEF FlushFails, ErrorDirective
<1>4. CASE NullDirective \/ SkipDirective
  <2>1. pos + 1 \in 1..(Len(source[file]) + 1)
    BY <1>4, CurrentIsLine
       DEF NullDirective, SkipDirective, Directive, AtDirective
  <2>2. output' \in Seq(OutToken) /\ pending' \in Seq(PPToken)
    BY <1>4, FlushType DEF NullDirective, SkipDirective
  <2>3. QED
    BY <1>4, <2>1, <2>2
       DEF NullDirective, SkipDirective, Proceed, shared, TypeOK
<1>5. QED
  BY <1>1, <1>2, <1>3, <1>4

(* The sections that directives write are records of flags.                *)
LEMMA NewSectionType ==
  ASSUME TypeOK
  PROVE  /\ Opened(Active /\ Selected) \in Conditional
         /\ conds # <<>> => /\ Continued(Wanted /\ Selected) \in Conditional
                            /\ Otherwise \in Conditional
<1>1. conds # <<>> => Top \in Conditional
  BY DEF Top, TypeOK
<1>2. Selected \in BOOLEAN
  BY DEF Selected
<1>3. Active \in BOOLEAN
  BY <1>1 DEF Active, Conditional
<1>4. Opened(Active /\ Selected) \in Conditional
  BY <1>2, <1>3 DEF Opened, Conditional
<1>5. ASSUME conds # <<>>
      PROVE  Continued(Wanted /\ Selected) \in Conditional /\ Otherwise \in Conditional
  <2>1. Wanted \in BOOLEAN
    BY DEF Wanted
  <2>2. QED
    BY <1>1, <1>2, <1>5, <2>1 DEF Continued, Otherwise, Conditional
<1>6. QED
  BY <1>4, <1>5

(* Type correctness of the directives that open, continue and close a      *)
(* section.                                                                *)
LEMMA SectionStepsType ==
  ASSUME TypeOK, OpenConditional \/ Elif \/ Else \/ Endif
  PROVE  TypeOK'
<1>1. CASE Fail
  BY <1>1, FailType
<1>2. CASE ~Fail
  <2>1. pos + 1 \in 1..(Len(source[file]) + 1)
    BY CurrentIsLine
       DEF OpenConditional, Elif, Else, Endif, Directive, AtDirective
  <2>2. Flush /\ Proceed /\ UNCHANGED shared
    BY <1>2 DEF OpenConditional, Elif, Else, Endif
  <2>3. output' \in Seq(OutToken) /\ pending' \in Seq(PPToken)
    BY <2>2, FlushType
  <2>4. conds' \in Seq(Conditional)
    <3>1. CASE OpenConditional
      <4>1. conds' = Append(conds, Opened(Active /\ Selected))
        BY <1>2, <3>1 DEF OpenConditional
      <4>2. QED
        BY <4>1, NewSectionType DEF TypeOK
    <3>2. CASE Elif
      <4>1. conds # <<>> /\ conds' = [conds EXCEPT ![Len(conds)] = Continued(Wanted /\ Selected)]
        BY <1>2, <3>2 DEF Elif
      <4>2. QED
        BY <4>1, NewSectionType DEF TypeOK
    <3>3. CASE Else
      <4>1. conds # <<>> /\ conds' = [conds EXCEPT ![Len(conds)] = Otherwise]
        BY <1>2, <3>3 DEF Else
      <4>2. QED
        BY <4>1, NewSectionType DEF TypeOK
    <3>4. CASE Endif
      <4>1. conds # <<>> /\ conds' = SubSeq(conds, 1, Len(conds) - 1)
        BY <1>2, <3>4 DEF Endif
      <4>2. QED
        BY <4>1 DEF TypeOK
    <3>5. QED
      BY <3>1, <3>2, <3>3, <3>4
  <2>5. QED
    BY <2>1, <2>2, <2>3, <2>4 DEF Proceed, shared, TypeOK
<1>3. QED
  BY <1>1, <1>2

(* Type correctness of the directives that change the macro table or the   *)
(* set of files to read once.                                              *)
LEMMA TableStepsType ==
  ASSUME TypeOK, Define \/ Undef \/ PragmaOnce
  PROVE  TypeOK'
<1>1. CASE Fail
  BY <1>1, FailType
<1>2. CASE ~Fail
  <2>1. /\ pos + 1 \in 1..(Len(source[file]) + 1)
        /\ Current \in Line
    BY CurrentIsLine DEF Define, Undef, PragmaOnce, Directive, AtDirective
  <2>2. Flush /\ Proceed /\ UNCHANGED <<visited, spelling, conds>>
    BY <1>2 DEF Define, Undef, PragmaOnce
  <2>3. output' \in Seq(OutToken) /\ pending' \in Seq(PPToken)
    BY <2>2, FlushType
  <2>4. macros' \in [Name -> Value \cup {Undefined}] /\ once' \subseteq File
    <3>1. CASE Define
      <4>1. Current.value \in Value
        BY <2>1, <3>1, LineFields DEF Define, Directive
      <4>2. /\ macros' = [macros EXCEPT ![Current.name] = Current.value]
            /\ once' = once
        BY <1>2, <3>1 DEF Define
      <4>3. QED
        BY <4>1, <4>2 DEF TypeOK
    <3>2. CASE Undef
      <4>1. /\ macros' = [macros EXCEPT ![Current.name] = Undefined]
            /\ once' = once
        BY <1>2, <3>2 DEF Undef
      <4>2. QED
        BY <4>1 DEF TypeOK
    <3>3. CASE PragmaOnce
      BY <3>3 DEF PragmaOnce, TypeOK
    <3>4. QED
      BY <3>1, <3>2, <3>3
  <2>5. QED
    BY <2>1, <2>2, <2>3, <2>4 DEF Proceed, TypeOK
<1>3. QED
  BY <1>1, <1>2

(* An #include that is found names a file and the directory it was found   *)
(* in.                                                                     *)
LEMMA TargetType ==
  ASSUME TypeOK, Hits # {}
  PROVE  Target \in Found
<1> DEFINE first == CHOOSE i \in Hits : \A j \in Hits : i <= j
<1>1. Hits \subseteq Nat
  BY DEF Hits
<1>2. \E i \in Hits : \A j \in Hits : i <= j
  <2>1. PICK n \in Hits : TRUE
    OBVIOUS
  <2>2. QED
    BY <1>1, <2>1, LeastNumber
<1>3. first \in Hits
  BY <1>2
<1>4. QED
  BY <1>3, DirsAssumption DEF Target, Hits

LEMMA IncludeType ==
  ASSUME TypeOK, Include
  PROVE  TypeOK'
<1>1. CASE Fail
  BY <1>1, FailType
<1>2. CASE ~Fail
  <2>1. Hits # {} /\ Flush
    BY <1>2 DEF Include
  <2>2. Target \in Found
    BY <2>1, TargetType
  <2>3. spelling' \in [File -> Dir \cup {NotLoaded}]
    <3>1. spelling' = Loaded(Target)
      BY <1>2 DEF Include
    <3>2. QED
      BY <2>2, <3>1 DEF Loaded, Found, TypeOK
  <2>4. output' \in Seq(OutToken) /\ pending' \in Seq(PPToken)
    BY <2>1, FlushType
  <2>5. pos + 1 \in 1..(Len(source[file]) + 1)
    BY CurrentIsLine DEF Include, Directive, AtDirective
  <2>6. CASE Proceed /\ UNCHANGED <<macros, once, visited, conds>>
    BY <2>3, <2>4, <2>5, <2>6 DEF Proceed, TypeOK
  <2>7. CASE ~(Proceed /\ UNCHANGED <<macros, once, visited, conds>>)
    <3>1. /\ callers' = Append(callers, [file |-> file, pos |-> pos + 1,
                                         conds |-> conds, pending |-> <<>>])
          /\ file' = Target.file
          /\ pos' = 1
          /\ conds' = <<>>
          /\ visited' = visited \cup {Target.file}
          /\ UNCHANGED <<source, macros, once, outcome>>
      BY <1>2, <2>7 DEF Include
    <3>2. [file |-> file, pos |-> pos + 1, conds |-> conds, pending |-> <<>>]
            \in Invocation
      BY <2>5 DEF TypeOK, Invocation
    <3>3. callers' \in Seq(Invocation)
      BY <3>1, <3>2 DEF TypeOK
    <3>4. file' \in File /\ Len(source[file']) \in Nat
      BY <2>2, <3>1 DEF Found, TypeOK
    <3>5. ASSUME NEW k \in 1..Len(callers')
          PROVE  callers'[k].pos \in 1..(Len(source'[callers'[k].file]) + 1)
      <4>1. CASE k = Len(callers) + 1
        BY <2>5, <3>1, <4>1 DEF TypeOK
      <4>2. CASE k # Len(callers) + 1
        <5>1. callers \in Seq(Invocation)
          BY DEF TypeOK
        <5>2. k \in 1..Len(callers) /\ callers'[k] = callers[k]
          BY <3>1, <4>2, <5>1
        <5>3. QED
          BY <3>1, <5>2 DEF TypeOK
      <4>3. QED
        BY <4>1, <4>2
    <3>6. /\ pos' \in 1..(Len(source'[file']) + 1)
          /\ conds' \in Seq(Conditional)
          /\ visited' \subseteq File
      BY <3>1, <3>4 DEF TypeOK
    <3>7. QED
      BY <2>3, <2>4, <3>1, <3>3, <3>4, <3>5, <3>6 DEF TypeOK
  <2>8. QED
    BY <2>6, <2>7
<1>3. QED
  BY <1>1, <1>2

LEMMA EndOfFileType ==
  ASSUME TypeOK, EndOfFile
  PROVE  TypeOK'
<1>1. CASE Fail
  BY <1>1, FailType
<1>2. CASE ~Fail
  <2>1. output' = output \o Expansion /\ UNCHANGED <<source, shared>>
    BY <1>2 DEF EndOfFile
  <2>2. output' \in Seq(OutToken)
    <3> DEFINE e == Expansion
    <3>1. output \in Seq(OutToken) /\ e \in Seq(OutToken)
      BY ExpansionType DEF TypeOK
    <3>2. output' = output \o e
      BY <2>1
    <3> HIDE DEF e
    <3> QED BY <3>1, <3>2
  <2>3. CASE callers = <<>>
    <3>1. /\ outcome' = "ok" /\ pending' = <<>>
          /\ UNCHANGED <<file, pos, conds, callers>>
      BY <1>2, <2>3 DEF EndOfFile
    <3>2. QED
      BY <2>1, <2>2, <3>1 DEF shared, TypeOK
  <2>4. CASE callers # <<>>
    <3> DEFINE c == callers[Len(callers)]
    <3>1. /\ file' = c.file /\ pos' = c.pos /\ conds' = c.conds
          /\ pending' = c.pending
          /\ callers' = SubSeq(callers, 1, Len(callers) - 1)
          /\ UNCHANGED outcome
      BY <1>2, <2>4 DEF EndOfFile
    <3>2. c \in Invocation
      BY <2>4 DEF TypeOK
    <3>3. callers' \in Seq(Invocation)
      BY <2>4, <3>1 DEF TypeOK
    <3>4. c.pos \in 1..(Len(source[c.file]) + 1)
      BY <2>4 DEF TypeOK
    <3>5. ASSUME NEW k \in 1..Len(callers')
          PROVE  callers'[k].pos \in 1..(Len(source'[callers'[k].file]) + 1)
      <4>1. callers \in Seq(Invocation)
        BY DEF TypeOK
      <4>2. k \in 1..Len(callers) /\ callers'[k] = callers[k]
        BY <2>4, <3>1, <4>1
      <4>3. QED
        BY <2>1, <4>2 DEF TypeOK
    <3> HIDE DEF c
    <3>6. QED
      BY <2>1, <2>2, <3>1, <3>2, <3>3, <3>4, <3>5
         DEF shared, Invocation, TypeOK
  <2>5. QED
    BY <2>3, <2>4
<1>3. QED
  BY <1>1, <1>2

LEMMA StepsType == TypeOK /\ [Next]_vars => TypeOK'
<1>1. TypeOK /\ Next => TypeOK'
  BY SimpleStepsType, SectionStepsType, TableStepsType, IncludeType,
     EndOfFileType DEF Next
<1>2. TypeOK /\ UNCHANGED vars => TypeOK'
  BY DEF vars, shared, TypeOK
<1>3. QED
  BY <1>1, <1>2

(* TypeCorrect: every reachable state satisfies TypeOK.                    *)
THEOREM TypeCorrect == Spec => []TypeOK
<1>1. Init => TypeOK
  BY ProgramsAssumption, DirsAssumption, NamesAssumption DEF Init, TypeOK
<1>2. QED
  BY <1>1, StepsType, PTL DEF Spec

-----------------------------------------------------------------------------
(* The inductive invariant. *)
Inv == TypeOK /\ SectionsNest /\ NothingWaitsAcrossFiles

(* A step that leaves the sections and the callers alone keeps them nested,*)
(* and so does one of the directives on sections.                          *)
LEMMA SectionsStay ==
  ASSUME Inv, UNCHANGED <<conds, callers>>
  PROVE  SectionsNest'
BY DEF Inv, SectionsNest, Nested

LEMMA SectionStepsNest ==
  ASSUME Inv, OpenConditional \/ Elif \/ Else \/ Endif, ~Fail
  PROVE  Nested(conds')
<1> USE DEF Inv
<1>1. conds \in Seq(Conditional) /\ Nested(conds)
  BY DEF TypeOK, SectionsNest
<1>2. CASE OpenConditional
  <2> DEFINE c == Opened(Active /\ Selected)
  <2>1. conds' = Append(conds, c)
    BY <1>2 DEF OpenConditional
  <2>2. c \in Conditional
    BY NewSectionType
  <2>3. /\ c.parentActive <=> IF conds = <<>> THEN TRUE
                              ELSE conds[Len(conds)].active
        /\ c.active => c.parentActive /\ c.taken
        /\ c.seenElse => c.taken
    BY DEF Opened, Active, Top
  <2> HIDE DEF c
  <2>4. QED
    BY <1>1, <2>1, <2>2, <2>3, PushNested
<1>3. CASE Elif
  <2> DEFINE c == Continued(Wanted /\ Selected)
  <2>1. conds # <<>> /\ conds' = [conds EXCEPT ![Len(conds)] = c]
    BY <1>3 DEF Elif
  <2>2. c \in Conditional /\ Top \in Conditional
    BY <2>1, NewSectionType DEF Top, TypeOK
  <2>3. Len(conds) \in 1..Len(conds) /\ (Top.seenElse => Top.taken)
    BY <1>1, <2>1 DEF Nested, Top
  <2>4. /\ c.parentActive = conds[Len(conds)].parentActive
        /\ c.active => c.parentActive /\ c.taken
        /\ c.seenElse => c.taken
    BY <2>2, <2>3 DEF Continued, Wanted, Conditional, Top
  <2> HIDE DEF c
  <2>5. QED
    BY <1>1, <2>1, <2>2, <2>4, ReplaceNested
<1>4. CASE Else
  <2>1. conds # <<>> /\ conds' = [conds EXCEPT ![Len(conds)] = Otherwise]
    BY <1>4 DEF Else
  <2>2. Otherwise \in Conditional /\ Top \in Conditional
    BY <2>1, NewSectionType DEF Top, TypeOK
  <2>3. /\ Otherwise.parentActive = conds[Len(conds)].parentActive
        /\ Otherwise.active => Otherwise.parentActive /\ Otherwise.taken
        /\ Otherwise.seenElse => Otherwise.taken
    BY <2>2 DEF Otherwise, Wanted, Conditional, Top
  <2>4. QED
    BY <1>1, <2>1, <2>2, <2>3, ReplaceNested
<1>5. CASE Endif
  <2>1. conds # <<>> /\ conds' = SubSeq(conds, 1, Len(conds) - 1)
    BY <1>5 DEF Endif
  <2>2. QED
    BY <1>1, <2>1, PopNested
<1>6. QED
  BY <1>2, <1>3, <1>4, <1>5

(* Every step keeps the inductive invariant's second and third parts.      *)
LEMMA StepsNest ==
  ASSUME Inv, Next
  PROVE  SectionsNest' /\ NothingWaitsAcrossFiles'
<1> USE DEF Inv
<1>1. CASE Fail
  <2>1. UNCHANGED <<conds, callers, pending>>
    BY <1>1 DEF Fail
  <2>2. QED
    BY <2>1, SectionsStay DEF NothingWaitsAcrossFiles, Active, Top
<1>2. CASE ReadText
  <2>1. UNCHANGED <<conds, callers>> /\ (~Active => pending' = pending)
    BY <1>2 DEF ReadText, Proceed
  <2>2. QED
    BY <2>1, SectionsStay DEF NothingWaitsAcrossFiles, Active, Top
<1>3. CASE Run
  <2>1. UNCHANGED <<conds, callers, pending>>
    BY <1>3 DEF Run
  <2>2. QED
    BY <2>1, SectionsStay DEF NothingWaitsAcrossFiles, Active, Top
<1>4. CASE /\ ~Fail
           /\ NullDirective \/ SkipDirective \/ Define \/ Undef \/ PragmaOnce
  <2>1. UNCHANGED <<conds, callers>> /\ pending' = <<>>
    BY <1>4 DEF NullDirective, SkipDirective, Define, Undef, PragmaOnce,
                Proceed, Flush
  <2>2. QED
    BY <2>1, SectionsStay DEF NothingWaitsAcrossFiles
<1>5. CASE /\ ~Fail
           /\ OpenConditional \/ Elif \/ Else \/ Endif
  <2>1. UNCHANGED callers /\ pending' = <<>>
    BY <1>5 DEF OpenConditional, Elif, Else, Endif, Proceed, Flush
  <2>2. Nested(conds')
    BY <1>5, SectionStepsNest
  <2>3. QED
    BY <2>1, <2>2 DEF SectionsNest, NothingWaitsAcrossFiles, Nested
<1>6. CASE ~Fail /\ Include
  <2>1. pending' = <<>> /\ Active
    BY <1>6 DEF Include, Flush
  <2>2. CASE UNCHANGED <<conds, callers>>
    BY <2>1, <2>2, SectionsStay DEF NothingWaitsAcrossFiles
  <2>3. CASE ~UNCHANGED <<conds, callers>>
    <3> DEFINE c == [file |-> file, pos |-> pos + 1, conds |-> conds,
                     pending |-> <<>>]
    <3>1. callers' = Append(callers, c) /\ conds' = <<>>
      BY <1>6, <2>3 DEF Include, Proceed
    <3>2. ASSUME NEW k \in 1..Len(callers')
          PROVE  \/ callers'[k] = c
                 \/ k \in 1..Len(callers) /\ callers'[k] = callers[k]
      BY <3>1 DEF TypeOK
    <3>3. /\ Nested(c.conds) /\ c.pending = <<>>
          /\ c.conds = <<>> \/ c.conds[Len(c.conds)].active
      BY <2>1 DEF SectionsNest, Active, Top
    <3>4. Nested(conds')
      BY <3>1 DEF Nested
    <3> HIDE DEF c
    <3>5. QED
      BY <2>1, <3>2, <3>3, <3>4 DEF SectionsNest, NothingWaitsAcrossFiles
  <2>4. QED
    BY <2>2, <2>3
<1>7. CASE ~Fail /\ EndOfFile
  <2>1. CASE callers = <<>>
    <3>1. UNCHANGED <<conds, callers>> /\ pending' = <<>>
      BY <1>7, <2>1 DEF EndOfFile
    <3>2. QED
      BY <3>1, SectionsStay DEF NothingWaitsAcrossFiles
  <2>2. CASE callers # <<>>
    <3>1. /\ conds' = callers[Len(callers)].conds
          /\ pending' = callers[Len(callers)].pending
          /\ callers' = SubSeq(callers, 1, Len(callers) - 1)
      BY <1>7, <2>2 DEF EndOfFile
    <3>2. /\ Len(callers) \in 1..Len(callers)
          /\ \A k \in 1..Len(callers') :
               k \in 1..Len(callers) /\ callers'[k] = callers[k]
      BY <2>2, <3>1 DEF TypeOK
    <3>3. QED
      BY <3>1, <3>2 DEF SectionsNest, NothingWaitsAcrossFiles
  <2>3. QED
    BY <2>1, <2>2
<1>8. QED
  BY <1>1, <1>2, <1>3, <1>4, <1>5, <1>6, <1>7
     DEF Next, FlushFails, ErrorDirective

LEMMA Invariance == Spec => []Inv
<1>1. Init => Inv
  BY ProgramsAssumption, DirsAssumption, NamesAssumption
     DEF Init, Inv, TypeOK, SectionsNest, Nested, NothingWaitsAcrossFiles
<1>2. Inv /\ [Next]_vars => Inv'
  <2>1. Inv /\ Next => SectionsNest' /\ NothingWaitsAcrossFiles'
    BY StepsNest
  <2>2. Inv /\ UNCHANGED vars => SectionsNest' /\ NothingWaitsAcrossFiles'
    BY DEF vars, Inv, SectionsNest, Nested, NothingWaitsAcrossFiles, Active, Top
  <2>3. QED
    BY <2>1, <2>2, StepsType DEF Inv
<1>3. QED
  BY <1>1, <1>2, PTL DEF Spec

(* NestingIsKept: whatever the text and however deep it nests, what a      *)
(* section recorded of its surroundings when it was opened stays true.     *)
THEOREM NestingIsKept == Spec => []SectionsNest
BY Invariance, PTL DEF Inv

(* NothingIsLeftWaiting: no text waits in a skipped group or across an     *)
(* #include.                                                               *)
THEOREM NothingIsLeftWaiting == Spec => []NothingWaitsAcrossFiles
BY Invariance, PTL DEF Inv

(* A step inside a skipped group changes nothing outside the sections.     *)
LEMMA SkippedStep ==
  ASSUME Inv, Skipped, Next
  PROVE  \/ outcome' = "failed"
         \/ UNCHANGED <<shared, output, pending, callers, file>>
<1> USE DEF Inv
<1>1. ~Active /\ pending = <<>> /\ AtLine
  BY InnermostDecides
     DEF Skipped, SectionsNest, NothingWaitsAcrossFiles
<1>2. ASSUME Flush
      PROVE  UNCHANGED <<output, pending>>
  BY <1>1, <1>2, ExpansionOfNothing DEF Flush
<1>3. CASE Fail
  BY <1>3 DEF Fail
<1>4. CASE ReadText
  BY <1>1, <1>4 DEF ReadText, Proceed
<1>5. CASE ~Fail /\ (NullDirective \/ SkipDirective)
  BY <1>2, <1>5 DEF NullDirective, SkipDirective, Proceed
<1>6. CASE ~Fail /\ (OpenConditional \/ Elif \/ Else \/ Endif)
  BY <1>2, <1>6 DEF OpenConditional, Elif, Else, Endif, Proceed
<1>7. CASE Define \/ Undef \/ PragmaOnce \/ ErrorDirective \/ Include
  BY <1>1, <1>7 DEF Define, Undef, PragmaOnce, ErrorDirective, Include
<1>8. CASE Run
  BY <1>1, <1>8 DEF Run, AtLine
<1>9. CASE ~Fail /\ EndOfFile
  <2>1. pos <= Len(source[file]) /\ pos > Len(source[file])
    BY <1>1, <1>9 DEF EndOfFile, AtLine, AtEnd
  <2>2. QED
    BY <2>1 DEF TypeOK
<1>10. QED
  BY <1>3, <1>4, <1>5, <1>6, <1>7, <1>8, <1>9
     DEF Next, FlushFails

(* SkippedGroupsStayInert: in a group that was not selected, at any depth  *)
(* of nesting, no directive has an effect and no text comes out.           *)
THEOREM SkippedGroupsStayInert == Spec => SkippedGroupsAreInert
<1>1. Inv /\ [Next]_vars =>
        [Skipped => \/ outcome' = "failed"
                    \/ UNCHANGED <<shared, output, pending, callers, file>>]_vars
  BY SkippedStep
<1>2. QED
  BY <1>1, Invariance, PTL DEF Spec, SkippedGroupsAreInert

-----------------------------------------------------------------------------
(***************************************************************************)
(* Text of a file that starts with #pragma once.  Such a file is Unread    *)
(* until its first line is executed, which nothing can come between; from  *)
(* then on ReadBefore answers for it, so that one invocation reads it, and *)
(* the lines of its text that went out are all behind that invocation.     *)
(* What waits to be expanded belongs to the text that was read.            *)
(***************************************************************************)
Written == output \o pending
From(f) == {i \in 1..Len(Written) : Written[i].file = f}
CallersOf(f) == {k \in 1..Len(callers) : callers[k].file = f}

Entered ==
  /\ once \subseteq visited
  /\ IF outcome = "idle" THEN once = {} /\ callers = <<>> /\ file = Main
                         ELSE file \in visited
  /\ \A k \in 1..Len(callers) : callers[k].file \in visited

Unread(f) ==
  /\ From(f) = {}
  /\ CallersOf(f) = {}
  /\ file = f => pos = 1 /\ conds = <<>>

ReadingOnce(f) ==
  /\ file = f => /\ CallersOf(f) = {}
                 /\ \A i \in From(f) : Written[i].line < pos
  /\ \A k \in CallersOf(f) :
       /\ CallersOf(f) = {k}
       /\ \A i \in From(f) : Written[i].line < callers[k].pos
  /\ \A i, j \in From(f) : Written[i].line = Written[j].line => i = j

OnceInv ==
  /\ Entered
  /\ \A f \in File : StartsWithOnce(f) =>
       IF f \in once THEN ReadingOnce(f) ELSE Unread(f)

(* Two texts that were read at the same places.                            *)
SamePlaces(s, t) ==
  /\ Len(t) = Len(s)
  /\ \A i \in 1..Len(s) : t[i].file = s[i].file /\ t[i].line = s[i].line

LEMMA WrittenParts ==
  ASSUME NEW o \in Seq(OutToken), NEW p \in Seq(PPToken)
  PROVE  /\ Len(o) \in Nat /\ Len(p) \in Nat /\ Len(o \o p) = Len(o) + Len(p)
         /\ \A i \in 1..(Len(o) + Len(p)) :
              (o \o p)[i] = IF i <= Len(o) THEN o[i] ELSE p[i - Len(o)]
         /\ \A i \in 1..(Len(o) + Len(p)) :
              (o \o p)[i].file \in File /\ (o \o p)[i].line \in Nat
<1>1. /\ Len(o) \in Nat /\ Len(p) \in Nat /\ Len(o \o p) = Len(o) + Len(p)
      /\ \A i \in 1..(Len(o) + Len(p)) :
           (o \o p)[i] = IF i <= Len(o) THEN o[i] ELSE p[i - Len(o)]
  OBVIOUS
<1>2. ASSUME NEW i \in 1..(Len(o) + Len(p))
      PROVE  (o \o p)[i].file \in File /\ (o \o p)[i].line \in Nat
  <2>1. CASE i <= Len(o)
    <3>1. i \in 1..Len(o) /\ (o \o p)[i] = o[i]
      BY <1>1, <2>1
    <3>2. o[i] \in OutToken
      BY <3>1
    <3> QED BY <3>1, <3>2 DEF OutToken
  <2>2. CASE ~(i <= Len(o))
    <3>1. i - Len(o) \in 1..Len(p) /\ (o \o p)[i] = p[i - Len(o)]
      BY <1>1, <2>2
    <3>2. p[i - Len(o)] \in PPToken
      BY <3>1
    <3> QED BY <3>1, <3>2 DEF PPToken
  <2> QED BY <2>1, <2>2
<1> QED BY <1>1, <1>2

(* Expansion changes what a token stands for, not where it was read.       *)
LEMMA ExpansionPlaces ==
  ASSUME TypeOK, output' = output \o Expansion, pending' = <<>>
  PROVE  SamePlaces(Written, Written')
<1>1. output \in Seq(OutToken) /\ pending \in Seq(PPToken) /\ Expansion \in Seq(OutToken)
  BY ExpansionType DEF TypeOK
<1>2. /\ Len(output) \in Nat /\ Len(pending) \in Nat
      /\ Len(Written) = Len(output) + Len(pending)
      /\ \A i \in 1..(Len(output) + Len(pending)) :
           Written[i] = IF i <= Len(output) THEN output[i]
                        ELSE pending[i - Len(output)]
  BY <1>1, WrittenParts DEF Written
<1>3. /\ Len(Expansion) = Len(pending)
      /\ \A i \in 1..Len(pending) : /\ Expansion[i].file = pending[i].file
                                    /\ Expansion[i].line = pending[i].line
  BY <1>2 DEF Expansion
<1>4. Written' = output \o Expansion
  BY <1>1 DEF Written
<1> DEFINE e == Expansion
<1>5. /\ Len(output \o e) = Len(output) + Len(e)
      /\ \A i \in 1..(Len(output) + Len(e)) :
           (output \o e)[i] = IF i <= Len(output) THEN output[i] ELSE e[i - Len(output)]
  <2> HIDE DEF e
  <2>1. e \in Seq(OutToken)
    BY <1>1 DEF e
  <2> QED BY <1>1, <2>1
<1>6. ASSUME NEW i \in 1..Len(Written)
      PROVE  Written'[i].file = Written[i].file /\ Written'[i].line = Written[i].line
  <2>1. CASE i <= Len(output)
    BY <1>2, <1>3, <1>4, <1>5, <2>1
  <2>2. CASE ~(i <= Len(output))
    <3>1. i - Len(output) \in 1..Len(pending)
      BY <1>2, <2>2
    <3>2. Written[i] = pending[i - Len(output)] /\ Written'[i] = e[i - Len(output)]
      BY <1>2, <1>3, <1>4, <1>5, <2>2
    <3> QED BY <1>3, <3>1, <3>2
  <2> QED BY <2>1, <2>2
<1>7. Len(Written') = Len(Written)
  BY <1>2, <1>3, <1>4, <1>5
<1> QED BY <1>6, <1>7 DEF SamePlaces

(* An error takes the output back and leaves the rest.                     *)
LEMMA FailKeepsOnce ==
  ASSUME Inv, OnceInv, Fail, outcome # "idle"
  PROVE  OnceInv'
<1>1. /\ output' = <<>>
      /\ UNCHANGED <<source, once, visited, file, pos, conds, pending, callers>>
  BY DEF Fail, shared
<1>2. output \in Seq(OutToken) /\ pending \in Seq(PPToken)
  BY DEF Inv, TypeOK
<1>3. /\ Len(output) \in Nat /\ Len(pending) \in Nat
      /\ Len(Written) = Len(output) + Len(pending)
      /\ \A i \in 1..(Len(output) + Len(pending)) :
           Written[i] = IF i <= Len(output) THEN output[i]
                        ELSE pending[i - Len(output)]
  BY <1>2, WrittenParts DEF Written
<1>4. Written' = pending
  BY <1>1, <1>2 DEF Written
<1>5. ASSUME NEW i \in 1..Len(Written')
      PROVE  Len(output) + i \in 1..Len(Written) /\ Written'[i] = Written[Len(output) + i]
  BY <1>3, <1>4
<1>6. ASSUME NEW f, NEW i \in From(f)'
      PROVE  Len(output) + i \in From(f) /\ Written'[i] = Written[Len(output) + i] /\ i \in Nat
  BY <1>3, <1>4, <1>5, <1>6 DEF From
<1>7. \A f : CallersOf(f)' = CallersOf(f)
  BY <1>1 DEF CallersOf
<1>8. ASSUME NEW f \in File, StartsWithOnce(f)'
      PROVE  IF f \in once' THEN ReadingOnce(f)' ELSE Unread(f)'
  <2>1. IF f \in once THEN ReadingOnce(f) ELSE Unread(f)
    BY <1>1, <1>8 DEF StartsWithOnce, OnceInv
  <2>2. CASE f \in once
    <3>1. ReadingOnce(f)
      BY <2>1, <2>2
    <3>2. ASSUME NEW i \in From(f)', NEW j \in From(f)', Written'[i].line = Written'[j].line
          PROVE  i = j
      <4>1. Len(output) + i = Len(output) + j
        BY <1>6, <3>1, <3>2 DEF ReadingOnce
      <4> QED BY <1>3, <1>6, <4>1
    <3>3. file' = f => /\ CallersOf(f)' = {}
                       /\ \A i \in From(f)' : Written'[i].line < pos'
      BY <1>1, <1>6, <1>7, <3>1 DEF ReadingOnce
    <3>4. \A k \in CallersOf(f)' :
            /\ CallersOf(f)' = {k}
            /\ \A i \in From(f)' : Written'[i].line < callers'[k].pos
      BY <1>1, <1>6, <1>7, <3>1 DEF ReadingOnce
    <3>5. ReadingOnce(f)'
      BY <3>2, <3>3, <3>4 DEF ReadingOnce
    <3> QED BY <1>1, <2>2, <3>5
  <2>3. CASE f \notin once
    <3>1. Unread(f)
      BY <2>1, <2>3
    <3>2. From(f)' = {}
      BY <1>6, <3>1 DEF Unread
    <3>3. Unread(f)'
      BY <1>1, <1>7, <3>1, <3>2 DEF Unread
    <3> QED BY <1>1, <2>3, <3>3
  <2> QED BY <2>2, <2>3
<1>9. Entered'
  BY <1>1 DEF OnceInv, Entered, Fail
<1> QED BY <1>8, <1>9 DEF OnceInv

(* Behind the first line of a file that starts with #pragma once it is     *)
(* known as such: that line is executed before any other.                  *)
LEMMA BehindFirstLine ==
  ASSUME Inv, OnceInv, AtLine, StartsWithOnce(file),
         ~(Current.kind = "once" /\ Active)
  PROVE  file \in once
<1>1. SUFFICES ASSUME file \notin once PROVE FALSE
  OBVIOUS
<1>2. file \in File
  BY DEF Inv, TypeOK
<1>3. pos = 1 /\ conds = <<>>
  BY <1>1, <1>2 DEF OnceInv, Unread
<1> QED BY <1>3 DEF StartsWithOnce, Current, Active

LEMMA AtEndIsBehind ==
  ASSUME Inv, OnceInv, AtEnd, StartsWithOnce(file)
  PROVE  file \in once
<1>1. SUFFICES ASSUME file \notin once PROVE FALSE
  OBVIOUS
<1>2. file \in File /\ source[file] \in Seq(Line)
  BY DEF Inv, TypeOK
<1>3. pos = 1
  BY <1>1, <1>2 DEF OnceInv, Unread
<1>4. Len(source[file]) \in Nat /\ Len(source[file]) # 0
  BY <1>2 DEF StartsWithOnce
<1>5. pos > Len(source[file])
  BY DEF AtEnd
<1> QED BY <1>3, <1>4, <1>5

(* Text that was read at the same places comes from the same lines.        *)
LEMMA FromSamePlaces ==
  ASSUME SamePlaces(Written, Written'), NEW f
  PROVE  /\ From(f)' = From(f)
         /\ \A i \in From(f) : Written'[i].line = Written[i].line
BY DEF SamePlaces, From

(* A step of the invocation that reads, which adds no text.                *)
LEMMA MoveKeepsOnce ==
  ASSUME Inv, TypeOK', OnceInv, SamePlaces(Written, Written'),
         UNCHANGED <<source, once, visited, file, callers>>,
         file \in visited, outcome' # "idle", pos' >= pos,
         StartsWithOnce(file) => file \in once
  PROVE  OnceInv'
<1>1. pos \in Nat /\ pos' \in Nat
  BY DEF Inv, TypeOK
<1>2. \A f : CallersOf(f)' = CallersOf(f)
  BY DEF CallersOf
<1>3. \A f : /\ From(f)' = From(f)
             /\ \A i \in From(f) : Written'[i].line = Written[i].line
  BY FromSamePlaces
<1>4. \A f : \A i \in From(f) : Written[i].line \in Nat
  BY WrittenParts DEF Inv, TypeOK, Written, From
<1>5. ASSUME NEW f \in File, StartsWithOnce(f)'
      PROVE  IF f \in once' THEN ReadingOnce(f)' ELSE Unread(f)'
  <2>1. StartsWithOnce(f)
    BY <1>5 DEF StartsWithOnce
  <2>2. CASE f \in once
    <3>1. ReadingOnce(f)
      BY <2>1, <2>2 DEF OnceInv
    <3>2. file' = f => /\ CallersOf(f)' = {}
                       /\ \A i \in From(f)' : Written'[i].line < pos'
      <4>1. ASSUME file = f, NEW i \in From(f) PROVE Written[i].line < pos'
        <5>1. Written[i].line < pos /\ Written[i].line \in Nat
          BY <1>4, <3>1, <4>1 DEF ReadingOnce
        <5> QED BY <1>1, <5>1
      <4> QED BY <1>2, <1>3, <3>1, <4>1 DEF ReadingOnce
    <3>3. \A k \in CallersOf(f)' :
            /\ CallersOf(f)' = {k}
            /\ \A i \in From(f)' : Written'[i].line < callers'[k].pos
      BY <1>2, <1>3, <3>1 DEF ReadingOnce
    <3>4. \A i, j \in From(f)' : Written'[i].line = Written'[j].line => i = j
      BY <1>3, <3>1 DEF ReadingOnce
    <3>5. ReadingOnce(f)'
      BY <3>2, <3>3, <3>4 DEF ReadingOnce
    <3> QED BY <2>2, <3>5
  <2>3. CASE f \notin once
    <3>1. Unread(f) /\ file # f
      BY <2>1, <2>3 DEF OnceInv
    <3>2. Unread(f)'
      BY <1>2, <1>3, <3>1 DEF Unread
    <3> QED BY <2>3, <3>2
  <2> QED BY <2>2, <2>3
<1>6. Entered'
  BY DEF OnceInv, Entered
<1> QED BY <1>5, <1>6 DEF OnceInv

(* A line of text is read behind all that its file gave before.            *)
LEMMA ReadTextKeepsOnce ==
  ASSUME Inv, TypeOK', OnceInv, ReadText
  PROVE  OnceInv'
<1>1. /\ UNCHANGED <<source, once, visited, file, callers, output, conds, outcome>>
      /\ pos' = pos + 1 /\ AtLine
  BY DEF ReadText, Proceed, shared
<1>2. pos \in Nat /\ file \in visited /\ file \in File /\ outcome' # "idle"
  BY <1>1 DEF Inv, TypeOK, OnceInv, Entered, AtLine
<1>3. StartsWithOnce(file) => file \in once
  BY <1>1, BehindFirstLine DEF ReadText
<1>4. CASE ~Active
  <2>1. Written' = Written
    BY <1>1, <1>4 DEF ReadText, Written
  <2> QED BY <1>1, <1>2, <1>3, <2>1, MoveKeepsOnce DEF SamePlaces
<1>5. CASE Active
  <2> DEFINE n == Len(output)
             m == Len(pending)
             new == [tok |-> Current.tok, file |-> file, line |-> pos]
  <2>1. pending' = Append(pending, new)
    BY <1>5 DEF ReadText
  <2>2. output \in Seq(OutToken) /\ pending \in Seq(PPToken) /\ pending' \in Seq(PPToken)
    BY DEF Inv, TypeOK
  <2>3. Len(pending') = m + 1 /\ pending'[m + 1] = new /\ \A i \in 1..m : pending'[i] = pending[i]
    BY <2>1, <2>2
  <2>4. /\ n \in Nat /\ m \in Nat /\ Len(Written) = n + m
        /\ \A i \in 1..(n + m) : /\ Written[i] = IF i <= n THEN output[i] ELSE pending[i - n]
                                 /\ Written[i].line \in Nat
    BY <2>2, WrittenParts DEF Written
  <2>5. /\ Len(output \o pending') = n + Len(pending')
        /\ \A i \in 1..(n + Len(pending')) :
             (output \o pending')[i] = IF i <= n THEN output[i] ELSE pending'[i - n]
    BY <2>2, WrittenParts
  <2>6. Written' = output \o pending'
    BY <1>1 DEF Written
  <2> HIDE DEF n, m
  <2>7. /\ Len(Written') = n + m + 1
        /\ \A i \in 1..(n + m + 1) :
             Written'[i] = IF i <= n THEN output[i] ELSE pending'[i - n]
    BY <2>3, <2>4, <2>5, <2>6
  <2>8. Written'[n + m + 1] = new
    BY <2>3, <2>4, <2>7
  <2>9. \A i \in 1..(n + m) : Written'[i] = Written[i]
    <3>1. SUFFICES ASSUME NEW i \in 1..(n + m) PROVE Written'[i] = Written[i]
      OBVIOUS
    <3>2. CASE i <= n
      BY <2>4, <2>7, <3>2
    <3>3. CASE ~(i <= n)
      <4>1. i - n \in 1..m /\ i \in 1..(n + m + 1)
        BY <2>4, <3>3
      <4> QED BY <2>3, <2>4, <2>7, <3>3, <4>1
    <3> QED BY <3>2, <3>3
  <2>10. \A f : From(f)' = IF f = file THEN From(f) \cup {n + m + 1} ELSE From(f)
    <3>1. new.file = file
      OBVIOUS
    <3>2. 1..(n + m + 1) = 1..(n + m) \cup {n + m + 1}
      BY <2>4
    <3>3. \A f : From(f)' = {i \in 1..(n + m + 1) : Written'[i].file = f}
      BY <2>7 DEF From
    <3>4. \A f : From(f) = {i \in 1..(n + m) : Written[i].file = f}
      BY <2>4 DEF From
    <3> HIDE DEF new
    <3> QED BY <1>1, <2>8, <2>9, <3>1, <3>2, <3>3, <3>4
  <2>11. \A f : CallersOf(f)' = CallersOf(f)
    BY <1>1 DEF CallersOf
  <2>12. \A f : \A i \in From(f) : i \in 1..(n + m) /\ Written'[i] = Written[i] /\ Written[i].line \in Nat
    BY <2>4, <2>9 DEF From
  <2>13. new.line = pos /\ n + m + 1 \notin 1..(n + m)
    BY <2>4
  <2> HIDE DEF new
  <2>14. ASSUME NEW f \in File, StartsWithOnce(f)'
         PROVE  IF f \in once' THEN ReadingOnce(f)' ELSE Unread(f)'
    <3>1. StartsWithOnce(f)
      BY <1>1, <2>14 DEF StartsWithOnce
    <3>2. CASE f = file
      <4>1. f \in once /\ ReadingOnce(f)
        BY <1>3, <3>1, <3>2 DEF OnceInv
      <4>2. CallersOf(f)' = {} /\ \A i \in From(f) : Written[i].line < pos
        BY <2>11, <3>2, <4>1 DEF ReadingOnce
      <4>3. \A i \in From(f)' : Written'[i].line < pos'
        <5>1. SUFFICES ASSUME NEW i \in From(f)' PROVE Written'[i].line < pos'
          OBVIOUS
        <5>2. CASE i \in From(f)
          <6>1. Written'[i].line = Written[i].line /\ Written[i].line < pos /\ Written[i].line \in Nat
            BY <2>12, <4>2, <5>2
          <6> QED BY <1>1, <1>2, <6>1
        <5>3. CASE i = n + m + 1
          BY <1>1, <1>2, <2>8, <2>13, <5>3
        <5> QED BY <2>10, <3>2, <5>2, <5>3
      <4>4. ASSUME NEW i \in From(f)', NEW j \in From(f)', Written'[i].line = Written'[j].line
            PROVE  i = j
        <5>1. \A k \in From(f) : Written'[k].line # pos
          <6>1. SUFFICES ASSUME NEW k \in From(f) PROVE Written'[k].line # pos
            OBVIOUS
          <6>2. Written'[k].line = Written[k].line /\ Written[k].line < pos /\ Written[k].line \in Nat
            BY <2>12, <4>2
          <6> QED BY <1>2, <6>2
        <5>2. CASE i \in From(f) /\ j \in From(f)
          BY <2>12, <4>1, <4>4, <5>2 DEF ReadingOnce
        <5>3. CASE i = n + m + 1 \/ j = n + m + 1
          BY <2>8, <2>10, <2>13, <3>2, <4>4, <5>1, <5>3
        <5> QED BY <2>10, <3>2, <5>2, <5>3
      <4>5. ReadingOnce(f)'
        BY <4>2, <4>3, <4>4 DEF ReadingOnce
      <4> QED BY <1>1, <4>1, <4>5
    <3>3. CASE f # file
      <4>1. From(f)' = From(f) /\ \A i \in From(f) : Written'[i].line = Written[i].line
        BY <2>10, <2>12, <3>3
      <4>2. CASE f \in once
        <5>1. ReadingOnce(f)
          BY <3>1, <4>2 DEF OnceInv
        <5>2. ReadingOnce(f)'
          BY <1>1, <2>11, <3>3, <4>1, <5>1 DEF ReadingOnce
        <5> QED BY <1>1, <4>2, <5>2
      <4>3. CASE f \notin once
        <5>1. Unread(f)
          BY <3>1, <4>3 DEF OnceInv
        <5>2. Unread(f)'
          BY <1>1, <2>11, <3>3, <4>1, <5>1 DEF Unread
        <5> QED BY <1>1, <4>3, <5>2
      <4> QED BY <4>2, <4>3
    <3> QED BY <3>2, <3>3
  <2>15. Entered'
    BY <1>1, <1>2 DEF OnceInv, Entered
  <2> QED BY <2>14, <2>15 DEF OnceInv
<1> QED BY <1>4, <1>5

(* Marking a file leaves it where it is: at a file not marked before, of   *)
(* which nothing was read, or at one that is marked again.                 *)
LEMMA PragmaOnceKeepsOnce ==
  ASSUME Inv, TypeOK', OnceInv, PragmaOnce
  PROVE  OnceInv'
<1>1. /\ AtLine /\ output' = output \o Expansion /\ pending' = <<>>
      /\ UNCHANGED <<source, visited, file, callers, conds, outcome>>
      /\ once' = once \cup {file} /\ pos' = pos + 1
  BY DEF PragmaOnce, Directive, AtDirective, Flush, Proceed
<1>2. SamePlaces(Written, Written')
  BY <1>1, ExpansionPlaces DEF Inv
<1>3. pos \in Nat /\ file \in visited /\ file \in File /\ outcome' # "idle"
  BY <1>1 DEF Inv, TypeOK, OnceInv, Entered, AtLine
<1>4. CASE file \in once
  <2>1. once' = once
    BY <1>1, <1>4
  <2> QED BY <1>1, <1>2, <1>3, <1>4, <2>1, MoveKeepsOnce
<1>5. CASE file \notin once
  <2>1. \A f : /\ From(f)' = From(f) /\ CallersOf(f)' = CallersOf(f)
               /\ \A i \in From(f) : Written'[i].line = Written[i].line
    BY <1>1, <1>2, FromSamePlaces DEF CallersOf
  <2>2. ASSUME NEW f \in File, StartsWithOnce(f)'
        PROVE  IF f \in once' THEN ReadingOnce(f)' ELSE Unread(f)'
    <3>1. StartsWithOnce(f)
      BY <1>1, <2>2 DEF StartsWithOnce
    <3>2. CASE f = file
      <4>1. Unread(f)
        BY <1>5, <3>1, <3>2 DEF OnceInv
      <4>2. From(f)' = {} /\ CallersOf(f)' = {}
        BY <2>1, <4>1 DEF Unread
      <4>3. ReadingOnce(f)'
        BY <4>2 DEF ReadingOnce
      <4> QED BY <1>1, <3>2, <4>3
    <3>3. CASE f # file /\ f \in once
      <4>1. ReadingOnce(f)
        BY <3>1, <3>3 DEF OnceInv
      <4>2. ReadingOnce(f)'
        BY <1>1, <2>1, <3>3, <4>1 DEF ReadingOnce
      <4> QED BY <1>1, <3>3, <4>2
    <3>4. CASE f # file /\ f \notin once
      <4>1. Unread(f)
        BY <3>1, <3>4 DEF OnceInv
      <4>2. Unread(f)'
        BY <1>1, <2>1, <3>4, <4>1 DEF Unread
      <4> QED BY <1>1, <3>4, <4>2
    <3> QED BY <3>2, <3>3, <3>4
  <2>3. Entered'
    BY <1>1, <1>3 DEF OnceInv, Entered
  <2> QED BY <2>2, <2>3 DEF OnceInv
<1> QED BY <1>4, <1>5

(* A file that is entered was not marked, so nothing of it was read yet;   *)
(* its includer goes on behind the #include.                               *)
LEMMA EnterKeepsOnce ==
  ASSUME Inv, OnceInv, AtLine, NEW t \in File, t \notin once,
         StartsWithOnce(file) => file \in once,
         SamePlaces(Written, Written'),
         callers' = Append(callers, [file |-> file, pos |-> pos + 1,
                                     conds |-> conds, pending |-> <<>>]),
         file' = t, pos' = 1, conds' = <<>>, visited' = visited \cup {t},
         UNCHANGED <<source, once, outcome>>
  PROVE  OnceInv'
<1> DEFINE c == [file |-> file, pos |-> pos + 1, conds |-> conds, pending |-> <<>>]
           n == Len(callers)
<1>1. callers \in Seq(Invocation) /\ pos \in Nat /\ file \in File
  BY DEF Inv, TypeOK
<1>2. /\ n \in Nat /\ Len(callers') = n + 1 /\ callers'[n + 1] = c
      /\ \A k \in 1..n : callers'[k] = callers[k]
  BY <1>1
<1>3. \A f : /\ From(f)' = From(f)
             /\ \A i \in From(f) : Written'[i].line = Written[i].line
  BY FromSamePlaces
<1>4. c.file = file /\ c.pos = pos + 1
  OBVIOUS
<1> HIDE DEF c, n
<1>5. \A f : /\ CallersOf(f)' = IF f = file THEN CallersOf(f) \cup {n + 1} ELSE CallersOf(f)
             /\ \A k \in CallersOf(f) : callers'[k] = callers[k]
  <2>1. 1..(n + 1) = 1..n \cup {n + 1} /\ n + 1 \notin 1..n
    BY <1>2
  <2>2. \A f : /\ CallersOf(f) = {k \in 1..n : callers[k].file = f}
               /\ CallersOf(f)' = {k \in 1..(n + 1) : callers'[k].file = f}
    BY <1>2 DEF CallersOf, n
  <2> QED BY <1>2, <1>4, <2>1, <2>2
<1>6. \A f : \A i \in From(f) : Written[i].line \in Nat
  BY WrittenParts DEF Inv, TypeOK, Written, From
<1>7. ASSUME NEW f \in File, StartsWithOnce(f)'
      PROVE  IF f \in once' THEN ReadingOnce(f)' ELSE Unread(f)'
  <2>1. StartsWithOnce(f)
    BY <1>7 DEF StartsWithOnce
  <2>2. CASE f = file
    <3>1. f \in once /\ f # t /\ ReadingOnce(f)
      BY <2>1, <2>2 DEF OnceInv
    <3>2. CallersOf(f)' = {n + 1}
      BY <1>5, <2>2, <3>1 DEF ReadingOnce
    <3>3. \A i \in From(f) : Written[i].line < pos + 1
      <4>1. SUFFICES ASSUME NEW i \in From(f) PROVE Written[i].line < pos + 1
        OBVIOUS
      <4>2. Written[i].line < pos /\ Written[i].line \in Nat
        BY <1>6, <2>2, <3>1 DEF ReadingOnce
      <4> QED BY <1>1, <4>2
    <3>4. ReadingOnce(f)'
      BY <1>2, <1>3, <1>4, <3>1, <3>2, <3>3 DEF ReadingOnce
    <3> QED BY <3>1, <3>4
  <2>3. CASE f # file /\ f \in once
    <3>1. f # t /\ ReadingOnce(f)
      BY <2>1, <2>3 DEF OnceInv
    <3>2. /\ CallersOf(f)' = CallersOf(f) /\ From(f)' = From(f)
          /\ \A k \in CallersOf(f) : callers'[k] = callers[k]
          /\ \A i \in From(f) : Written'[i].line = Written[i].line
      BY <1>3, <1>5, <2>3
    <3>3. file' # f
      BY <3>1
    <3>4. ReadingOnce(f)'
      <4>1. \A k \in CallersOf(f)' :
              /\ CallersOf(f)' = {k}
              /\ \A i \in From(f)' : Written'[i].line < callers'[k].pos
        BY <3>1, <3>2 DEF ReadingOnce
      <4>2. \A i, j \in From(f)' : Written'[i].line = Written'[j].line => i = j
        BY <3>1, <3>2 DEF ReadingOnce
      <4> QED BY <3>3, <4>1, <4>2 DEF ReadingOnce
    <3> QED BY <2>3, <3>4
  <2>4. CASE f # file /\ f \notin once
    <3>1. Unread(f)
      BY <2>1, <2>4 DEF OnceInv
    <3>2. Unread(f)'
      BY <1>3, <1>5, <2>4, <3>1 DEF Unread
    <3> QED BY <2>4, <3>2
  <2> QED BY <2>2, <2>3, <2>4
<1>8. Entered'
  <2>1. file \in visited /\ outcome # "idle"
    BY DEF OnceInv, Entered, AtLine
  <2>2. ASSUME NEW k \in 1..Len(callers') PROVE callers'[k].file \in visited'
    <3>1. CASE k = n + 1
      BY <1>2, <1>4, <2>1, <3>1
    <3>2. CASE k # n + 1
      <4>1. k \in 1..n
        BY <1>2, <3>2
      <4> QED BY <1>2, <4>1 DEF OnceInv, Entered, n
    <3> QED BY <3>1, <3>2
  <2> QED BY <2>1, <2>2 DEF OnceInv, Entered
<1> QED BY <1>7, <1>8 DEF OnceInv

LEMMA IncludeKeepsOnce ==
  ASSUME Inv, TypeOK', OnceInv, Include, ~Fail
  PROVE  OnceInv'
<1> DEFINE t == Target.file
<1>1. /\ AtLine /\ output' = output \o Expansion /\ pending' = <<>>
      /\ UNCHANGED <<source, once, outcome>> /\ Hits # {}
      /\ Current.kind = "include"
  BY DEF Include, Directive, AtDirective, Flush, Proceed
<1>2. SamePlaces(Written, Written')
  BY <1>1, ExpansionPlaces DEF Inv
<1>3. StartsWithOnce(file) => file \in once
  BY <1>1, BehindFirstLine
<1>4. t \in File
  BY <1>1, TargetType DEF Found, Inv
<1>5. CASE ReadBefore(t)
  <2>1. pos' = pos + 1 /\ UNCHANGED <<visited, file, callers>>
    BY <1>5 DEF Include, Proceed
  <2>2. pos \in Nat /\ file \in visited /\ outcome' # "idle"
    BY <1>1 DEF Inv, TypeOK, OnceInv, Entered, AtLine
  <2> QED BY <1>1, <1>2, <1>3, <2>1, <2>2, MoveKeepsOnce
<1>6. CASE ~ReadBefore(t)
  <2>1. t \notin once
    BY <1>6 DEF ReadBefore, OnceInv, Entered
  <2>2. /\ callers' = Append(callers, [file |-> file, pos |-> pos + 1,
                                       conds |-> conds, pending |-> <<>>])
        /\ file' = t /\ pos' = 1 /\ conds' = <<>> /\ visited' = visited \cup {t}
    BY <1>6 DEF Include
  <2> HIDE DEF t
  <2> QED BY <1>1, <1>2, <1>3, <1>4, <2>1, <2>2, EnterKeepsOnce
<1> QED BY <1>5, <1>6

LEMMA ButLast ==
  ASSUME NEW S, NEW s \in Seq(S), s # <<>>
  PROVE  /\ Len(s) \in Nat \ {0} /\ s[Len(s)] \in S
         /\ Len(SubSeq(s, 1, Len(s) - 1)) = Len(s) - 1
         /\ \A k \in 1..(Len(s) - 1) : SubSeq(s, 1, Len(s) - 1)[k] = s[k]
<1> DEFINE n == Len(s) - 1
<1>1. Len(s) \in Nat /\ Len(s) # 0 /\ n \in Nat
  OBVIOUS
<1>2. s[Len(s)] \in S /\ \A k \in 1..n : s[k] \in S
  BY <1>1
<1> HIDE DEF n
<1>3. /\ Len(SubSeq(s, 1, n)) = IF 1 <= n THEN n - 1 + 1 ELSE 0
      /\ \A k \in 1..(n - 1 + 1) : SubSeq(s, 1, n)[k] = s[1 + k - 1]
  BY <1>1, <1>2, SubSeqProperties, 1 \in Int, n \in Int
<1>4. Len(SubSeq(s, 1, n)) = n /\ \A k \in 1..n : SubSeq(s, 1, n)[k] = s[k]
  BY <1>1, <1>3
<1> QED BY <1>1, <1>2, <1>4 DEF n

(* At the end of a file its includer goes on behind the text it gave.      *)
LEMMA LeaveKeepsOnce ==
  ASSUME Inv, OnceInv, AtEnd, callers # <<>>,
         SamePlaces(Written, Written'),
         file' = callers[Len(callers)].file, pos' = callers[Len(callers)].pos,
         callers' = SubSeq(callers, 1, Len(callers) - 1),
         UNCHANGED <<source, once, visited, outcome>>
  PROVE  OnceInv'
<1> DEFINE n == Len(callers)
           c == callers[n]
<1>1. callers \in Seq(Invocation) /\ file \in File
  BY DEF Inv, TypeOK
<1>2. /\ n \in Nat \ {0} /\ Len(callers') = n - 1 /\ c \in Invocation
      /\ \A k \in 1..(n - 1) : callers'[k] = callers[k]
  BY <1>1, ButLast
<1>3. \A f : /\ From(f)' = From(f)
             /\ \A i \in From(f) : Written'[i].line = Written[i].line
  BY FromSamePlaces
<1>4. file' = c.file /\ pos' = c.pos
  OBVIOUS
<1>5. c = callers[n]
  OBVIOUS
<1> HIDE DEF c
<1>6. \A f : /\ CallersOf(f) = {k \in 1..n : callers[k].file = f}
             /\ CallersOf(f)' = {k \in 1..(n - 1) : callers'[k].file = f}
  BY <1>2 DEF CallersOf
<1> HIDE DEF n
<1>7. \A f : /\ CallersOf(f)' = CallersOf(f) \ {n}
             /\ \A k \in CallersOf(f)' : callers'[k] = callers[k]
             /\ n \in CallersOf(f) <=> f = c.file
  <2>1. 1..(n - 1) = 1..n \ {n} /\ n \in 1..n
    BY <1>2
  <2> QED BY <1>2, <1>5, <1>6, <2>1
<1>8. ASSUME NEW f \in File, StartsWithOnce(f)'
      PROVE  IF f \in once' THEN ReadingOnce(f)' ELSE Unread(f)'
  <2>1. StartsWithOnce(f)
    BY <1>8 DEF StartsWithOnce
  <2>2. CASE f \in once
    <3>1. ReadingOnce(f)
      BY <2>1, <2>2 DEF OnceInv
    <3>2. file' = f => /\ CallersOf(f)' = {}
                       /\ \A i \in From(f)' : Written'[i].line < pos'
      <4>1. SUFFICES ASSUME f = c.file
                     PROVE  /\ CallersOf(f)' = {}
                            /\ \A i \in From(f)' : Written'[i].line < pos'
        BY <1>4
      <4>2. n \in CallersOf(f)
        BY <1>7, <4>1
      <4>3. CallersOf(f) = {n} /\ \A i \in From(f) : Written[i].line < c.pos
        BY <1>5, <3>1, <4>2 DEF ReadingOnce
      <4>4. CallersOf(f)' = {}
        BY <1>7, <4>3
      <4>5. /\ From(f)' = From(f)
            /\ \A i \in From(f) : Written'[i].line = Written[i].line
        BY <1>3
      <4> QED BY <1>4, <4>3, <4>4, <4>5
    <3>3. \A k \in CallersOf(f)' :
            /\ CallersOf(f)' = {k}
            /\ \A i \in From(f)' : Written'[i].line < callers'[k].pos
      <4>1. SUFFICES ASSUME NEW k \in CallersOf(f)'
                     PROVE  /\ CallersOf(f)' = {k}
                            /\ \A i \in From(f)' : Written'[i].line < callers'[k].pos
        OBVIOUS
      <4>2. k \in CallersOf(f) /\ k # n /\ callers'[k] = callers[k]
        BY <1>7
      <4>3. CallersOf(f) = {k} /\ \A i \in From(f) : Written[i].line < callers[k].pos
        BY <3>1, <4>2 DEF ReadingOnce
      <4>4. CallersOf(f)' = {k}
        BY <1>7, <4>2, <4>3
      <4>5. /\ From(f)' = From(f)
            /\ \A i \in From(f) : Written'[i].line = Written[i].line
        BY <1>3
      <4> QED BY <4>2, <4>3, <4>4, <4>5
    <3>4. \A i, j \in From(f)' : Written'[i].line = Written'[j].line => i = j
      BY <1>3, <3>1 DEF ReadingOnce
    <3>5. ReadingOnce(f)'
      BY <3>2, <3>3, <3>4 DEF ReadingOnce
    <3> QED BY <2>2, <3>5
  <2>3. CASE f \notin once
    <3>1. Unread(f)
      BY <2>1, <2>3 DEF OnceInv
    <3>2. f # c.file /\ From(f)' = {} /\ CallersOf(f)' = {}
      BY <1>3, <1>7, <3>1 DEF Unread
    <3>3. Unread(f)'
      BY <1>4, <3>2 DEF Unread
    <3> QED BY <2>3, <3>3
  <2> QED BY <2>2, <2>3
<1>9. Entered'
  <2>1. outcome # "idle" /\ c.file \in visited
    <3>1. n \in 1..n
      BY <1>2
    <3> QED BY <1>5, <3>1 DEF OnceInv, Entered, AtEnd, n
  <2>2. \A k \in 1..Len(callers') : callers'[k].file \in visited
    <3>1. \A k \in 1..(n - 1) : k \in 1..n
      BY <1>2
    <3> QED BY <1>2, <3>1 DEF OnceInv, Entered, n
  <2> QED BY <1>4, <2>1, <2>2 DEF OnceInv, Entered
<1> QED BY <1>8, <1>9 DEF OnceInv

LEMMA EndOfFileKeepsOnce ==
  ASSUME Inv, TypeOK', OnceInv, EndOfFile, ~Fail
  PROVE  OnceInv'
<1>1. /\ AtEnd /\ output' = output \o Expansion
      /\ UNCHANGED <<source, once, visited>>
  BY DEF EndOfFile, shared
<1>2. CASE callers = <<>>
  <2>1. pending' = <<>> /\ UNCHANGED <<file, pos, callers>> /\ outcome' = "ok"
    BY <1>2 DEF EndOfFile
  <2>2. SamePlaces(Written, Written')
    BY <1>1, <2>1, ExpansionPlaces DEF Inv
  <2>3. StartsWithOnce(file) => file \in once
    BY <1>1, AtEndIsBehind
  <2>4. pos \in Nat /\ file \in visited
    BY <1>1 DEF Inv, TypeOK, OnceInv, Entered, AtEnd
  <2> QED BY <1>1, <2>1, <2>2, <2>3, <2>4, MoveKeepsOnce
<1>3. CASE callers # <<>>
  <2>1. /\ file' = callers[Len(callers)].file /\ pos' = callers[Len(callers)].pos
        /\ pending' = callers[Len(callers)].pending
        /\ callers' = SubSeq(callers, 1, Len(callers) - 1) /\ UNCHANGED outcome
    BY <1>3 DEF EndOfFile
  <2>2. pending' = <<>>
    <3>1. Len(callers) \in 1..Len(callers)
      BY <1>3 DEF Inv, TypeOK
    <3> QED BY <2>1, <3>1 DEF Inv, NothingWaitsAcrossFiles
  <2>3. SamePlaces(Written, Written')
    BY <1>1, <2>2, ExpansionPlaces DEF Inv
  <2> QED BY <1>1, <1>3, <2>1, <2>3, LeaveKeepsOnce
<1> QED BY <1>2, <1>3

(* The first call of run enters the main file.                             *)
LEMMA RunKeepsOnce ==
  ASSUME Inv, OnceInv, Run
  PROVE  OnceInv'
<1>1. /\ UNCHANGED <<source, once, output, file, pos, conds, pending, callers>>
      /\ visited' = {Main} /\ outcome = "idle" /\ outcome' # "idle"
  BY DEF Run
<1>2. Entered'
  BY <1>1 DEF OnceInv, Entered
<1>3. Written' = Written /\ \A f : From(f)' = From(f) /\ CallersOf(f)' = CallersOf(f)
  BY <1>1 DEF Written, From, CallersOf
<1>4. ASSUME NEW f \in File, StartsWithOnce(f)'
      PROVE  IF f \in once' THEN ReadingOnce(f)' ELSE Unread(f)'
  <2>1. IF f \in once THEN ReadingOnce(f) ELSE Unread(f)
    BY <1>1, <1>4 DEF StartsWithOnce, OnceInv
  <2> QED BY <1>1, <1>3, <2>1 DEF ReadingOnce, Unread
<1> QED BY <1>2, <1>4 DEF OnceInv

(* The other directives expand what waits and go to the next line.         *)
LEMMA DirectiveKeepsOnce ==
  ASSUME Inv, TypeOK', OnceInv, ~Fail,
         \/ NullDirective \/ SkipDirective \/ Define \/ Undef
         \/ OpenConditional \/ Elif \/ Else \/ Endif
  PROVE  OnceInv'
<1>1. /\ AtLine /\ Flush /\ Proceed /\ UNCHANGED <<once, visited>>
      /\ ~(Current.kind = "once" /\ Active)
  BY DEF NullDirective, SkipDirective, Define, Undef, OpenConditional, Elif, Else,
         Endif, Directive, AtDirective, shared
<1>2. SamePlaces(Written, Written')
  BY <1>1, ExpansionPlaces DEF Inv, Flush
<1>3. StartsWithOnce(file) => file \in once
  BY <1>1, BehindFirstLine
<1>4. /\ pos \in Nat /\ file \in visited /\ outcome' # "idle"
      /\ pos' = pos + 1 /\ UNCHANGED <<source, file, callers>>
  BY <1>1 DEF Inv, TypeOK, OnceInv, Entered, AtLine, Proceed
<1> QED BY <1>1, <1>2, <1>3, <1>4, MoveKeepsOnce

LEMMA StepsKeepOnce ==
  ASSUME Inv, OnceInv, Next
  PROVE  OnceInv'
<1>1. TypeOK'
  BY StepsType DEF Inv
<1>2. CASE Run
  BY <1>2, RunKeepsOnce
<1>3. CASE ~Run /\ Fail
  <2>1. outcome # "idle"
    BY <1>3 DEF Next, ReadText, FlushFails, NullDirective, OpenConditional, Elif,
                Else, Endif, SkipDirective, Define, Undef, PragmaOnce,
                ErrorDirective, Include, EndOfFile, Directive, AtDirective,
                AtLine, AtEnd
  <2> QED BY <1>3, <2>1, FailKeepsOnce
<1>4. CASE ~Run /\ ~Fail
  <2>1. ~FlushFails /\ ~ErrorDirective
    BY <1>4 DEF FlushFails, ErrorDirective
  <2> QED BY <1>1, <1>4, <2>1, ReadTextKeepsOnce, PragmaOnceKeepsOnce,
             IncludeKeepsOnce, EndOfFileKeepsOnce, DirectiveKeepsOnce DEF Next
<1> QED BY <1>2, <1>3, <1>4

LEMMA OnceInvariance == Spec => []OnceInv
<1>1. Init => OnceInv
  <2>1. SUFFICES ASSUME Init PROVE OnceInv
    OBVIOUS
  <2>2. /\ output = <<>> /\ pending = <<>> /\ callers = <<>> /\ once = {}
        /\ visited = {} /\ file = Main /\ outcome = "idle" /\ pos = 1 /\ conds = <<>>
    BY <2>1 DEF Init
  <2>3. Written = <<>>
    BY <2>2 DEF Written
  <2>4. \A f : From(f) = {} /\ CallersOf(f) = {}
    BY <2>2, <2>3 DEF From, CallersOf
  <2>5. Entered
    BY <2>2 DEF Entered
  <2> QED BY <2>2, <2>4, <2>5 DEF OnceInv, Unread
<1>2. Inv /\ OnceInv /\ [Next]_vars => OnceInv'
  <2>1. ASSUME Inv, OnceInv, UNCHANGED vars PROVE OnceInv'
    <3>1. UNCHANGED <<source, once, visited, output, file, pos, conds, pending,
                      callers, outcome>>
      BY <2>1 DEF vars, shared
    <3>2. /\ Written' = Written
          /\ \A f : /\ From(f)' = From(f) /\ CallersOf(f)' = CallersOf(f)
                    /\ StartsWithOnce(f)' = StartsWithOnce(f)
      BY <3>1 DEF Written, From, CallersOf, StartsWithOnce
    <3>3. Entered'
      BY <2>1, <3>1 DEF OnceInv, Entered
    <3>4. \A f \in File : StartsWithOnce(f)' =>
            IF f \in once' THEN ReadingOnce(f)' ELSE Unread(f)'
      BY <2>1, <3>1, <3>2 DEF OnceInv, ReadingOnce, Unread
    <3> QED BY <3>3, <3>4 DEF OnceInv
  <2> QED BY <2>1, StepsKeepOnce
<1> QED BY <1>1, <1>2, Invariance, PTL DEF Spec

(* OnceIsOnce: whatever names a file that starts with #pragma once is      *)
(* included by, wherever it is found and however includes are nested, each *)
(* of its lines comes out at most once.                                    *)
THEOREM OnceIsOnce == Spec => []OnceTextAppearsOnce
<1>1. Inv /\ OnceInv => OnceTextAppearsOnce
  <2>1. SUFFICES ASSUME Inv, OnceInv, NEW i \in 1..Len(output), NEW j \in 1..Len(output),
                        output[i].file = output[j].file, output[i].line = output[j].line,
                        StartsWithOnce(output[i].file)
                 PROVE  i = j
    BY DEF OnceTextAppearsOnce
  <2> DEFINE f == output[i].file
  <2>2. output \in Seq(OutToken) /\ pending \in Seq(PPToken)
    BY <2>1 DEF Inv, TypeOK
  <2>3. /\ Len(output) \in Nat /\ Len(pending) \in Nat
        /\ Len(Written) = Len(output) + Len(pending)
        /\ \A k \in 1..(Len(output) + Len(pending)) :
             Written[k] = IF k <= Len(output) THEN output[k] ELSE pending[k - Len(output)]
    BY <2>2, WrittenParts DEF Written
  <2>4. \A k \in 1..Len(output) : k \in 1..Len(Written) /\ Written[k] = output[k]
    BY <2>3
  <2>5. i \in From(f) /\ j \in From(f) /\ Written[i].line = Written[j].line
    <3>1. /\ i \in 1..Len(Written) /\ Written[i] = output[i]
          /\ j \in 1..Len(Written) /\ Written[j] = output[j]
      BY <2>1, <2>4
    <3> QED BY <2>1, <3>1 DEF From
  <2>6. f \in File
    <3>1. output[i] \in OutToken
      BY <2>1, <2>2
    <3> QED BY <3>1 DEF OutToken
  <2>7. f \in once => ReadingOnce(f)
    BY <2>1, <2>6 DEF OnceInv
  <2>8. f \in once
    BY <2>1, <2>5, <2>6 DEF OnceInv, Unread
  <2> HIDE DEF f
  <2> QED BY <2>5, <2>7, <2>8 DEF ReadingOnce
<1> QED BY <1>1, Invariance, OnceInvariance, PTL

-----------------------------------------------------------------------------
\* A file told of its prefixes: the greatest of a set of lines, and how the
\* counts of #if and #endif lines grow by one line.
LEMMA LatestIs ==
  ASSUME NEW S, S \subseteq Int, NEW m \in S, \A x \in S : m >= x
  PROVE  Groups!Max(S) = m
<1>1. \E x \in S : \A y \in S : x >= y
  OBVIOUS
<1>2. Groups!Max(S) \in S /\ \A y \in S : Groups!Max(S) >= y
  BY <1>1, Zenon DEF Groups!Max
<1> DEFINE x == Groups!Max(S)
<1>3. x \in S /\ \A y \in S : x >= y
  BY <1>2
<1> HIDE DEF x
<1>4. x \in Int /\ m \in Int /\ x >= m /\ m >= x
  BY <1>3
<1>5. x = m
  BY <1>4
<1> QED BY <1>5 DEF x

\* The reference counts as FiniteSets does.
LEMMA SameCount ==
  ASSUME NEW S
  PROVE  Groups!Cardinality(S) = Cardinality(S)
  BY DEF Groups!Cardinality, Cardinality

\* One more line may add one to a count of lines.
LEMMA OneMore ==
  ASSUME NEW j \in Nat \ {0}, NEW S, NEW T, S \subseteq 1..(j - 1), T \in {S, S \cup {j}}
  PROVE  /\ Cardinality(S) \in Nat /\ Cardinality(T) \in Nat
         /\ T = S => Cardinality(T) = Cardinality(S)
         /\ j \in T => Cardinality(T) = Cardinality(S) + 1
<1>1. IsFiniteSet(S)
  <2> DEFINE n == j - 1
  <2>1. n \in Int /\ 1 \in Int /\ S \in SUBSET (1..n)
    OBVIOUS
  <2> HIDE DEF n
  <2>2. IsFiniteSet(1..n)
    BY <2>1, FS_Interval
  <2> QED BY <2>1, <2>2, FS_Subset
<1>2. Cardinality(S) \in Nat
  BY <1>1, FS_CardinalityType
<1>3. j \notin S
  OBVIOUS
<1>4. Cardinality(S \cup {j}) = Cardinality(S) + 1
  BY <1>1, <1>3, FS_AddElement
<1>5. CASE T = S
  BY <1>2, <1>3, <1>5
<1>6. CASE T = S \cup {j}
  BY <1>2, <1>3, <1>4, <1>6
<1> QED BY <1>5, <1>6

\* A line opens a section, closes one, or leaves the depth as it is.
LEMMA DepthStep ==
  ASSUME NEW p, NEW j \in Nat \ {0}
  PROVE  /\ Groups!Depth(p, j) \in Int /\ Groups!Depth(p, j + 1) \in Int
         /\ Groups!Opens(p[j]) => Groups!Depth(p, j + 1) = Groups!Depth(p, j) + 1
         /\ Groups!Closes(p[j]) => Groups!Depth(p, j + 1) = Groups!Depth(p, j) - 1
         /\ ~Groups!Opens(p[j]) /\ ~Groups!Closes(p[j]) =>
              Groups!Depth(p, j + 1) = Groups!Depth(p, j)
<1> DEFINE S == {i \in 1..(j - 1) : Groups!Opens(p[i])}
           T == {i \in 1..j : Groups!Opens(p[i])}
           U == {i \in 1..(j - 1) : Groups!Closes(p[i])}
           V == {i \in 1..j : Groups!Closes(p[i])}
<1>1. 1..j = 1..(j - 1) \cup {j} /\ j \notin 1..(j - 1) /\ (j + 1) - 1 = j
  OBVIOUS
<1>2. /\ S \subseteq 1..(j - 1) /\ T \in {S, S \cup {j}} /\ (j \in T <=> Groups!Opens(p[j]))
      /\ ~Groups!Opens(p[j]) => T = S
  BY <1>1
<1>3. /\ U \subseteq 1..(j - 1) /\ V \in {U, U \cup {j}} /\ (j \in V <=> Groups!Closes(p[j]))
      /\ ~Groups!Closes(p[j]) => V = U
  BY <1>1
<1>4. ~(Groups!Opens(p[j]) /\ Groups!Closes(p[j]))
  BY DEF Groups!Opens, Groups!Closes
<1>5. /\ Groups!Depth(p, j) = Cardinality(S) - Cardinality(U)
      /\ Groups!Depth(p, j + 1) = Cardinality(T) - Cardinality(V)
  BY <1>1, SameCount, Zenon DEF Groups!Depth
<1> HIDE DEF S, T, U, V
<1>6. /\ Cardinality(S) \in Nat /\ Cardinality(T) \in Nat
      /\ ~Groups!Opens(p[j]) => Cardinality(T) = Cardinality(S)
      /\ Groups!Opens(p[j]) => Cardinality(T) = Cardinality(S) + 1
  <2>0. S \subseteq 1..(j - 1) /\ T \in {S, S \cup {j}}
    BY <1>2, Zenon
  <2>1. j \in T => Cardinality(T) = Cardinality(S) + 1
    BY <2>0, OneMore, Zenon
  <2>2. Cardinality(S) \in Nat /\ Cardinality(T) \in Nat
    BY <2>0, OneMore, Zenon
  <2> QED BY <1>2, <2>1, <2>2, Zenon
<1>7. /\ Cardinality(U) \in Nat /\ Cardinality(V) \in Nat
      /\ ~Groups!Closes(p[j]) => Cardinality(V) = Cardinality(U)
      /\ Groups!Closes(p[j]) => Cardinality(V) = Cardinality(U) + 1
  <2>0. U \subseteq 1..(j - 1) /\ V \in {U, U \cup {j}}
    BY <1>3, Zenon
  <2>1. j \in V => Cardinality(V) = Cardinality(U) + 1
    BY <2>0, OneMore, Zenon
  <2>2. Cardinality(U) \in Nat /\ Cardinality(V) \in Nat
    BY <2>0, OneMore, Zenon
  <2> QED BY <1>3, <2>1, <2>2, Zenon
<1> QED BY <1>4, <1>5, <1>6, <1>7

LEMMA DepthAtStart ==
  ASSUME NEW p
  PROVE  Groups!Depth(p, 1) = 0
<1>1. {i \in 1..(1 - 1) : Groups!Opens(p[i])} = {} /\ {i \in 1..(1 - 1) : Groups!Closes(p[i])} = {}
  OBVIOUS
<1>2. Groups!Depth(p, 1) = Cardinality({}) - Cardinality({})
  BY <1>1, SameCount, Zenon DEF Groups!Depth
<1> QED BY <1>2, FS_EmptySet

-----------------------------------------------------------------------------
\* The lines open opened the sections that line j is in, outermost first.
Sections(p, j, open) ==
  /\ open \in Seq(Nat) /\ Len(open) = Groups!Depth(p, j)
  /\ Groups!Around(p, j) = {open[m] : m \in 1..Len(open)}
  /\ \A m \in 1..Len(open) : Groups!Depth(p, open[m]) = m - 1
  /\ \A m, l \in 1..Len(open) : m < l => open[m] < open[l]

\* No section is open before the first line.
LEMMA SectionsAtStart ==
  ASSUME NEW p
  PROVE  Sections(p, 1, <<>>)
<1>1. Groups!Around(p, 1) = {}
  BY DEF Groups!Around
<1>2. Len(<<>>) = 0 /\ <<>> \in Seq(Nat) /\ 1..0 = {}
  OBVIOUS
<1> QED BY <1>1, <1>2, DepthAtStart DEF Sections

\* The sections around the next line.
LEMMA AroundNext ==
  ASSUME NEW p, NEW j \in Nat \ {0}
  PROVE  /\ \A i \in Groups!Around(p, j + 1) : i # j => i \in Groups!Around(p, j)
         /\ \A i \in Groups!Around(p, j) :
              i \in Groups!Around(p, j + 1) <=> Groups!Depth(p, j + 1) > Groups!Depth(p, i)
         /\ j \in Groups!Around(p, j + 1) <=>
              Groups!Opens(p[j]) /\ Groups!Depth(p, j + 1) > Groups!Depth(p, j)
         /\ \A i \in Groups!Around(p, j) :
              i \in 1..(j - 1) /\ Groups!Opens(p[i]) /\ Groups!Depth(p, j) > Groups!Depth(p, i)
<1>1. \A i \in 1..(j - 1) : (i + 1)..(j + 1) = ((i + 1)..j) \cup {j + 1} /\ j \in (i + 1)..j
  OBVIOUS
<1>2. (j + 1)..(j + 1) = {j + 1} /\ (j + 1) - 1 = j /\ j \notin 1..(j - 1)
      /\ 1..j = 1..(j - 1) \cup {j}
  OBVIOUS
<1>3. \A i : i \in Groups!Around(p, j) <=>
        /\ i \in 1..(j - 1) /\ Groups!Opens(p[i])
        /\ \A k \in (i + 1)..j : Groups!Depth(p, k) > Groups!Depth(p, i)
  BY DEF Groups!Around
<1>4. \A i : i \in Groups!Around(p, j + 1) <=>
        /\ i \in 1..j /\ Groups!Opens(p[i])
        /\ \A k \in (i + 1)..(j + 1) : Groups!Depth(p, k) > Groups!Depth(p, i)
  BY <1>2, Zenon DEF Groups!Around
<1>5. ASSUME NEW i \in 1..(j - 1)
      PROVE  i \in Groups!Around(p, j + 1) <=>
               i \in Groups!Around(p, j) /\ Groups!Depth(p, j + 1) > Groups!Depth(p, i)
  <2>1. (i + 1)..(j + 1) = ((i + 1)..j) \cup {j + 1} /\ i \in 1..j
    BY <1>1, <1>2
  <2>2. i \in Groups!Around(p, j + 1) <=>
        /\ Groups!Opens(p[i])
        /\ \A k \in ((i + 1)..j) \cup {j + 1} : Groups!Depth(p, k) > Groups!Depth(p, i)
    BY <1>4, <2>1, Zenon
  <2>3. i \in Groups!Around(p, j) <=>
        /\ Groups!Opens(p[i])
        /\ \A k \in (i + 1)..j : Groups!Depth(p, k) > Groups!Depth(p, i)
    BY <1>3, Zenon
  <2> HIDE DEF Groups!Depth
  <2> QED BY <2>2, <2>3, Zenon
<1>6. j \in Groups!Around(p, j + 1) <=>
        Groups!Opens(p[j]) /\ Groups!Depth(p, j + 1) > Groups!Depth(p, j)
  BY <1>2, <1>4, Zenon
<1>7. \A i \in Groups!Around(p, j) :
        i \in 1..(j - 1) /\ Groups!Opens(p[i]) /\ Groups!Depth(p, j) > Groups!Depth(p, i)
  BY <1>1, <1>3, Zenon
<1>8. \A i \in Groups!Around(p, j + 1) : i # j => i \in 1..(j - 1)
  BY <1>2, <1>4, Zenon
<1> QED BY <1>5, <1>6, <1>7, <1>8, Zenon

\* The innermost section, and where sections begin.
LEMMA SectionsInner ==
  ASSUME NEW p, NEW j \in Nat \ {0}, NEW open, Sections(p, j, open)
  PROVE  /\ Len(open) \in Nat
         /\ \A m \in 1..Len(open) :
              open[m] \in 1..(j - 1) /\ open[m] \in Groups!Around(p, j) /\ Groups!Opens(p[open[m]])
         /\ open = <<>> <=> Groups!Around(p, j) = {}
         /\ open # <<>> => Groups!Opener(p, j) = open[Len(open)] /\ Len(open) \in 1..Len(open)
<1>1. Len(open) \in Nat /\ open \in Seq(Nat)
  BY DEF Sections
<1>2. \A m \in 1..Len(open) :
        open[m] \in 1..(j - 1) /\ open[m] \in Groups!Around(p, j) /\ Groups!Opens(p[open[m]])
  <2>1. \A i \in Groups!Around(p, j) : i \in 1..(j - 1) /\ Groups!Opens(p[i])
    BY AroundNext
  <2>2. Groups!Around(p, j) = {open[m] : m \in 1..Len(open)}
    BY DEF Sections
  <2> QED BY <2>1, <2>2, Zenon
<1>3. open = <<>> <=> Groups!Around(p, j) = {}
  <2>1. CASE open = <<>>
    <3>1. 1..Len(open) = {}
      BY <2>1
    <3> QED BY <2>1, <3>1, Zenon DEF Sections
  <2>2. CASE open # <<>>
    <3>1. 1 \in 1..Len(open)
      BY <1>1, <2>2
    <3> QED BY <1>2, <2>2, <3>1
  <2> QED BY <2>1, <2>2
<1>4. ASSUME open # <<>>
      PROVE  Groups!Opener(p, j) = open[Len(open)] /\ Len(open) \in 1..Len(open)
  <2>1. Len(open) \in 1..Len(open)
    BY <1>1, <1>4
  <2>2. \A m \in 1..Len(open) : open[Len(open)] >= open[m]
    <3>1. ASSUME NEW m \in 1..Len(open)
          PROVE  open[Len(open)] >= open[m]
      <4>1. m < Len(open) => open[m] < open[Len(open)]
        BY <2>1 DEF Sections
      <4>2. open[m] \in Nat /\ open[Len(open)] \in Nat
        BY <1>1, <2>1
      <4> QED BY <1>1, <4>1, <4>2
    <3> QED BY <3>1
  <2> DEFINE S == Groups!Around(p, j)
  <2>3. S \subseteq Int /\ open[Len(open)] \in S /\ \A x \in S : open[Len(open)] >= x
    <3>1. S = {open[m] : m \in 1..Len(open)}
      BY DEF Sections
    <3>2. \A m \in 1..Len(open) : open[m] \in Int
      BY <1>1
    <3> QED BY <2>1, <2>2, <3>1, <3>2
  <2>4. Groups!Opener(p, j) = Groups!Max(S)
    BY DEF Groups!Opener
  <2> HIDE DEF S
  <2>5. Groups!Max(S) = open[Len(open)]
    BY <2>3, LatestIs
  <2> QED BY <2>1, <2>4, <2>5
<1> QED BY <1>1, <1>2, <1>3, <1>4

\* A line that neither opens nor closes a section.
LEMMA SectionsKept ==
  ASSUME NEW p, NEW j \in Nat \ {0}, NEW open, Sections(p, j, open),
         ~Groups!Opens(p[j]) /\ ~Groups!Closes(p[j])
  PROVE  Sections(p, j + 1, open)
<1>1. Groups!Depth(p, j + 1) = Groups!Depth(p, j) /\ Groups!Depth(p, j) \in Int
  BY DepthStep
<1>2. /\ \A i \in Groups!Around(p, j + 1) : i # j => i \in Groups!Around(p, j)
      /\ \A i \in Groups!Around(p, j) :
           i \in Groups!Around(p, j + 1) <=> Groups!Depth(p, j + 1) > Groups!Depth(p, i)
      /\ j \notin Groups!Around(p, j + 1)
      /\ \A i \in Groups!Around(p, j) : Groups!Depth(p, j) > Groups!Depth(p, i)
  BY AroundNext
<1>3. Groups!Around(p, j + 1) = Groups!Around(p, j)
  BY <1>1, <1>2, Zenon
<1> QED BY <1>1, <1>3, Zenon DEF Sections

\* A line that opens a section.
LEMMA SectionsOpen ==
  ASSUME NEW p, NEW j \in Nat \ {0}, NEW open, Sections(p, j, open), Groups!Opens(p[j])
  PROVE  Sections(p, j + 1, Append(open, j))
<1> DEFINE o == Append(open, j)
<1>1. /\ open \in Seq(Nat) /\ Len(open) \in Nat /\ Len(open) = Groups!Depth(p, j)
      /\ \A m \in 1..Len(open) : open[m] \in Nat /\ open[m] < j
      /\ \A m \in 1..Len(open) : Groups!Depth(p, open[m]) = m - 1
  <2>1. Len(open) \in Nat /\ \A m \in 1..Len(open) : open[m] \in 1..(j - 1)
    BY SectionsInner
  <2>2. \A m \in 1..Len(open) : open[m] \in Nat /\ open[m] < j
    BY <2>1
  <2> QED BY <2>1, <2>2, Zenon DEF Sections
<1>2. /\ o \in Seq(Nat) /\ Len(o) = Len(open) + 1 /\ o[Len(open) + 1] = j
      /\ \A m \in 1..Len(open) : o[m] = open[m]
  BY <1>1
<1> HIDE DEF o
<1>3. Groups!Depth(p, j + 1) = Len(open) + 1 /\ Groups!Depth(p, j) = Len(open)
  BY <1>1, DepthStep
<1>4. Groups!Around(p, j + 1) = Groups!Around(p, j) \cup {j}
  <2>1. j \in Groups!Around(p, j + 1)
    BY <1>1, <1>3, AroundNext
  <2>2. ASSUME NEW i \in Groups!Around(p, j)
        PROVE  i \in Groups!Around(p, j + 1)
    <3>1. PICK m \in 1..Len(open) : i = open[m]
      BY DEF Sections
    <3>2. Groups!Depth(p, j + 1) > Groups!Depth(p, i)
      BY <1>1, <1>3, <3>1
    <3> QED BY <3>2, AroundNext
  <2> QED BY <2>1, <2>2, AroundNext
<1>5. Groups!Around(p, j + 1) = {o[m] : m \in 1..Len(o)}
  <2>1. Groups!Around(p, j) = {open[m] : m \in 1..Len(open)}
    BY DEF Sections
  <2>2. 1..Len(o) = 1..Len(open) \cup {Len(open) + 1}
    BY <1>1, <1>2
  <2> QED BY <1>2, <1>4, <2>1, <2>2
<1>0. \A m \in 1..Len(o) : m \in 1..Len(open) \/ m = Len(open) + 1
  BY <1>1, <1>2
<1>6. \A m \in 1..Len(o) : Groups!Depth(p, o[m]) = m - 1
  <2>1. ASSUME NEW m \in 1..Len(o), m = Len(open) + 1
        PROVE  Groups!Depth(p, o[m]) = m - 1
    BY <1>1, <1>2, <1>3, <2>1
  <2>2. ASSUME NEW m \in 1..Len(open)
        PROVE  Groups!Depth(p, o[m]) = m - 1
    BY <1>1, <1>2
  <2> QED BY <1>0, <2>1, <2>2
<1>7. \A m, l \in 1..Len(o) : m < l => o[m] < o[l]
  <2>1. ASSUME NEW m \in 1..Len(o), NEW l \in 1..Len(o), m < l
        PROVE  o[m] < o[l]
    <3>1. m \in 1..Len(open)
      BY <1>1, <1>2, <2>1
    <3>2. CASE l \in 1..Len(open)
      <4>1. open[m] < open[l]
        BY <2>1, <3>1, <3>2 DEF Sections
      <4> QED BY <1>2, <3>1, <3>2, <4>1
    <3>3. CASE l = Len(open) + 1
      BY <1>1, <1>2, <3>1, <3>3
    <3> QED BY <1>0, <3>2, <3>3
  <2> QED BY <2>1
<1>8. Len(o) = Groups!Depth(p, j + 1)
  BY <1>2, <1>3
<1> QED BY <1>2, <1>5, <1>6, <1>7, <1>8 DEF Sections, o

\* A line that closes the innermost section.
LEMMA SectionsClose ==
  ASSUME NEW p, NEW j \in Nat \ {0}, NEW open, Sections(p, j, open), Groups!Closes(p[j]),
         open # <<>>
  PROVE  Sections(p, j + 1, SubSeq(open, 1, Len(open) - 1))
<1> DEFINE o == SubSeq(open, 1, Len(open) - 1)
<1>1. /\ open \in Seq(Nat) /\ Len(open) \in Nat \ {0} /\ Len(open) = Groups!Depth(p, j)
      /\ \A m \in 1..Len(open) : Groups!Depth(p, open[m]) = m - 1
  BY SectionsInner DEF Sections
<1>2. /\ o \in Seq(Nat) /\ Len(o) = Len(open) - 1
      /\ \A m \in 1..(Len(open) - 1) : o[m] = open[m]
  BY <1>1
<1> HIDE DEF o
<1>3. Groups!Depth(p, j + 1) = Len(open) - 1 /\ ~Groups!Opens(p[j])
  BY <1>1, DepthStep DEF Groups!Opens, Groups!Closes
<1>4. \A i : i \in Groups!Around(p, j + 1) <=>
        \E m \in 1..(Len(open) - 1) : i = open[m]
  <2>1. ASSUME NEW m \in 1..Len(open)
        PROVE  open[m] \in Groups!Around(p, j + 1) <=> m \in 1..(Len(open) - 1)
    <3>1. open[m] \in Groups!Around(p, j)
      BY DEF Sections
    <3>2. Groups!Depth(p, j + 1) > Groups!Depth(p, open[m]) <=> m \in 1..(Len(open) - 1)
      BY <1>1, <1>3
    <3> QED BY <3>1, <3>2, AroundNext
  <2>2. \A i \in Groups!Around(p, j + 1) : \E m \in 1..Len(open) : i = open[m]
    <3>1. j \notin Groups!Around(p, j + 1)
      BY <1>3, AroundNext
    <3>2. \A i \in Groups!Around(p, j + 1) : i \in Groups!Around(p, j)
      BY <3>1, AroundNext, Zenon
    <3>3. Groups!Around(p, j) = {open[m] : m \in 1..Len(open)}
      BY DEF Sections
    <3> QED BY <3>2, <3>3, Zenon
  <2>3. 1..(Len(open) - 1) \subseteq 1..Len(open)
    BY <1>1
  <2> QED BY <2>1, <2>2, <2>3
<1>5. Groups!Around(p, j + 1) = {o[m] : m \in 1..Len(o)}
  BY <1>2, <1>4
<1>6. \A m \in 1..Len(o) : Groups!Depth(p, o[m]) = m - 1
  BY <1>1, <1>2
<1>7. \A m, l \in 1..Len(o) : m < l => o[m] < o[l]
  BY <1>1, <1>2 DEF Sections
<1>8. Len(o) = Groups!Depth(p, j + 1)
  BY <1>2, <1>3
<1> QED BY <1>2, <1>5, <1>6, <1>7, <1>8 DEF Sections, o

-----------------------------------------------------------------------------
\* The groups of a section that begin before the next line.
LEMMA HeadsNext ==
  ASSUME NEW p, NEW j \in Nat \ {0}, NEW i \in 1..(j - 1)
  PROVE  Groups!Heads(p, i, j + 1) =
           IF Groups!Continues(p[j]) /\ Groups!Opener(p, j) = i
           THEN Groups!Heads(p, i, j) \cup {j} ELSE Groups!Heads(p, i, j)
<1>1. (i + 1)..((j + 1) - 1) = ((i + 1)..(j - 1)) \cup {j} /\ j \notin (i + 1)..(j - 1) /\ j # i
  OBVIOUS
<1>2. \A b : b \in Groups!Heads(p, i, j + 1) <=>
        \/ b = i
        \/ b \in ((i + 1)..(j - 1)) \cup {j} /\ Groups!Continues(p[b]) /\ Groups!Opener(p, b) = i
  BY <1>1, Zenon DEF Groups!Heads
<1>3. \A b : b \in Groups!Heads(p, i, j) <=>
        \/ b = i
        \/ b \in (i + 1)..(j - 1) /\ Groups!Continues(p[b]) /\ Groups!Opener(p, b) = i
  BY Zenon DEF Groups!Heads
<1> QED BY <1>2, <1>3

\* The lines that begin the groups of a section start with its #if.
LEMMA HeadsTypes ==
  ASSUME NEW p, NEW j \in Nat \ {0}, NEW i \in 1..(j - 1)
  PROVE  Groups!Heads(p, i, j) \subseteq 1..(j - 1) /\ i \in Groups!Heads(p, i, j)
         /\ Groups!Heads(p, i, i + 1) = {i}
<1>1. (i + 1)..(j - 1) \subseteq 1..(j - 1) /\ (i + 1)..((i + 1) - 1) = {}
  OBVIOUS
<1> QED BY <1>1 DEF Groups!Heads

\* The group that begins last begins at the line j.
LEMMA LastHead ==
  ASSUME NEW p, NEW j \in Nat \ {0}, NEW i \in 1..(j - 1),
         Groups!Continues(p[j]), Groups!Opener(p, j) = i
  PROVE  Groups!Max(Groups!Heads(p, i, j + 1)) = j
<1> DEFINE S == Groups!Heads(p, i, j + 1)
<1>1. S = Groups!Heads(p, i, j) \cup {j} /\ Groups!Heads(p, i, j) \subseteq 1..(j - 1)
  BY HeadsNext, HeadsTypes
<1> HIDE DEF S
<1>2. S \subseteq Int /\ j \in S /\ \A x \in S : j >= x
  BY <1>1
<1> QED BY <1>2, LatestIs DEF S

\* live and other have the same lines before j.
Agree(live, other, j) ==
  /\ live \subseteq Nat \ {0} /\ other \subseteq Nat \ {0}
  /\ \A k \in 1..(j - 1) : k \in live <=> k \in other

\* What lines from j on add to the live lines does not change a definition there.
LEMMA DefinitionBefore ==
  ASSUME NEW p, NEW j \in Nat \ {0}, NEW live, NEW other, Agree(live, other, j),
         NEW b \in 1..j, NEW n
  PROVE  Groups!Definition(p, live, b, n) = Groups!Definition(p, other, b, n)
<1> DEFINE S == {k \in live : k < b /\ p[k].kind \in {"define", "undef"} /\ p[k].name = n}
           T == {k \in other : k < b /\ p[k].kind \in {"define", "undef"} /\ p[k].name = n}
<1>1. \A k \in Nat \ {0} : k < b => (k \in live <=> k \in other)
  BY DEF Agree
<1>2. S = T
  BY <1>1, Zenon DEF Agree
<1>3. /\ Groups!Definition(p, live, b, n) =
           IF S = {} \/ p[Groups!Max(S)].kind = "undef" THEN Undefined ELSE p[Groups!Max(S)].value
      /\ Groups!Definition(p, other, b, n) =
           IF T = {} \/ p[Groups!Max(T)].kind = "undef" THEN Undefined ELSE p[Groups!Max(T)].value
  BY Zenon DEF Groups!Definition
<1> HIDE DEF S, T
<1> QED BY <1>2, <1>3

\* Nor do the conditions of the lines before j tell the two apart,
LEMMA SelectedBefore ==
  ASSUME NEW p, NEW j \in Nat \ {0}, NEW live, NEW other, Agree(live, other, j), NEW b \in 1..j
  PROVE  Groups!Selected(p, live, b) = Groups!Selected(p, other, b)
<1>1. \A n : Groups!Definition(p, live, b, n) = Groups!Definition(p, other, b, n)
  BY DefinitionBefore
<1> QED BY <1>1, Zenon DEF Groups!Selected

\* or whether line j is live.
LEMMA LiveLineBefore ==
  ASSUME NEW p, NEW j \in Nat \ {0}, NEW live, NEW other, Agree(live, other, j)
  PROVE  Groups!LiveLine(p, live, j) <=> Groups!LiveLine(p, other, j)
<1>1. ASSUME NEW i \in Groups!Around(p, j)
      PROVE  Groups!FirstSelected(p, live, i, j) <=> Groups!FirstSelected(p, other, i, j)
  <2>1. i \in 1..(j - 1)
    BY AroundNext
  <2>2. Groups!Heads(p, i, j) \subseteq 1..j
    BY <2>1, HeadsTypes
  <2>3. \A b \in Groups!Heads(p, i, j) : Groups!Selected(p, live, b) = Groups!Selected(p, other, b)
    BY <2>2, SelectedBefore
  <2> QED BY <2>3, Zenon DEF Groups!FirstSelected
<1> QED BY <1>1, Zenon DEF Groups!LiveLine

-----------------------------------------------------------------------------
\* f has the live lines up to each of the first n.
LiveTo(p, n, f) ==
  f = [j \in 0..n |-> IF j = 0 THEN {}
                      ELSE f[j - 1] \cup {k \in {j} : Groups!LiveLine(p, f[j - 1], k)}]

\* The recursive function that Live is defined with exists,
LEMMA LiveExists ==
  ASSUME NEW p, NEW n \in Nat
  PROVE  \E f : LiveTo(p, n, f)
<1> DEFINE Missing == {k \in Nat : ~ \E f : LiveTo(p, k, f)}
<1>1. SUFFICES ASSUME n \in Missing PROVE FALSE
  OBVIOUS
<1>2. PICK m \in Missing : \A k \in Missing : m <= k
  BY <1>1, LeastNumber
<1>3. m \in Nat
  BY <1>2
<1>4. CASE m = 0
  <2> DEFINE f == [j \in 0..0 |-> {}]
  <2>1. f = [j \in 0..0 |-> IF j = 0 THEN {}
               ELSE f[j - 1] \cup {k \in {j} : Groups!LiveLine(p, f[j - 1], k)}]
    OBVIOUS
  <2>2. LiveTo(p, 0, f)
    BY <2>1 DEF LiveTo
  <2> HIDE DEF f
  <2> QED BY <1>2, <1>4, <2>2
<1>5. CASE m # 0
  <2>1. m - 1 \in Nat /\ m - 1 \notin Missing
    BY <1>2, <1>3, <1>5
  <2>2. PICK f : LiveTo(p, m - 1, f)
    BY <2>1
  <2> DEFINE Next1(g, j) == g[j - 1] \cup {k \in {j} : Groups!LiveLine(p, g[j - 1], k)}
             g == [j \in 0..m |-> IF j = m THEN Next1(f, m) ELSE f[j]]
  <2>3. ASSUME NEW j \in 0..m
        PROVE  g[j] = IF j = 0 THEN {} ELSE Next1(g, j)
    <3>1. CASE j = 0
      <4>1. j \in 0..(m - 1) /\ j # m
        BY <1>3, <1>5, <3>1
      <4>2. f[j] = {}
        BY <2>2, <3>1, <4>1, Zenon DEF LiveTo
      <4> QED BY <3>1, <4>1, <4>2
    <3>2. CASE j # 0
      <4>1. j - 1 \in 0..m /\ j - 1 # m
        BY <1>3, <3>2
      <4>2. g[j - 1] = f[j - 1]
        BY <4>1
      <4>3. g[j] = Next1(f, j)
        <5>1. CASE j = m
          BY <5>1
        <5>2. CASE j # m
          <6>1. j \in 0..(m - 1)
            BY <1>3, <5>2
          <6>2. f[j] = Next1(f, j)
            BY <2>2, <3>2, <6>1, Zenon DEF LiveTo
          <6> QED BY <5>2, <6>2
        <5> QED BY <5>1, <5>2
      <4> QED BY <3>2, <4>2, <4>3
    <3> QED BY <3>1, <3>2
  <2>4. LiveTo(p, m, g)
    <3>1. g = [j \in 0..m |-> g[j]]
      OBVIOUS
    <3> HIDE DEF g
    <3> QED BY <2>3, <3>1, Zenon DEF LiveTo
  <2> QED BY <1>2, <2>4
<1> QED BY <1>4, <1>5

\* The lines that are live.
IsLive(p, live) ==
  /\ live \subseteq 1..Len(p)
  /\ \A j \in 1..Len(p) : j \in live <=> Groups!LiveLine(p, live, j)

\* so a line is live exactly when it is in Live(p).
LEMMA LiveIs ==
  ASSUME NEW p, Len(p) \in Nat
  PROVE  IsLive(p, Groups!Live(p))
<1> DEFINE f == CHOOSE f : LiveTo(p, Len(p), f)
<1>1. LiveTo(p, Len(p), f)
  BY LiveExists, Zenon
<1>2. Groups!Live(p) = f[Len(p)]
  BY Zenon DEF Groups!Live, LiveTo
<1> HIDE DEF f
<1>3. f[0] = {} /\ \A j \in 1..Len(p) :
        f[j] = f[j - 1] \cup {k \in {j} : Groups!LiveLine(p, f[j - 1], k)}
  <2>1. 0 \in 0..Len(p) /\ \A j \in 1..Len(p) : j \in 0..Len(p) /\ j # 0
    OBVIOUS
  <2> QED BY <1>1, <2>1, Zenon DEF LiveTo
<1>a. ASSUME NEW j \in 1..Len(p), NEW i
      PROVE  i \in f[j] <=> i \in f[j - 1] \/ (i = j /\ Groups!LiveLine(p, f[j - 1], j))
  <2>1. f[j] = f[j - 1] \cup {k \in {j} : Groups!LiveLine(p, f[j - 1], k)}
    BY <1>3
  <2> DEFINE e == f[j]
             d == f[j - 1]
             L(k) == Groups!LiveLine(p, d, k)
  <2>2. e = d \cup {k \in {j} : L(k)}
    BY <2>1
  <2> HIDE DEF e, d, L
  <2>3. i \in e <=> i \in d \/ (i = j /\ L(j))
    BY <2>2
  <2> QED BY <2>3 DEF e, d, L
<1>4. \A j \in 0..Len(p) : f[j] \subseteq 1..j
  <2> DEFINE Wrong == {j \in 0..Len(p) : ~(f[j] \subseteq 1..j)}
  <2>1. SUFFICES ASSUME NEW x \in Wrong PROVE FALSE
    OBVIOUS
  <2>0. Wrong \in SUBSET Nat
    OBVIOUS
  <2>2. PICK j \in Wrong : \A k \in Wrong : j <= k
    <3> HIDE DEF Wrong
    <3> QED BY <2>0, <2>1, LeastNumber
  <2>3. j # 0
    BY <1>3, <2>2
  <2>4. j \in 1..Len(p) /\ j - 1 \in 0..Len(p) /\ j - 1 \notin Wrong
    BY <2>2, <2>3
  <2>5. f[j - 1] \subseteq 1..(j - 1) /\ 1..(j - 1) \subseteq 1..j /\ j \in 1..j
    BY <2>4
  <2>6. f[j] \subseteq 1..j
    BY <1>a, <2>4, <2>5
  <2> QED BY <2>2, <2>6
<1>5. \A j \in 0..Len(p) : \A k \in 0..j : \A i \in 1..k : i \in f[j] <=> i \in f[k]
  <2> DEFINE Wrong == {j \in 0..Len(p) : ~ \A k \in 0..j : \A i \in 1..k : i \in f[j] <=> i \in f[k]}
  <2>1. SUFFICES ASSUME NEW x \in Wrong PROVE FALSE
    OBVIOUS
  <2>0. Wrong \in SUBSET Nat
    OBVIOUS
  <2>2. PICK j \in Wrong : \A k \in Wrong : j <= k
    <3> HIDE DEF Wrong
    <3> QED BY <2>0, <2>1, LeastNumber
  <2>a. PICK k \in 0..j : ~ \A i \in 1..k : i \in f[j] <=> i \in f[k]
    BY <2>2
  <2>3. PICK i \in 1..k : ~(i \in f[j] <=> i \in f[k])
    BY <2>a
  <2>4. j # k /\ j \in 0..Len(p)
    BY <2>2, <2>3
  <2>5. j \in 1..Len(p) /\ j - 1 \in 0..Len(p) /\ j - 1 \notin Wrong /\ k \in 0..(j - 1) /\ i # j
    BY <2>2, <2>3, <2>4, SMTT(30)
  <2>6. i \in f[j - 1] <=> i \in f[k]
    BY <2>3, <2>5
  <2>7. i \in f[j] <=> i \in f[j - 1]
    <3>1. j \in 1..Len(p) /\ i # j
      BY <2>5
    <3> QED BY <1>a, <3>1, Zenon
  <2> QED BY <2>3, <2>6, <2>7
<1> DEFINE live == f[Len(p)]
<1>6. live \subseteq 1..Len(p)
  BY <1>4
<1>7. ASSUME NEW j \in 1..Len(p)
      PROVE  j \in live <=> Groups!LiveLine(p, live, j)
  <2>1. /\ j \in 0..Len(p) /\ j - 1 \in 0..Len(p) /\ Len(p) \in 0..Len(p)
        /\ j \in 1..j /\ j \in Nat \ {0} /\ j \notin 1..(j - 1)
    OBVIOUS
  <2>2. j \in live <=> j \in f[j]
    BY <1>5, <2>1
  <2>3. j \in f[j] <=> Groups!LiveLine(p, f[j - 1], j)
    <3>1. j \notin f[j - 1]
      BY <1>4, <2>1
    <3> QED BY <1>a, <3>1
  <2>4. Agree(f[j - 1], live, j)
    <3>1. f[j - 1] \subseteq Nat \ {0} /\ live \subseteq Nat \ {0}
      BY <1>4, <2>1
    <3>2. \A k \in 1..(j - 1) : k \in f[j - 1] <=> k \in live
      BY <1>5, <2>1
    <3> QED BY <3>1, <3>2 DEF Agree
  <2>5. Groups!LiveLine(p, f[j - 1], j) <=> Groups!LiveLine(p, live, j)
    BY <2>1, <2>4, LiveLineBefore
  <2> QED BY <2>2, <2>3, <2>5
<1> QED BY <1>2, <1>6, <1>7 DEF IsLive

Changes(p, j, n) == p[j].kind \in {"define", "undef"} /\ p[j].name = n

\* What the definitions are behind a line.
LEMMA DefinitionNext ==
  ASSUME NEW p, NEW j \in Nat \ {0}, NEW live, live \subseteq Nat, NEW n,
         ~(j \in live /\ Changes(p, j, n))
  PROVE  Groups!Definition(p, live, j + 1, n) = Groups!Definition(p, live, j, n)
<1> DEFINE S == {k \in live : k < j /\ p[k].kind \in {"define", "undef"} /\ p[k].name = n}
           T == {k \in live : k < j + 1 /\ p[k].kind \in {"define", "undef"} /\ p[k].name = n}
<1>1. \A k \in live : k < j + 1 <=> k < j \/ k = j
  OBVIOUS
<1>2. /\ Groups!Definition(p, live, j, n) =
           IF S = {} \/ p[Groups!Max(S)].kind = "undef" THEN Undefined ELSE p[Groups!Max(S)].value
      /\ Groups!Definition(p, live, j + 1, n) =
           IF T = {} \/ p[Groups!Max(T)].kind = "undef" THEN Undefined ELSE p[Groups!Max(T)].value
  BY Zenon DEF Groups!Definition
<1>3. ASSUME NEW k
      PROVE  k \in S <=> k \in T
  <2>1. k \in live => (k < j + 1 <=> k < j \/ k = j)
    BY <1>1
  <2>2. k = j => ~(k \in live /\ p[k].kind \in {"define", "undef"} /\ p[k].name = n)
    BY DEF Changes
  <2> QED BY <2>1, <2>2, Zenon
<1> HIDE DEF S, T
<1>4. S = T
  BY <1>3
<1> QED BY <1>2, <1>4

\* A live #define or #undef of the name decides.
LEMMA DefinitionChanged ==
  ASSUME NEW p, NEW j \in Nat \ {0}, NEW live, live \subseteq Nat, NEW n,
         j \in live /\ Changes(p, j, n)
  PROVE  Groups!Definition(p, live, j + 1, n) = IF p[j].kind = "undef" THEN Undefined ELSE p[j].value
<1> DEFINE T == {k \in live : k < j + 1 /\ p[k].kind \in {"define", "undef"} /\ p[k].name = n}
<1>1. Groups!Definition(p, live, j + 1, n) =
        IF T = {} \/ p[Groups!Max(T)].kind = "undef" THEN Undefined ELSE p[Groups!Max(T)].value
  BY Zenon DEF Groups!Definition
<1>2. \A x \in T : x \in Nat /\ x < j + 1
  OBVIOUS
<1>3. j \in T
  <2>1. j < j + 1
    OBVIOUS
  <2> QED BY <2>1, Zenon DEF Changes
<1> HIDE DEF T
<1>4. T \subseteq Int /\ \A x \in T : j >= x
  BY <1>2
<1>5. Groups!Max(T) = j
  BY <1>3, <1>4, LatestIs
<1> QED BY <1>1, <1>3, <1>5

\* The table has what the lines before j define.
Tables(p, live, j, table) == \A n \in Name : table[n] = Groups!Definition(p, live, j, n)

\* A line that defines nothing leaves the table true of the next line,
LEMMA TablesKept ==
  ASSUME NEW p, NEW j \in Nat \ {0}, NEW live, live \subseteq Nat, NEW table,
         Tables(p, live, j, table), j \notin live \/ p[j].kind \notin {"define", "undef"}
  PROVE  Tables(p, live, j + 1, table)
<1>1. \A n : ~(j \in live /\ Changes(p, j, n))
  BY DEF Changes
<1>2. \A n : Groups!Definition(p, live, j + 1, n) = Groups!Definition(p, live, j, n)
  BY <1>1, DefinitionNext
<1> QED BY <1>2 DEF Tables

\* and one that does makes it so.
LEMMA TablesChanged ==
  ASSUME NEW p, NEW j \in Nat \ {0}, NEW live, live \subseteq Nat,
         NEW V, NEW table \in [Name -> V],
         Tables(p, live, j, table), j \in live, p[j].kind \in {"define", "undef"}, p[j].name \in Name,
         NEW v, v = IF p[j].kind = "undef" THEN Undefined ELSE p[j].value
  PROVE  Tables(p, live, j + 1, [table EXCEPT ![p[j].name] = v])
<1> DEFINE t == [table EXCEPT ![p[j].name] = v]
<1>1. t[p[j].name] = v /\ \A n \in Name : n # p[j].name => t[n] = table[n]
  OBVIOUS
<1> HIDE DEF t
<1>2. Groups!Definition(p, live, j + 1, p[j].name) = v
  <2>1. PICK n \in Name : n = p[j].name
    OBVIOUS
  <2>2. j \in live /\ Changes(p, j, n)
    BY <2>1 DEF Changes
  <2>3. Groups!Definition(p, live, j + 1, n) =
          IF p[j].kind = "undef" THEN Undefined ELSE p[j].value
    BY <2>2, DefinitionChanged
  <2> QED BY <2>1, <2>3
<1>3. \A n \in Name : n # p[j].name =>
        Groups!Definition(p, live, j + 1, n) = Groups!Definition(p, live, j, n)
  <2>1. ASSUME NEW n \in Name, n # p[j].name
        PROVE  Groups!Definition(p, live, j + 1, n) = Groups!Definition(p, live, j, n)
    <3>1. ~(j \in live /\ Changes(p, j, n))
      BY <2>1 DEF Changes
    <3> QED BY <3>1, DefinitionNext
  <2> QED BY <2>1
<1> QED BY <1>1, <1>2, <1>3 DEF Tables, t

\* A condition is found as the lines before it say.
LEMMA SelectedHere ==
  ASSUME NEW live, Tables(source[file], live, pos, macros), Current.name \in Name,
         Current.kind \in {"if", "ifdef", "ifndef", "elif"}
  PROVE  Groups!Selected(source[file], live, pos) <=> Selected
<1> DEFINE c == Current
           d == Groups!Definition(source[file], live, pos, c.name)
<1>1. d = macros[c.name] /\ c = source[file][pos]
  BY DEF Tables, Current
<1> DEFINE isDefined == c.name \in Predefined \/ d # Undefined
<1>2. Groups!Selected(source[file], live, pos) <=>
        CASE c.kind = "ifdef"  -> isDefined
          [] c.kind = "ifndef" -> ~isDefined
          [] c.kind = "else"   -> TRUE
          [] OTHER -> c.name \in Predefined \/ (c.name # Fn /\ d = True)
  BY <1>1, Zenon DEF Groups!Selected
<1>3. Selected <=>
        \/ c.kind = "ifdef" /\ isDefined
        \/ c.kind = "ifndef" /\ ~isDefined
        \/ c.kind \in {"if", "elif"} /\ (c.name \in Predefined \/ (c.name # Fn /\ d = True))
  BY <1>1 DEF Selected, IsDefined, Holds
<1>4. c.kind \in {"if", "ifdef", "ifndef", "elif"}
  OBVIOUS
<1> HIDE DEF c, d, isDefined
<1>5. CASE c.kind = "ifdef"
  BY <1>2, <1>3, <1>5
<1>6. CASE c.kind = "ifndef"
  BY <1>2, <1>3, <1>6
<1>7. CASE c.kind \in {"if", "elif"}
  BY <1>2, <1>3, <1>7 DEF isDefined
<1> QED BY <1>4, <1>5, <1>6, <1>7

HasElse(p, i, j) == \E b \in Groups!Heads(p, i, j) : p[b].kind = "else"

\* A section none of whose groups begins at line j.
LEMMA SectionKept ==
  ASSUME NEW p, NEW live, NEW j, NEW i, Groups!Heads(p, i, j + 1) = Groups!Heads(p, i, j)
  PROVE  /\ Groups!FirstSelected(p, live, i, j + 1) <=> Groups!FirstSelected(p, live, i, j)
         /\ Groups!NoneSelected(p, live, i, j + 1) <=> Groups!NoneSelected(p, live, i, j)
         /\ HasElse(p, i, j + 1) <=> HasElse(p, i, j)
BY Zenon DEF Groups!FirstSelected, Groups!NoneSelected, HasElse

\* The section that begins at line j.
LEMMA SectionBegun ==
  ASSUME NEW p, NEW live, NEW j \in Nat \ {0}, p[j].kind # "else"
  PROVE  /\ Groups!FirstSelected(p, live, j, j + 1) <=> Groups!Selected(p, live, j)
         /\ Groups!NoneSelected(p, live, j, j + 1) <=> ~Groups!Selected(p, live, j)
         /\ ~HasElse(p, j, j + 1)
<1>1. Groups!Heads(p, j, j + 1) = {j}
  BY DEF Groups!Heads
<1>2. Groups!Max({j}) = j
  <2>1. {j} \subseteq Int /\ j \in {j} /\ \A x \in {j} : j >= x
    OBVIOUS
  <2> DEFINE S == {j}
  <2>2. S \subseteq Int /\ j \in S /\ \A x \in S : j >= x
    BY <2>1
  <2> HIDE DEF S
  <2>3. Groups!Max(S) = j
    BY <2>2, LatestIs
  <2> QED BY <2>3 DEF S
<1>3. \A b : b \in {j} <=> b = j
  OBVIOUS
<1>4. Groups!FirstSelected(p, live, j, j + 1) <=> Groups!Selected(p, live, j)
  BY <1>1, <1>2, <1>3, Zenon DEF Groups!FirstSelected
<1>5. Groups!NoneSelected(p, live, j, j + 1) <=> ~Groups!Selected(p, live, j)
  BY <1>1, <1>3, Zenon DEF Groups!NoneSelected
<1>6. ~HasElse(p, j, j + 1)
  BY <1>1, <1>3, Zenon DEF HasElse
<1> QED BY <1>4, <1>5, <1>6

\* The section another group of which begins at line j.
LEMMA SectionContinued ==
  ASSUME NEW p, NEW live, NEW j \in Nat \ {0}, NEW i \in 1..(j - 1),
         Groups!Continues(p[j]), Groups!Opener(p, j) = i
  PROVE  /\ Groups!FirstSelected(p, live, i, j + 1) <=>
              Groups!NoneSelected(p, live, i, j) /\ Groups!Selected(p, live, j)
         /\ Groups!NoneSelected(p, live, i, j + 1) <=>
              Groups!NoneSelected(p, live, i, j) /\ ~Groups!Selected(p, live, j)
         /\ HasElse(p, i, j + 1) <=> HasElse(p, i, j) \/ p[j].kind = "else"
<1> DEFINE H == Groups!Heads(p, i, j)
           K == Groups!Heads(p, i, j + 1)
<1>1. \A b : b \in K <=> b \in H \/ b = j
  BY HeadsNext
<1>2. \A b \in H : b # j
  <2>1. Groups!Heads(p, i, j) \subseteq 1..(j - 1)
    BY HeadsTypes
  <2> QED BY <2>1
<1>3. Groups!Max(K) = j
  BY LastHead
<1>4. Groups!FirstSelected(p, live, i, j + 1) <=>
        \A b \in K : b = Groups!Max(K) <=> Groups!Selected(p, live, b)
  BY Zenon DEF Groups!FirstSelected
<1>5. /\ Groups!NoneSelected(p, live, i, j) <=> \A b \in H : ~Groups!Selected(p, live, b)
      /\ Groups!NoneSelected(p, live, i, j + 1) <=> \A b \in K : ~Groups!Selected(p, live, b)
  BY Zenon DEF Groups!NoneSelected
<1>6. /\ HasElse(p, i, j) <=> \E b \in H : p[b].kind = "else"
      /\ HasElse(p, i, j + 1) <=> \E b \in K : p[b].kind = "else"
  BY Zenon DEF HasElse
<1> HIDE DEF H, K
<1>7. Groups!FirstSelected(p, live, i, j + 1) <=>
        Groups!NoneSelected(p, live, i, j) /\ Groups!Selected(p, live, j)
  <2>1. Groups!FirstSelected(p, live, i, j + 1) <=>
          \A b \in K : b = j <=> Groups!Selected(p, live, b)
    BY <1>3, <1>4, Zenon
  <2>2. (\A b \in K : b = j <=> Groups!Selected(p, live, b)) <=>
          (\A b \in H : ~Groups!Selected(p, live, b)) /\ Groups!Selected(p, live, j)
    BY <1>1, <1>2
  <2> QED BY <1>5, <2>1, <2>2, Zenon
<1>8. Groups!NoneSelected(p, live, i, j + 1) <=>
        Groups!NoneSelected(p, live, i, j) /\ ~Groups!Selected(p, live, j)
  BY <1>1, <1>5, Zenon
<1>9. HasElse(p, i, j + 1) <=> HasElse(p, i, j) \/ p[j].kind = "else"
  BY <1>1, <1>6, Zenon
<1> QED BY <1>7, <1>8, <1>9

-----------------------------------------------------------------------------
\* What section m of the stack c records of the lines before j.
Mark(p, live, j, open, c, m) ==
  /\ c[m].active <=> \A l \in 1..m : Groups!FirstSelected(p, live, open[l], j)
  /\ c[m].parentActive => (c[m].taken <=> ~Groups!NoneSelected(p, live, open[m], j))
  /\ c[m].seenElse <=> HasElse(p, open[m], j)

Marked(p, live, j, open, c) ==
  /\ Len(c) = Len(open)
  /\ \A m \in 1..Len(open) : Mark(p, live, j, open, c, m)

\* The section m and those around it have no group that begins at line j.
Quiet(p, j, open, m) ==
  \A l \in 1..m : Groups!Heads(p, open[l], j + 1) = Groups!Heads(p, open[l], j)

LEMMA MarkKept ==
  ASSUME NEW p, NEW live, NEW j \in Nat \ {0}, NEW open, NEW c, NEW m \in Nat \ {0},
         Mark(p, live, j, open, c, m), Quiet(p, j, open, m),
         NEW open2, NEW c2, \A l \in 1..m : open2[l] = open[l], c2[m] = c[m]
  PROVE  Mark(p, live, j + 1, open2, c2, m)
<1>1. m \in 1..m
  OBVIOUS
<1>2. \A l \in 1..m :
        /\ Groups!FirstSelected(p, live, open2[l], j + 1) <=>
             Groups!FirstSelected(p, live, open[l], j)
        /\ Groups!NoneSelected(p, live, open2[l], j + 1) <=>
             Groups!NoneSelected(p, live, open[l], j)
        /\ HasElse(p, open2[l], j + 1) <=> HasElse(p, open[l], j)
  <2>1. ASSUME NEW l \in 1..m
        PROVE  /\ Groups!FirstSelected(p, live, open[l], j + 1) <=>
                    Groups!FirstSelected(p, live, open[l], j)
               /\ Groups!NoneSelected(p, live, open[l], j + 1) <=>
                    Groups!NoneSelected(p, live, open[l], j)
               /\ HasElse(p, open[l], j + 1) <=> HasElse(p, open[l], j)
    <3>1. Groups!Heads(p, open[l], j + 1) = Groups!Heads(p, open[l], j)
      BY DEF Quiet
    <3> QED BY <3>1, SectionKept, Zenon
  <2> QED BY <2>1, Zenon
<1> QED BY <1>1, <1>2, Zenon DEF Mark

\* A line at which no group of an open section begins.
LEMMA NothingBegins ==
  ASSUME NEW p, NEW j \in Nat \ {0}, NEW open, Sections(p, j, open), NEW m \in 1..Len(open),
         ~Groups!Continues(p[j]) \/ m < Len(open)
  PROVE  Quiet(p, j, open, m)
<1> SUFFICES ASSUME NEW l \in 1..m
             PROVE  Groups!Heads(p, open[l], j + 1) = Groups!Heads(p, open[l], j)
  BY DEF Quiet
<1>1. Len(open) \in Nat /\ l \in 1..Len(open)
  BY SectionsInner
<1>2. open[l] \in 1..(j - 1)
  BY <1>1, SectionsInner
<1>3. Groups!Continues(p[j]) => Groups!Opener(p, j) # open[l]
  <2> SUFFICES ASSUME Groups!Continues(p[j]) PROVE Groups!Opener(p, j) # open[l]
    OBVIOUS
  <2>1. l < Len(open) /\ Len(open) \in 1..Len(open) /\ open # <<>>
    BY <1>1
  <2>2. open[l] < open[Len(open)]
    BY <1>1, <2>1 DEF Sections
  <2>3. Groups!Opener(p, j) = open[Len(open)]
    BY <2>1, SectionsInner
  <2> QED BY <1>2, <2>2, <2>3
<1> QED BY <1>2, <1>3, HeadsNext

\* What a section says of its surroundings.
LEMMA AroundIsFirst ==
  ASSUME NEW p, NEW live, NEW j, NEW open, NEW c, Len(open) \in Nat,
         Marked(p, live, j, open, c), NEW m \in 0..Len(open)
  PROVE  (\A l \in 1..m : c[l].active) <=>
         (\A l \in 1..m : Groups!FirstSelected(p, live, open[l], j))
<1>1. ASSUME NEW l \in 1..m
      PROVE  /\ c[l].active <=> \A k \in 1..l : Groups!FirstSelected(p, live, open[k], j)
             /\ l \in 1..l /\ \A k \in 1..l : k \in 1..m
  BY DEF Marked, Mark
<1> QED BY <1>1, Zenon

\* A line is live when every section around it is in its selected group.
LEMMA LiveIsFirst ==
  ASSUME NEW p, NEW live, NEW j, NEW open, Sections(p, j, open)
  PROVE  Groups!LiveLine(p, live, j) <=>
         \A l \in 1..Len(open) : Groups!FirstSelected(p, live, open[l], j)
<1>1. Groups!Around(p, j) = {open[m] : m \in 1..Len(open)}
  BY DEF Sections
<1> QED BY <1>1, Zenon DEF Groups!LiveLine

\* The innermost flag tells whether a line is live.
LEMMA LiveIsActive ==
  ASSUME NEW p, NEW live, NEW j \in Nat \ {0}, NEW open, Sections(p, j, open),
         NEW c, Marked(p, live, j, open, c)
  PROVE  Groups!LiveLine(p, live, j) <=> IF open = <<>> THEN TRUE ELSE c[Len(open)].active
<1>1. CASE open = <<>>
  <2>1. 1..Len(open) = {}
    BY <1>1
  <2> QED BY <1>1, <2>1, LiveIsFirst, Zenon
<1>2. CASE open # <<>>
  <2>1. Len(open) \in 1..Len(open)
    BY <1>2, SectionsInner
  <2>2. c[Len(open)].active <=>
          \A l \in 1..Len(open) : Groups!FirstSelected(p, live, open[l], j)
    BY <2>1, Zenon DEF Marked, Mark
  <2> QED BY <1>2, <2>2, LiveIsFirst, Zenon
<1> QED BY <1>1, <1>2

\* A line inside a group, one that opens a section, one that begins the
\* next group and one that closes a section, each with its effect.
LEMMA StackKept ==
  ASSUME NEW p, NEW live, NEW j \in Nat \ {0}, NEW open, Sections(p, j, open),
         NEW c, Marked(p, live, j, open, c), ~Groups!Continues(p[j])
  PROVE  Marked(p, live, j + 1, open, c)
<1>1. ASSUME NEW m \in 1..Len(open)
      PROVE  Mark(p, live, j + 1, open, c, m)
  <2>1. Len(open) \in Nat /\ m \in Nat \ {0}
    BY SectionsInner
  <2>2. Quiet(p, j, open, m)
    BY NothingBegins
  <2>3. Mark(p, live, j, open, c, m)
    BY DEF Marked
  <2> QED BY <2>1, <2>2, <2>3, MarkKept
<1> QED BY <1>1 DEF Marked

\* What the record of the section that line j opens has to be.
OpenedWith(p, live, j, d) ==
  /\ d.active => Groups!LiveLine(p, live, j)
  /\ Groups!LiveLine(p, live, j) => (d.active <=> Groups!Selected(p, live, j))
  /\ d.taken <=> d.active
  /\ d.parentActive <=> Groups!LiveLine(p, live, j)
  /\ ~d.seenElse

LEMMA StackOpens ==
  ASSUME NEW p, NEW live, NEW j \in Nat \ {0}, NEW open, Sections(p, j, open),
         NEW c \in Seq(Conditional), Marked(p, live, j, open, c), Groups!Opens(p[j]),
         NEW d \in Conditional, OpenedWith(p, live, j, d)
  PROVE  Marked(p, live, j + 1, Append(open, j), Append(c, d))
<1> DEFINE n == Len(open)
           o == Append(open, j)
           c2 == Append(c, d)
<1>1. n \in Nat /\ open \in Seq(Nat) /\ Len(c) = n
  BY SectionsInner DEF Sections, Marked
<1>2. /\ Len(o) = n + 1 /\ Len(c2) = n + 1 /\ o[n + 1] = j /\ c2[n + 1] = d
      /\ \A m \in 1..n : o[m] = open[m] /\ c2[m] = c[m]
  BY <1>1
<1> HIDE DEF o, c2
<1>3. ~Groups!Continues(p[j]) /\ p[j].kind # "else"
  BY DEF Groups!Opens, Groups!Continues
<1>4. ASSUME NEW m \in 1..n
      PROVE  Mark(p, live, j + 1, o, c2, m)
  <2>1. m \in Nat \ {0} /\ \A l \in 1..m : l \in 1..n
    BY <1>1
  <2>2. \A l \in 1..m : o[l] = open[l]
    BY <1>2, <2>1
  <2>3. c2[m] = c[m]
    BY <1>2
  <2>4. Quiet(p, j, open, m)
    BY <1>3, NothingBegins
  <2>5. Mark(p, live, j, open, c, m)
    BY DEF Marked
  <2> QED BY <2>1, <2>2, <2>3, <2>4, <2>5, MarkKept
<1>5. /\ Groups!FirstSelected(p, live, j, j + 1) <=> Groups!Selected(p, live, j)
      /\ Groups!NoneSelected(p, live, j, j + 1) <=> ~Groups!Selected(p, live, j)
      /\ ~HasElse(p, j, j + 1)
  BY <1>3, SectionBegun
<1>6. ASSUME NEW m \in 1..n
      PROVE  Groups!FirstSelected(p, live, o[m], j + 1) <=> Groups!FirstSelected(p, live, open[m], j)
  <2>1. Quiet(p, j, open, m) /\ m \in 1..m
    BY <1>1, <1>3, NothingBegins
  <2>2. Groups!Heads(p, open[m], j + 1) = Groups!Heads(p, open[m], j)
    BY <2>1 DEF Quiet
  <2> QED BY <1>2, <2>2, SectionKept, ZenonT(30)
<1>7. Groups!LiveLine(p, live, j) <=> \A m \in 1..n : Groups!FirstSelected(p, live, o[m], j + 1)
  BY <1>6, LiveIsFirst
<1>8. (\A m \in 1..(n + 1) : Groups!FirstSelected(p, live, o[m], j + 1)) <=>
        Groups!LiveLine(p, live, j) /\ Groups!Selected(p, live, j)
  <2>1. \A m : m \in 1..(n + 1) <=> m \in 1..n \/ m = n + 1
    BY <1>1
  <2> QED BY <1>2, <1>5, <1>7, <2>1, Zenon
<1>9. Mark(p, live, j + 1, o, c2, n + 1)
  <2>1. d.active <=> Groups!LiveLine(p, live, j) /\ Groups!Selected(p, live, j)
    BY Zenon DEF OpenedWith
  <2>2. d.parentActive => (d.taken <=> ~Groups!NoneSelected(p, live, j, j + 1))
    BY <1>5, Zenon DEF OpenedWith
  <2>3. d.seenElse <=> HasElse(p, j, j + 1)
    BY <1>5, Zenon DEF OpenedWith
  <2> QED BY <1>2, <1>8, <2>1, <2>2, <2>3, Zenon DEF Mark
<1>10. \A m \in 1..Len(o) : m \in 1..n \/ m = n + 1
  BY <1>1, <1>2
<1>11. \A m \in 1..Len(o) : Mark(p, live, j + 1, o, c2, m)
  BY <1>4, <1>9, <1>10, Zenon
<1>12. Len(c2) = Len(o)
  BY <1>2
<1> QED BY <1>11, <1>12, Zenon DEF Marked, o, c2

\* What the record e of the section becomes at line j, where a group of it begins.
ContinuedWith(p, live, j, e, d) ==
  /\ d.parentActive <=> e.parentActive
  /\ d.active <=> e.parentActive /\ ~e.taken /\ Groups!Selected(p, live, j)
  /\ e.parentActive => (d.taken <=> e.taken \/ Groups!Selected(p, live, j))
  /\ d.seenElse <=> e.seenElse \/ p[j].kind = "else"

LEMMA StackContinues ==
  ASSUME NEW p, NEW live, NEW j \in Nat \ {0}, NEW open, Sections(p, j, open), open # <<>>,
         NEW c \in Seq(Conditional), Marked(p, live, j, open, c), Nested(c),
         Groups!Continues(p[j]),
         NEW d \in Conditional, ContinuedWith(p, live, j, c[Len(c)], d)
  PROVE  Marked(p, live, j + 1, open, [c EXCEPT ![Len(c)] = d])
<1> DEFINE n == Len(open)
           c2 == [c EXCEPT ![Len(c)] = d]
           i == open[n]
           e == c[n]
<1>1. n \in 1..n /\ n \in Nat \ {0} /\ Len(c) = n /\ Groups!Opener(p, j) = i /\ i \in 1..(j - 1)
  BY SectionsInner DEF Marked
<1>2. Len(c2) = n /\ c2[n] = d /\ \A m \in 1..(n - 1) : c2[m] = c[m]
  BY <1>1
<1> HIDE DEF c2
<1>3. ASSUME NEW m \in 1..(n - 1)
      PROVE  Quiet(p, j, open, m) /\ Mark(p, live, j + 1, open, c2, m)
  <2>1. m \in Nat \ {0} /\ m \in 1..n /\ m < n
    BY <1>1
  <2>2. c2[m] = c[m]
    BY <1>2
  <2>3. Quiet(p, j, open, m)
    BY <2>1, NothingBegins
  <2>4. Mark(p, live, j, open, c, m)
    BY <2>1 DEF Marked
  <2>5. \A l \in 1..m : open[l] = open[l]
    OBVIOUS
  <2> QED BY <2>1, <2>2, <2>3, <2>4, <2>5, MarkKept
<1>4. /\ Groups!FirstSelected(p, live, i, j + 1) <=>
           Groups!NoneSelected(p, live, i, j) /\ Groups!Selected(p, live, j)
      /\ Groups!NoneSelected(p, live, i, j + 1) <=>
           Groups!NoneSelected(p, live, i, j) /\ ~Groups!Selected(p, live, j)
      /\ HasElse(p, i, j + 1) <=> HasElse(p, i, j) \/ p[j].kind = "else"
  BY <1>1, SectionContinued
<1>5. e.parentActive <=> \A m \in 1..(n - 1) : Groups!FirstSelected(p, live, open[m], j)
  <2>1. e.parentActive <=> \A m \in 1..(n - 1) : c[m].active
    BY <1>1 DEF Nested
  <2>2. n - 1 \in 0..Len(open) /\ Len(open) \in Nat
    BY <1>1
  <2>3. (\A m \in 1..(n - 1) : c[m].active) <=>
        (\A m \in 1..(n - 1) : Groups!FirstSelected(p, live, open[m], j))
    BY <2>2, AroundIsFirst
  <2> QED BY <2>1, <2>3, Zenon
<1>6. e.parentActive <=> \A m \in 1..(n - 1) : Groups!FirstSelected(p, live, open[m], j + 1)
  <2>1. ASSUME NEW m \in 1..(n - 1)
        PROVE  Groups!FirstSelected(p, live, open[m], j + 1) <=>
               Groups!FirstSelected(p, live, open[m], j)
    <3>1. m \in 1..m
      BY <1>1
    <3>2. Groups!Heads(p, open[m], j + 1) = Groups!Heads(p, open[m], j)
      BY <1>3, <3>1 DEF Quiet
    <3> QED BY <3>2, SectionKept, Zenon
  <2> QED BY <1>5, <2>1, Zenon
<1>7. (\A m \in 1..n : Groups!FirstSelected(p, live, open[m], j + 1)) <=>
        e.parentActive /\ Groups!FirstSelected(p, live, i, j + 1)
  <2>1. \A m : m \in 1..n <=> m \in 1..(n - 1) \/ m = n
    BY <1>1
  <2> QED BY <1>6, <2>1, Zenon
<1>8. Mark(p, live, j, open, c, n) /\ ContinuedWith(p, live, j, e, d)
  BY <1>1 DEF Marked
<1>9. Mark(p, live, j + 1, open, c2, n)
  <2>1. e.parentActive => (e.taken <=> ~Groups!NoneSelected(p, live, i, j))
    BY <1>8, Zenon DEF Mark
  <2>2. e.seenElse <=> HasElse(p, i, j)
    BY <1>8, Zenon DEF Mark
  <2>3. d.active <=> \A m \in 1..n : Groups!FirstSelected(p, live, open[m], j + 1)
    BY <1>4, <1>7, <1>8, <2>1, Zenon DEF ContinuedWith
  <2>4. d.parentActive => (d.taken <=> ~Groups!NoneSelected(p, live, i, j + 1))
    BY <1>4, <1>8, <2>1, Zenon DEF ContinuedWith
  <2>5. d.seenElse <=> HasElse(p, i, j + 1)
    BY <1>4, <1>8, <2>2, Zenon DEF ContinuedWith
  <2> QED BY <1>2, <2>3, <2>4, <2>5, Zenon DEF Mark
<1>10. \A m \in 1..n : m \in 1..(n - 1) \/ m = n
  BY <1>1
<1>11. \A m \in 1..n : Mark(p, live, j + 1, open, c2, m)
  BY <1>3, <1>9, <1>10, Zenon
<1> QED BY <1>2, <1>11, Zenon DEF Marked, c2

LEMMA StackCloses ==
  ASSUME NEW p, NEW live, NEW j \in Nat \ {0}, NEW open, Sections(p, j, open), open # <<>>,
         NEW c \in Seq(Conditional), Marked(p, live, j, open, c), Groups!Closes(p[j])
  PROVE  Marked(p, live, j + 1, SubSeq(open, 1, Len(open) - 1), SubSeq(c, 1, Len(c) - 1))
<1> DEFINE n == Len(open) - 1
           o == SubSeq(open, 1, Len(open) - 1)
           c2 == SubSeq(c, 1, Len(c) - 1)
<1>1. n \in Nat /\ Len(open) = n + 1 /\ Len(c) = n + 1 /\ open \in Seq(Nat)
  <2>1. Len(open) \in 1..Len(open) /\ Len(open) \in Nat
    BY SectionsInner
  <2> QED BY <2>1 DEF Marked, Sections
<1>2. /\ Len(o) = n /\ Len(c2) = n
      /\ \A m \in 1..n : o[m] = open[m] /\ c2[m] = c[m]
  BY <1>1
<1> HIDE DEF o, c2
<1>3. ~Groups!Continues(p[j])
  BY DEF Groups!Closes, Groups!Continues
<1>4. ASSUME NEW m \in 1..n
      PROVE  Mark(p, live, j + 1, o, c2, m)
  <2>1. m \in Nat \ {0} /\ m \in 1..Len(open) /\ \A l \in 1..m : l \in 1..n
    BY <1>1
  <2>2. \A l \in 1..m : o[l] = open[l]
    BY <1>2, <2>1
  <2>3. c2[m] = c[m]
    BY <1>2
  <2>4. Quiet(p, j, open, m)
    BY <1>3, <2>1, NothingBegins
  <2>5. Mark(p, live, j, open, c, m)
    BY <2>1 DEF Marked
  <2> QED BY <2>1, <2>2, <2>3, <2>4, <2>5, MarkKept
<1>5. Len(c2) = Len(o) /\ \A m \in 1..Len(o) : Mark(p, live, j + 1, o, c2, m)
  BY <1>2, <1>4
<1> QED BY <1>5, Zenon DEF Marked, o, c2

\* The lines from c to the one before j are text that the driver has in w if it is live.
Chunk(p, live, j, c, w) ==
  /\ c \in 1..j
  /\ \A k \in c..(j - 1) :
       p[k].kind = "text" /\ (k \in live <=> Groups!LiveLine(p, live, j))
  /\ ~Groups!LiveLine(p, live, j) => w = <<>>
  /\ Groups!LiveLine(p, live, j) =>
       /\ Len(w) = j - c
       /\ \A k \in 1..(j - c) : w[k].tok = p[k + c - 1].tok /\ w[k].line = k + c - 1

LEMMA ChunkBegins ==
  ASSUME NEW p, NEW live, NEW j \in Nat \ {0}
  PROVE  Chunk(p, live, j, j, <<>>)
<1>1. j \in 1..j /\ j..(j - 1) = {} /\ Len(<<>>) = j - j /\ 1..(j - j) = {}
  OBVIOUS
<1> QED BY <1>1, Zenon DEF Chunk

LEMMA ChunkGrows ==
  ASSUME NEW p, NEW live, NEW j \in Nat \ {0}, NEW c, NEW w \in Seq(PPToken),
         Chunk(p, live, j, c, w),
         p[j].kind = "text", j \in live <=> Groups!LiveLine(p, live, j),
         Groups!LiveLine(p, live, j + 1) <=> Groups!LiveLine(p, live, j),
         NEW t \in PPToken, t.tok = p[j].tok, t.line = j
  PROVE  Chunk(p, live, j + 1, c, IF Groups!LiveLine(p, live, j) THEN Append(w, t) ELSE w)
<1>1. c \in 1..j /\ c \in 1..(j + 1) /\ c \in Nat \ {0}
  BY DEF Chunk
<1>2. \A k \in c..((j + 1) - 1) : k \in c..(j - 1) \/ k = j
  BY <1>1
<1>3. \A k \in c..((j + 1) - 1) :
        p[k].kind = "text" /\ (k \in live <=> Groups!LiveLine(p, live, j + 1))
  BY <1>2, Zenon DEF Chunk
<1>4. CASE ~Groups!LiveLine(p, live, j)
  BY <1>1, <1>3, <1>4, Zenon DEF Chunk
<1>5. CASE Groups!LiveLine(p, live, j)
  <2> DEFINE v == Append(w, t)
  <2>1. Len(w) = j - c /\ \A k \in 1..(j - c) : w[k].tok = p[k + c - 1].tok /\ w[k].line = k + c - 1
    BY <1>5, Zenon DEF Chunk
  <2>2. Len(v) = (j + 1) - c /\ v[(j + 1) - c] = t /\ \A k \in 1..(j - c) : v[k] = w[k]
    BY <1>1, <2>1, SMTT(30)
  <2> HIDE DEF v
  <2>3. \A k \in 1..((j + 1) - c) : k \in 1..(j - c) \/ k = (j + 1) - c
    BY <1>1
  <2>4. ((j + 1) - c) + c - 1 = j
    BY <1>1
  <2>5. \A k \in 1..((j + 1) - c) : v[k].tok = p[k + c - 1].tok /\ v[k].line = k + c - 1
    BY <2>1, <2>2, <2>3, <2>4, Zenon
  <2>6. Chunk(p, live, j + 1, c, v)
    BY <1>1, <1>3, <1>5, <2>2, <2>5, Zenon DEF Chunk
  <2> QED BY <1>5, <2>6 DEF v
<1> QED BY <1>4, <1>5

\* Nothing is defined in a chunk.
LEMMA DefinitionInChunk ==
  ASSUME NEW p, NEW live, live \subseteq Nat, NEW j \in Nat \ {0}, NEW c, NEW w,
         Chunk(p, live, j, c, w), NEW i \in c..(j - 1), NEW n
  PROVE  Groups!Definition(p, live, i, n) = Groups!Definition(p, live, j, n)
<1> DEFINE S == {k \in live : k < i /\ p[k].kind \in {"define", "undef"} /\ p[k].name = n}
           T == {k \in live : k < j /\ p[k].kind \in {"define", "undef"} /\ p[k].name = n}
<1>1. c \in 1..j /\ i \in Nat /\ i < j
  <2>1. c \in 1..j
    BY DEF Chunk
  <2> QED BY <2>1
<1>2. /\ Groups!Definition(p, live, i, n) =
           IF S = {} \/ p[Groups!Max(S)].kind = "undef" THEN Undefined ELSE p[Groups!Max(S)].value
      /\ Groups!Definition(p, live, j, n) =
           IF T = {} \/ p[Groups!Max(T)].kind = "undef" THEN Undefined ELSE p[Groups!Max(T)].value
  BY Zenon DEF Groups!Definition
<1>3. ASSUME NEW k \in live
      PROVE  k < i \/ ~(k < j) \/ p[k].kind = "text"
  <2>1. ~(k < i) /\ k < j => k \in c..(j - 1)
    BY <1>1
  <2> QED BY <2>1 DEF Chunk
<1>4. \A k \in live : k < i => k < j
  BY <1>1
<1>5. S = T
  <2>1. ASSUME NEW k
        PROVE  k \in S <=> k \in T
    <3>1. p[k].kind = "text" => p[k].kind \notin {"define", "undef"}
      OBVIOUS
    <3> QED BY <1>3, <1>4, <3>1, Zenon
  <2> HIDE DEF S, T
  <2> QED BY <2>1
<1> HIDE DEF S, T
<1> QED BY <1>2, <1>5

-----------------------------------------------------------------------------
\* Counting does not depend on where the numbers begin.
LEMMA ShiftedCount ==
  ASSUME NEW S, S \subseteq Int, IsFiniteSet(S), NEW d \in Int, NEW T,
         \A k : k \in T <=> k \in Int /\ k + d \in S
  PROVE  Cardinality(T) = Cardinality(S)
<1> DEFINE f == [k \in S |-> k - d]
<1>1. \A k \in S : k - d \in Int /\ (k - d) + d = k
  OBVIOUS
<1>2. \A k \in S : k - d \in T
  BY <1>1
<1>3. f \in [S -> T]
  BY <1>2
<1>4. \A a, b \in S : f[a] = f[b] => a = b
  <2>1. \A a, b \in S : a - d = b - d => a = b
    OBVIOUS
  <2> QED BY <2>1, Zenon
<1>5. \A t \in T : \E a \in S : f[a] = t
  <2>1. ASSUME NEW t \in T
        PROVE  \E a \in S : f[a] = t
    <3>1. t \in Int /\ t + d \in S /\ (t + d) - d = t
      OBVIOUS
    <3> QED BY <3>1
  <2> QED BY <2>1
<1> HIDE DEF f
<1>6. f \in Bijection(S, T)
  BY <1>3, <1>4, <1>5 DEF Bijection, Injection, Surjection, IsInjective
<1>7. ExistsBijection(S, T)
  BY <1>6, Zenon DEF ExistsBijection
<1> QED BY <1>7, FS_Bijection

LEMMA SameCounts ==
  ASSUME NEW p, NEW live, NEW j \in Nat \ {0}, NEW c,
         Groups!LiveLine(p, live, j), Chunk(p, live, j, c, pending),
         NEW a \in 1..(j - c), NEW b \in 1..(j - c), NEW t
  PROVE  Groups!LiveCount(p, live, t, a + c - 1, b + c - 1) = Count(t, a, b)
<1> DEFINE S == {k \in (a + c - 1)..(b + c - 1) : k \in live /\ p[k].tok = t}
           T == {k \in a..b : pending[k].tok = t}
           d == c - 1
<1>1. c \in Nat \ {0} /\ d \in Int /\ a \in Nat /\ b \in Nat
  BY DEF Chunk
<1>2. S \subseteq Int /\ IsFiniteSet(S)
  <2> DEFINE A == a + c - 1
             B == b + c - 1
  <2>1. A \in Int /\ B \in Int
    BY <1>1
  <2>2. IsFiniteSet(A..B)
    BY <2>1, FS_Interval
  <2>3. S \in SUBSET (A..B) /\ S \subseteq Int
    BY <2>1
  <2> QED BY <2>2, <2>3, FS_Subset
<1>3. ASSUME NEW k
      PROVE  k \in T <=> k \in Int /\ k + d \in S
  <2>1. CASE k \in Int
    <3>1. k \in a..b <=> k + d \in (a + c - 1)..(b + c - 1)
      BY <1>1, <2>1
    <3>2. ASSUME k \in a..b
          PROVE  k + d \in live /\ p[k + d].tok = pending[k].tok
      <4>1. k \in 1..(j - c) /\ k + d \in c..(j - 1) /\ k + d = k + c - 1
        BY <1>1, <3>2
      <4>2. k + d \in live
        BY <4>1 DEF Chunk
      <4>3. pending[k].tok = p[k + c - 1].tok
        BY <4>1 DEF Chunk
      <4> QED BY <4>1, <4>2, <4>3
    <3> QED BY <2>1, <3>1, <3>2, Zenon
  <2>2. CASE k \notin Int
    <3>1. k \notin a..b
      BY <1>1, <2>2
    <3> QED BY <2>2, <3>1
  <2> QED BY <2>1, <2>2
<1>4. /\ Groups!LiveCount(p, live, t, a + c - 1, b + c - 1) = Cardinality(S)
      /\ Count(t, a, b) = Cardinality(T)
  BY SameCount, Zenon DEF Groups!LiveCount, Count
<1> HIDE DEF S, T, d
<1>5. Cardinality(T) = Cardinality(S)
  BY <1>1, <1>2, <1>3, ShiftedCount
<1> QED BY <1>4, <1>5

\* The chunk before a line that is not text ends there.
LEMMA ChunkEnds ==
  ASSUME NEW p, NEW live, NEW j \in Nat \ {0}, NEW c, NEW w, Chunk(p, live, j, c, w),
         Len(p) \in Nat, j <= Len(p) + 1, j <= Len(p) => p[j].kind # "text",
         NEW i \in c..(j - 1)
  PROVE  Groups!ChunkEnd(p, i) = j - 1
<1> DEFINE S == {k \in i..Len(p) : \A l \in i..k : p[l].kind = "text"}
<1>1. c \in Nat \ {0} /\ i \in Nat /\ i <= j - 1
  <2>1. c \in 1..j
    BY DEF Chunk
  <2> QED BY <2>1
<1>2. S \subseteq Int
  BY <1>1
<1>3. j - 1 \in S
  <2>1. j - 1 \in i..Len(p) /\ \A l \in i..(j - 1) : l \in c..(j - 1)
    BY <1>1
  <2> QED BY <2>1 DEF Chunk
<1>4. \A k \in S : j - 1 >= k
  <2> SUFFICES ASSUME NEW k \in S, ~(j - 1 >= k) PROVE FALSE
    OBVIOUS
  <2>1. k \in Int /\ k <= Len(p) /\ \A l \in i..k : p[l].kind = "text"
    BY <1>1
  <2>2. j \in i..k /\ j <= Len(p)
    BY <1>1, <2>1
  <2> QED BY <2>1, <2>2
<1>5. Groups!ChunkEnd(p, i) = Groups!Max(S)
  BY Zenon DEF Groups!ChunkEnd
<1> HIDE DEF S
<1> QED BY <1>2, <1>3, <1>4, <1>5, LatestIs

\* Line j, or the end of p, ends the text before it.
EndsText(p, j) ==
  /\ Len(p) \in Nat /\ j <= Len(p) + 1
  /\ j <= Len(p) => p[j].kind # "text"

\* The invocation that waiting token a opens is closed or not as the text says.
LEMMA UnterminatedToken ==
  ASSUME TypeOK, NEW p, NEW live, live \subseteq Nat, NEW j \in Nat \ {0}, NEW c,
         Groups!LiveLine(p, live, j), Chunk(p, live, j, c, pending),
         Tables(p, live, j, macros), EndsText(p, j), NEW a \in 1..(j - c)
  PROVE  Groups!Unterminated(p, live, a + c - 1) <=>
           /\ macros[Fn] # Undefined
           /\ pending[a].tok = Open
           /\ \A b \in a..Len(pending) : Count(Open, a, b) > Count(Close, a, b)
<1> DEFINE i == a + c - 1
<1>1. c \in Nat \ {0} /\ i \in c..(j - 1) /\ Len(pending) = j - c /\ a \in Nat
  BY DEF Chunk
<1>2. pending[a].tok = p[i].tok /\ i \in live
  BY <1>1 DEF Chunk
<1>3. Groups!Definition(p, live, i, Fn) = macros[Fn]
  <2>0. PICK k \in c..(j - 1) : k = i
    BY <1>1
  <2>a. \A n : Groups!Definition(p, live, k, n) = Groups!Definition(p, live, j, n)
    BY DefinitionInChunk, ZenonT(30)
  <2>1. Groups!Definition(p, live, i, Fn) = Groups!Definition(p, live, j, Fn)
    BY <2>0, <2>a
  <2>2. Fn \in Name
    BY NamesAssumption
  <2> QED BY <2>1, <2>2, Zenon DEF Tables
<1>4. Groups!ChunkEnd(p, i) = j - 1
  BY <1>1, ChunkEnds DEF EndsText
<1>5. ASSUME NEW b \in a..(j - c)
      PROVE  /\ Groups!LiveCount(p, live, Open, i, b + c - 1) = Count(Open, a, b)
             /\ Groups!LiveCount(p, live, Close, i, b + c - 1) = Count(Close, a, b)
  <2>1. b \in 1..(j - c)
    BY <1>1
  <2> QED BY <2>1, SameCounts
<1>6. ASSUME NEW e \in i..(j - 1)
      PROVE  e - c + 1 \in a..(j - c) /\ e = (e - c + 1) + c - 1
  BY <1>1
<1>7. \A b \in a..(j - c) : b + c - 1 \in i..(j - 1)
  BY <1>1
<1> HIDE DEF i
<1>8. (\A e \in i..(j - 1) :
         Groups!LiveCount(p, live, Open, i, e) > Groups!LiveCount(p, live, Close, i, e)) <=>
      (\A b \in a..(j - c) : Count(Open, a, b) > Count(Close, a, b))
  <2>1. ASSUME \A e \in i..(j - 1) :
                 Groups!LiveCount(p, live, Open, i, e) > Groups!LiveCount(p, live, Close, i, e),
               NEW b \in a..(j - c)
        PROVE  Count(Open, a, b) > Count(Close, a, b)
    <3>1. Groups!LiveCount(p, live, Open, i, b + c - 1) >
            Groups!LiveCount(p, live, Close, i, b + c - 1)
      BY <1>7, <2>1
    <3> QED BY <1>5, <3>1
  <2>2. ASSUME \A b \in a..(j - c) : Count(Open, a, b) > Count(Close, a, b),
               NEW e \in i..(j - 1)
        PROVE  Groups!LiveCount(p, live, Open, i, e) > Groups!LiveCount(p, live, Close, i, e)
    <3>1. PICK b \in a..(j - c) : e = b + c - 1
      BY <1>6
    <3>2. Count(Open, a, b) > Count(Close, a, b)
      BY <2>2
    <3> QED BY <1>5, <3>1, <3>2
  <2> QED BY <2>1, <2>2
<1>9. Groups!Unterminated(p, live, i) <=>
        /\ i \in live /\ p[i].tok = Open /\ Groups!Definition(p, live, i, Fn) # Undefined
        /\ \A e \in i..(j - 1) :
             Groups!LiveCount(p, live, Open, i, e) > Groups!LiveCount(p, live, Close, i, e)
  BY <1>4, Zenon DEF Groups!Unterminated
<1>10. Groups!Unterminated(p, live, i) <=>
         /\ macros[Fn] # Undefined
         /\ pending[a].tok = Open
         /\ \A b \in a..(j - c) : Count(Open, a, b) > Count(Close, a, b)
  BY <1>2, <1>3, <1>8, <1>9, Zenon
<1> QED BY <1>1, <1>10, Zenon DEF i

\* Expansion fails when an invocation is left open.
LEMMA ExpandFailsIs ==
  ASSUME TypeOK, NEW p, NEW live, live \subseteq Nat, NEW j \in Nat \ {0}, NEW c,
         Chunk(p, live, j, c, pending), Tables(p, live, j, macros), EndsText(p, j)
  PROVE  ExpandFails <=> \E i \in c..(j - 1) : Groups!Unterminated(p, live, i)
<1>1. c \in Nat \ {0}
  BY DEF Chunk
<1>2. CASE ~Groups!LiveLine(p, live, j)
  <2>1. pending = <<>> /\ \A i \in c..(j - 1) : i \notin live
    BY <1>2, Zenon DEF Chunk
  <2>2. 1..Len(pending) = {}
    BY <2>1
  <2>3. ~ExpandFails
    BY <2>2, Zenon DEF ExpandFails
  <2>4. \A i \in c..(j - 1) : ~Groups!Unterminated(p, live, i)
    BY <2>1, Zenon DEF Groups!Unterminated
  <2> QED BY <2>3, <2>4
<1>3. CASE Groups!LiveLine(p, live, j)
  <2> DEFINE Bad(a) == /\ macros[Fn] # Undefined
                       /\ pending[a].tok = Open
                       /\ \A b \in a..Len(pending) : Count(Open, a, b) > Count(Close, a, b)
  <2>1. \A a \in 1..(j - c) : Groups!Unterminated(p, live, a + c - 1) <=> Bad(a)
    BY <1>3, UnterminatedToken
  <2>2. Len(pending) = j - c
    BY <1>3 DEF Chunk
  <2>3. ExpandFails <=> \E a \in 1..(j - c) : Bad(a)
    BY <2>2, Zenon DEF ExpandFails
  <2> HIDE DEF Bad
  <2>4. \A a \in 1..(j - c) : a + c - 1 \in c..(j - 1)
    BY <1>1
  <2>5. \A i \in c..(j - 1) : \E a \in 1..(j - c) : i = a + c - 1
    <3>1. ASSUME NEW i \in c..(j - 1)
          PROVE  i - c + 1 \in 1..(j - c) /\ i = (i - c + 1) + c - 1
      BY <1>1
    <3> QED BY <3>1, Zenon
  <2>6. ASSUME ExpandFails
        PROVE  \E i \in c..(j - 1) : Groups!Unterminated(p, live, i)
    <3>1. PICK a \in 1..(j - c) : Bad(a)
      BY <2>3, <2>6
    <3> QED BY <2>1, <2>4, <3>1
  <2>7. ASSUME NEW i \in c..(j - 1), Groups!Unterminated(p, live, i)
        PROVE  ExpandFails
    <3>1. PICK a \in 1..(j - c) : i = a + c - 1
      BY <2>5
    <3>2. Bad(a)
      BY <2>1, <2>7, <3>1, Zenon
    <3> QED BY <2>3, <3>2
  <2> QED BY <2>6, <2>7
<1> QED BY <1>2, <1>3

-----------------------------------------------------------------------------
\* A waiting token expands to what it means on its line.
LEMMA MeaningHere ==
  ASSUME NEW p, NEW live, live \subseteq Nat, NEW j \in Nat \ {0}, NEW c,
         Chunk(p, live, j, c, pending), Tables(p, live, j, macros),
         NEW i \in c..(j - 1), p[i].tok \in Token
  PROVE  Groups!Meaning(p, live, i) = ValueOf(p[i].tok)
<1> DEFINE t == p[i].tok
<1>1. \A n : Groups!Definition(p, live, i, n) = Groups!Definition(p, live, j, n)
  BY DefinitionInChunk
<1>2. \A n \in Name : Groups!Definition(p, live, i, n) = macros[n]
  BY <1>1, Zenon DEF Tables
<1>3. Groups!Meaning(p, live, i) =
        IF t = Open THEN Groups!Definition(p, live, i, Fn)
        ELSE IF t \in {Close, Fn} THEN Undefined
        ELSE Groups!Definition(p, live, i, t)
  BY Zenon DEF Groups!Meaning
<1>4. ValueOf(t) = CASE t \in Name /\ t # Fn -> macros[t]
                     [] t = Open -> macros[Fn]
                     [] OTHER -> Undefined
  BY Zenon DEF ValueOf
<1>5. /\ Fn \in Name /\ Open \notin Name /\ Close \notin Name /\ t \in Name \cup {Open, Close}
      /\ Open # Close
  BY NamesAssumption DEF Token, Open, Close
<1> HIDE DEF t
<1>6. ASSUME t = Open
      PROVE  Groups!Meaning(p, live, i) = ValueOf(t)
  BY <1>2, <1>3, <1>4, <1>5, <1>6, Zenon
<1>7. ASSUME t = Close \/ t = Fn
      PROVE  Groups!Meaning(p, live, i) = ValueOf(t)
  BY <1>3, <1>4, <1>5, <1>7, Zenon
<1>8. ASSUME t \in Name /\ t # Fn
      PROVE  Groups!Meaning(p, live, i) = ValueOf(t)
  BY <1>2, <1>3, <1>4, <1>5, <1>8, Zenon
<1>9. Groups!Meaning(p, live, i) = ValueOf(t)
  BY <1>5, <1>6, <1>7, <1>8, Zenon
<1> QED BY <1>9 DEF t

\* The text e is what the lines from c to the one before j mean.
Means(p, live, c, j, e) ==
  /\ Len(e) = j - c
  /\ \A k \in 1..(j - c) : /\ e[k].line = k + c - 1
                           /\ e[k].tok = p[k + c - 1].tok
                           /\ e[k].value = Groups!Meaning(p, live, k + c - 1)

\* What waits, expanded in a live chunk.
LEMMA ExpansionIs ==
  ASSUME TypeOK, NEW p \in Seq(Line), NEW live, live \subseteq Nat, NEW j \in 1..(Len(p) + 1), NEW c,
         Groups!LiveLine(p, live, j), Chunk(p, live, j, c, pending), Tables(p, live, j, macros)
  PROVE  Means(p, live, c, j, Expansion)
<1>1. c \in Nat \ {0} /\ j \in Nat \ {0} /\ Len(p) \in Nat /\ Len(pending) = j - c /\ c <= j
  <2>1. c \in 1..j /\ Len(pending) = j - c
    BY DEF Chunk
  <2> QED BY <2>1
<1>2. Len(Expansion) = j - c
  <2>1. Len(pending) \in Nat
    BY DEF TypeOK
  <2> QED BY <1>1, <2>1 DEF Expansion
<1>3. ASSUME NEW k \in 1..(j - c)
      PROVE  /\ Expansion[k].line = k + c - 1
             /\ Expansion[k].tok = p[k + c - 1].tok
             /\ Expansion[k].value = Groups!Meaning(p, live, k + c - 1)
  <2>1. PICK i \in c..(j - 1) : i = k + c - 1
    BY <1>1
  <2>2. pending[k].line = i /\ pending[k].tok = p[i].tok /\ p[i].kind = "text"
    BY <2>1 DEF Chunk
  <2>3. k \in 1..Len(pending)
    BY <1>1
  <2>4. Expansion[k] = [tok |-> pending[k].tok, file |-> pending[k].file,
                        line |-> pending[k].line, value |-> ValueOf(pending[k].tok)]
    BY <2>3, Zenon DEF Expansion
  <2>5. p[i].tok \in Token
    <3>1. p[i] \in Line
      BY <1>1
    <3> QED BY <2>2, <3>1, LineFields
  <2>6. Groups!Meaning(p, live, i) = ValueOf(p[i].tok)
    BY <1>1, <2>5, MeaningHere
  <2> QED BY <2>1, <2>2, <2>4, <2>6
<1> QED BY <1>2, <1>3, Zenon DEF Means

\* Two texts, the second of which begins at line c.
LEMMA TextsJoined ==
  ASSUME NEW p, NEW live, live \subseteq Nat, NEW j \in Nat \ {0}, NEW c \in 1..j,
         NEW S, NEW a \in Seq(S), NEW b \in Seq(S),
         Groups!IsText(p, live, c, a), Means(p, live, c, j, b),
         \A i \in c..(j - 1) : i \in live /\ p[i].kind = "text"
  PROVE  Groups!IsText(p, live, j, a \o b)
<1> DEFINE t == a \o b
           n == Len(a)
           m == j - c
           old == {i \in live : i < c /\ p[i].kind = "text"}
           new == {i \in live : i < j /\ p[i].kind = "text"}
<1>0. /\ Len(b) = m
      /\ \A k \in 1..m : /\ b[k].line = k + c - 1
                         /\ b[k].tok = p[k + c - 1].tok
                         /\ b[k].value = Groups!Meaning(p, live, k + c - 1)
  BY Zenon DEF Means
<1>1. n \in Nat /\ m \in Nat /\ c \in Nat \ {0}
  OBVIOUS
<1>2. /\ Len(t) = n + m /\ \A k \in 1..n : t[k] = a[k]
      /\ \A k \in 1..m : t[n + k] = b[k]
  <2>1. /\ Len(t) = Len(a) + Len(b)
        /\ \A k \in 1..Len(a) + Len(b) : t[k] = IF k <= Len(a) THEN a[k] ELSE b[k - Len(a)]
    BY ConcatProperties
  <2> HIDE DEF t
  <2>2. \A k \in 1..n : k \in 1..Len(a) + Len(b) /\ k <= Len(a)
    BY <1>0, <1>1
  <2>3. \A k \in 1..m : n + k \in 1..Len(a) + Len(b) /\ ~(n + k <= Len(a)) /\ (n + k) - Len(a) = k
    BY <1>0, <1>1
  <2>4. \A k \in 1..m : t[n + k] = b[k]
    <3>1. ASSUME NEW k \in 1..m
          PROVE  t[n + k] = b[k]
      <4>1. t[n + k] = b[(n + k) - Len(a)]
        BY <2>1, <2>3
      <4> QED BY <2>3, <4>1
    <3> QED BY <3>1
  <2>5. \A k \in 1..n : t[k] = a[k]
    BY <2>1, <2>2
  <2> QED BY <1>0, <2>1, <2>4, <2>5
<1> HIDE DEF t
<1>3. ASSUME NEW k \in 1..Len(t)
      PROVE  \/ k \in 1..n /\ t[k] = a[k]
             \/ k - n \in 1..m /\ t[k] = b[k - n]
  <2>1. k \in 1..n \/ (k - n \in 1..m /\ n + (k - n) = k)
    BY <1>1, <1>2
  <2> QED BY <1>2, <2>1
<1>4. /\ old = {a[k].line : k \in 1..n}
      /\ \A k, l \in 1..n : k < l => a[k].line < a[l].line
      /\ \A k \in 1..n : /\ a[k].tok = p[a[k].line].tok
                         /\ a[k].value = Groups!Meaning(p, live, a[k].line)
  BY Zenon DEF Groups!IsText
<1>5. \A i : i \in new <=> i \in old \/ i \in c..(j - 1)
  <2>1. \A i \in live : i < j <=> i < c \/ i \in c..(j - 1)
    OBVIOUS
  <2> QED BY <2>1
<1>6. new = {t[k].line : k \in 1..Len(t)}
  <2>1. ASSUME NEW i \in old
        PROVE  \E k \in 1..Len(t) : t[k].line = i
    <3>1. PICK k \in 1..n : a[k].line = i
      BY <1>4, Zenon
    <3>2. k \in 1..Len(t)
      BY <1>1, <1>2
    <3> QED BY <1>2, <3>1, <3>2
  <2>2. ASSUME NEW i \in c..(j - 1)
        PROVE  \E k \in 1..Len(t) : t[k].line = i
    <3>1. PICK k \in 1..m : k + c - 1 = i
      <4>1. i - c + 1 \in 1..m /\ (i - c + 1) + c - 1 = i
        BY <1>1
      <4> QED BY <4>1
    <3>2. n + k \in 1..Len(t) /\ t[n + k] = b[k]
      BY <1>1, <1>2
    <3>3. b[k].line = i
      BY <1>0, <3>1
    <3> QED BY <3>2, <3>3
  <2>3. ASSUME NEW k \in 1..Len(t)
        PROVE  t[k].line \in old \/ t[k].line \in c..(j - 1)
    <3>1. CASE k \in 1..n /\ t[k] = a[k]
      BY <1>4, <3>1, Zenon
    <3>2. CASE k - n \in 1..m /\ t[k] = b[k - n]
      <4>1. PICK l \in 1..m : l = k - n
        BY <3>2
      <4>2. b[l].line = l + c - 1 /\ l + c - 1 \in c..(j - 1)
        BY <1>0, <1>1
      <4> QED BY <3>2, <4>1, <4>2
    <3> QED BY <1>3, <3>1, <3>2
  <2> HIDE DEF old, new
  <2> QED BY <1>5, <2>1, <2>2, <2>3
<1>7. ASSUME NEW k \in 1..Len(t), NEW l \in 1..Len(t), k < l
      PROVE  t[k].line < t[l].line
  <2>1. CASE k \in 1..n /\ l \in 1..n
    <3>1. t[k] = a[k] /\ t[l] = a[l]
      BY <1>2, <2>1
    <3> QED BY <1>4, <1>7, <2>1, <3>1
  <2>2. CASE k \in 1..n /\ l \notin 1..n
    <3>1. t[k] = a[k]
      BY <1>2, <2>2
    <3>2. t[l] = b[l - n] /\ l - n \in 1..m
      BY <1>3, <2>2
    <3>3. PICK u : u = a[k].line
      OBVIOUS
    <3>4. u \in old
      <4>1. u \in {a[x].line : x \in 1..n}
        BY <2>2, <3>3, Zenon
      <4> QED BY <1>4, <4>1, Zenon
    <3>5. u \in Nat /\ u < c
      BY <3>4
    <3>6. PICK x \in 1..m : x = l - n
      BY <3>2
    <3>7. t[k].line = u /\ t[l].line = x + c - 1
      BY <1>0, <3>1, <3>2, <3>3, <3>6, Zenon
    <3>8. u < x + c - 1
      BY <1>1, <3>5, <3>6
    <3> QED BY <3>7, <3>8, Zenon
  <2>3. CASE k \notin 1..n
    <3>1. l \notin 1..n
      BY <1>1, <1>2, <1>7, <2>3
    <3>2. t[k] = b[k - n] /\ k - n \in 1..m
      BY <1>3, <2>3
    <3>3. t[l] = b[l - n] /\ l - n \in 1..m
      BY <1>3, <3>1
    <3>4. PICK x \in 1..m : x = k - n
      BY <3>2
    <3>5. PICK y \in 1..m : y = l - n
      BY <3>3
    <3>6. t[k].line = x + c - 1 /\ t[l].line = y + c - 1
      BY <1>0, <3>2, <3>3, <3>4, <3>5, Zenon
    <3>7. x + c - 1 < y + c - 1
      BY <1>1, <1>2, <1>7, <3>4, <3>5
    <3> QED BY <3>6, <3>7, Zenon
  <2> QED BY <2>1, <2>2, <2>3
<1>8. ASSUME NEW k \in 1..Len(t)
      PROVE  t[k].tok = p[t[k].line].tok /\ t[k].value = Groups!Meaning(p, live, t[k].line)
  <2>1. CASE k \in 1..n /\ t[k] = a[k]
    BY <1>4, <2>1, Zenon
  <2>2. CASE k - n \in 1..m /\ t[k] = b[k - n]
    <3>1. PICK x \in 1..m : x = k - n
      BY <2>2
    <3>2. /\ b[x].line = x + c - 1 /\ b[x].tok = p[x + c - 1].tok
          /\ b[x].value = Groups!Meaning(p, live, x + c - 1)
      BY <1>0, Zenon
    <3> QED BY <2>2, <3>1, <3>2, Zenon
  <2> QED BY <1>3, <2>1, <2>2
<1> HIDE DEF old
<1>9. Groups!IsText(p, live, j, t)
  BY <1>6, <1>7, <1>8, Zenon DEF Groups!IsText
<1> QED BY <1>9 DEF t

\* The text that waited goes out and is that of its lines.
LEMMA TextFlushed ==
  ASSUME TypeOK, NEW p \in Seq(Line), NEW live, live \subseteq Nat, NEW j \in 1..(Len(p) + 1), NEW c,
         Chunk(p, live, j, c, pending), Tables(p, live, j, macros),
         Groups!IsText(p, live, c, output)
  PROVE  Groups!IsText(p, live, j, output \o Expansion)
<1>1. c \in 1..j /\ j \in Nat \ {0}
  BY DEF Chunk
<1>2. CASE Groups!LiveLine(p, live, j)
  <2>1. output \in Seq(OutToken) /\ Expansion \in Seq(OutToken)
    BY ExpansionType DEF TypeOK
  <2>2. Means(p, live, c, j, Expansion)
    BY <1>2, ExpansionIs
  <2>3. \A i \in c..(j - 1) : i \in live /\ p[i].kind = "text"
    BY <1>2, Zenon DEF Chunk
  <2> DEFINE e == Expansion
  <2>4. e \in Seq(OutToken) /\ Means(p, live, c, j, e)
    BY <2>1, <2>2
  <2> HIDE DEF e
  <2>5. Groups!IsText(p, live, j, output \o e)
    BY <1>1, <2>1, <2>3, <2>4, TextsJoined
  <2> QED BY <2>5 DEF e
<1>3. CASE ~Groups!LiveLine(p, live, j)
  <2>1. pending = <<>> /\ \A i \in c..(j - 1) : i \notin live
    BY <1>3, Zenon DEF Chunk
  <2>2. output \o Expansion = output
    BY <2>1, ExpansionOfNothing
  <2>3. {i \in live : i < c /\ p[i].kind = "text"} = {i \in live : i < j /\ p[i].kind = "text"}
    <3>1. \A i \in live : i < c <=> i < j
      BY <1>1, <2>1
    <3> QED BY <3>1, Zenon
  <2>4. Groups!IsText(p, live, j, output)
    BY <2>3, Zenon DEF Groups!IsText
  <2> QED BY <2>2, <2>4
<1> QED BY <1>2, <1>3

\* A line that is no text adds none.
LEMMA TextKept ==
  ASSUME NEW p, NEW live, live \subseteq Nat, NEW j \in Nat \ {0}, p[j].kind # "text",
         NEW t, Groups!IsText(p, live, j, t)
  PROVE  Groups!IsText(p, live, j + 1, t)
<1>1. \A i \in live : i < j + 1 <=> i < j \/ i = j
  OBVIOUS
<1>2. {i \in live : i < j + 1 /\ p[i].kind = "text"} = {i \in live : i < j /\ p[i].kind = "text"}
  BY <1>1, Zenon
<1> QED BY <1>2, Zenon DEF Groups!IsText

\* No line before c is wrong.
Sound(p, live, c) ==
  \A k \in 1..(c - 1) : Groups!Placed(p, k) /\ ~Groups!Rejected(p, live, k)

\* How far the driver is in the text p: open is where its sections opened, c
\* the first line whose text still waits.
At(p, live, open, c) ==
  /\ p = source[file] /\ IsLive(p, live)
  /\ Sections(p, pos, open) /\ Marked(p, live, pos, open, conds)
  /\ Chunk(p, live, pos, c, pending) /\ Sound(p, live, c)
  /\ Tables(p, live, pos, macros) /\ Groups!IsText(p, live, c, output)

\* When a line of each kind is wrong.
LEMMA RejectedIs ==
  ASSUME NEW p, NEW live, NEW j
  PROVE  /\ p[j].kind = "text" => (Groups!Rejected(p, live, j) <=> Groups!Unterminated(p, live, j))
         /\ p[j].kind \in {"ifdef", "ifndef"} => (Groups!Rejected(p, live, j) <=> p[j].name = Malformed)
         /\ p[j].kind \in {"if", "elif"} =>
              (Groups!Rejected(p, live, j) <=> Groups!Evaluated(p, live, j) /\ p[j].name = Malformed)
         /\ p[j].kind \in {"else", "endif"} => (Groups!Rejected(p, live, j) <=> p[j].extra)
         /\ p[j].kind = "define" =>
              (Groups!Rejected(p, live, j) <=>
                 j \in live /\ \/ p[j].name \in Predefined \cup {Malformed}
                               \/ Groups!Definition(p, live, j, p[j].name)
                                    \notin {Undefined, p[j].value})
         /\ p[j].kind = "undef" =>
              (Groups!Rejected(p, live, j) <=> j \in live /\ p[j].name \in Predefined \cup {Malformed})
         /\ p[j].kind \in {"error", "unsupported"} => (Groups!Rejected(p, live, j) <=> j \in live)
         /\ p[j].kind \in {"null", "once", "include"} => ~Groups!Rejected(p, live, j)
<1> DEFINE k == p[j].kind
<1>1. ASSUME k \in {"null", "once", "include"}
      PROVE  ~Groups!Rejected(p, live, j)
  <2>1. k \notin {"text", "ifdef", "ifndef", "if", "elif", "else", "endif", "define", "undef", "error", "unsupported"}
    BY <1>1
  <2> QED BY <2>1, Zenon DEF Groups!Rejected
<1>2. ASSUME k = "text" PROVE Groups!Rejected(p, live, j) <=> Groups!Unterminated(p, live, j)
  <2>1. k \notin {"ifdef", "ifndef", "if", "elif", "else", "endif", "define", "undef", "error", "unsupported"}
    BY <1>2
  <2> QED BY <1>2, <2>1, Zenon DEF Groups!Rejected
<1>3. ASSUME k \in {"ifdef", "ifndef"} PROVE Groups!Rejected(p, live, j) <=> p[j].name = Malformed
  <2>1. k \notin {"text", "if", "elif", "else", "endif", "define", "undef", "error", "unsupported"}
    BY <1>3
  <2> QED BY <1>3, <2>1, Zenon DEF Groups!Rejected
<1>4. ASSUME k \in {"if", "elif"}
      PROVE  Groups!Rejected(p, live, j) <=> Groups!Evaluated(p, live, j) /\ p[j].name = Malformed
  <2>1. k \notin {"text", "ifdef", "ifndef", "else", "endif", "define", "undef", "error", "unsupported"}
    BY <1>4
  <2> QED BY <1>4, <2>1, Zenon DEF Groups!Rejected
<1>5. ASSUME k \in {"else", "endif"} PROVE Groups!Rejected(p, live, j) <=> p[j].extra
  <2>1. k \notin {"text", "ifdef", "ifndef", "if", "elif", "define", "undef", "error", "unsupported"}
    BY <1>5
  <2> QED BY <1>5, <2>1, Zenon DEF Groups!Rejected
<1>6. ASSUME k = "define"
      PROVE  Groups!Rejected(p, live, j) <=>
                 j \in live /\ \/ p[j].name \in Predefined \cup {Malformed}
                               \/ Groups!Definition(p, live, j, p[j].name)
                                    \notin {Undefined, p[j].value}
  <2>1. k \notin {"text", "ifdef", "ifndef", "if", "elif", "else", "endif", "undef", "error", "unsupported"}
    BY <1>6
  <2> QED BY <1>6, <2>1, Zenon DEF Groups!Rejected
<1>7. ASSUME k = "undef"
      PROVE  Groups!Rejected(p, live, j) <=> j \in live /\ p[j].name \in Predefined \cup {Malformed}
  <2>1. k \notin {"text", "ifdef", "ifndef", "if", "elif", "else", "endif", "define", "error", "unsupported"}
    BY <1>7
  <2> QED BY <1>7, <2>1, Zenon DEF Groups!Rejected
<1>8. ASSUME k \in {"error", "unsupported"} PROVE Groups!Rejected(p, live, j) <=> j \in live
  <2>1. k \notin {"text", "ifdef", "ifndef", "if", "elif", "else", "endif", "define", "undef"}
    BY <1>8
  <2> QED BY <1>8, <2>1, Zenon DEF Groups!Rejected
<1> QED BY <1>1, <1>2, <1>3, <1>4, <1>5, <1>6, <1>7, <1>8, Zenon

\* The stack of the driver is as high as the sections are many, and its top
\* tells whether the line is live.
LEMMA AtFacts ==
  ASSUME Inv, NEW p, NEW live, NEW open, NEW c, At(p, live, open, c)
  PROVE  /\ p \in Seq(Line) /\ Len(p) \in Nat /\ live \subseteq Nat /\ pos \in 1..(Len(p) + 1)
         /\ Groups!LiveLine(p, live, pos) <=> Active
         /\ pos <= Len(p) => (pos \in live <=> Active)
         /\ conds = <<>> <=> open = <<>>
         /\ conds \in Seq(Conditional) /\ Nested(conds)
<1>1. p \in Seq(Line) /\ p = source[file]
  BY DEF At, Inv, TypeOK
<1>2. Len(p) \in Nat /\ pos \in 1..(Len(p) + 1) /\ conds \in Seq(Conditional)
  BY <1>1 DEF Inv, TypeOK
<1>3. IsLive(p, live) /\ Sections(p, pos, open) /\ Marked(p, live, pos, open, conds)
  BY Zenon DEF At
<1>4. live \subseteq Nat
  <2>1. live \subseteq 1..Len(p)
    BY <1>3, Zenon DEF IsLive
  <2> QED BY <1>2, <2>1
<1>5. open \in Seq(Nat) /\ Len(conds) = Len(open)
  BY <1>3, Zenon DEF Marked, Sections
<1>6. conds = <<>> <=> open = <<>>
  BY <1>2, <1>5
<1>7. Groups!LiveLine(p, live, pos) <=> IF open = <<>> THEN TRUE ELSE conds[Len(open)].active
  BY <1>2, <1>3, LiveIsActive
<1>8. Groups!LiveLine(p, live, pos) <=> Active
  BY <1>5, <1>6, <1>7, Zenon DEF Active, Top
<1>9. pos <= Len(p) => (pos \in live <=> Active)
  <2>1. pos <= Len(p) => pos \in 1..Len(p)
    BY <1>2
  <2> QED BY <1>3, <1>8, <2>1, Zenon DEF IsLive
<1> QED BY <1>1, <1>2, <1>4, <1>6, <1>8, <1>9 DEF Inv, SectionsNest

\* A line that is wrong spoils the program.
LEMMA NotAccepted ==
  ASSUME NEW p, NEW live, NEW k \in 1..Len(p), ~Groups!Placed(p, k) \/ Groups!Rejected(p, live, k)
  PROVE  ~Groups!Accepted(p, live)
BY Zenon DEF Groups!Accepted

\* The text that waits is put out when it is right, and is then found sound.
LEMMA FlushedAt ==
  ASSUME Inv, NEW p, NEW live, NEW open, NEW c, At(p, live, open, c), AtDirective \/ AtEnd
  PROVE  /\ ExpandFails => ~Groups!Accepted(p, live)
         /\ ~ExpandFails => /\ Groups!IsText(p, live, pos, output \o Expansion)
                            /\ Sound(p, live, pos)
<1>1. /\ p \in Seq(Line) /\ Len(p) \in Nat /\ live \subseteq Nat /\ pos \in 1..(Len(p) + 1)
      /\ pos \in Nat \ {0} /\ TypeOK
  <2>1. p \in Seq(Line) /\ Len(p) \in Nat /\ live \subseteq Nat /\ pos \in 1..(Len(p) + 1)
    BY AtFacts
  <2> QED BY <2>1 DEF Inv
<1>2. /\ Chunk(p, live, pos, c, pending) /\ Tables(p, live, pos, macros) /\ Sound(p, live, c)
      /\ Groups!IsText(p, live, c, output) /\ p = source[file]
  BY Zenon DEF At
<1>3. EndsText(p, pos)
  <2>1. pos <= Len(p) => p[pos].kind # "text"
    BY <1>1, <1>2 DEF AtDirective, AtLine, AtEnd, Current
  <2> QED BY <1>1, <2>1 DEF EndsText
<1>4. ExpandFails <=> \E i \in c..(pos - 1) : Groups!Unterminated(p, live, i)
  BY <1>1, <1>2, <1>3, ExpandFailsIs
<1>5. \A i \in c..(pos - 1) : i \in 1..Len(p) /\ p[i].kind = "text"
  <2>1. c \in 1..pos /\ \A i \in c..(pos - 1) : p[i].kind = "text"
    BY <1>2 DEF Chunk
  <2> QED BY <1>1, <2>1
<1>6. \A i \in c..(pos - 1) : /\ Groups!Placed(p, i)
                              /\ Groups!Rejected(p, live, i) <=> Groups!Unterminated(p, live, i)
  <2>1. ASSUME NEW i \in c..(pos - 1)
        PROVE  /\ Groups!Placed(p, i)
               /\ Groups!Rejected(p, live, i) <=> Groups!Unterminated(p, live, i)
    <3>1. p[i].kind = "text"
      BY <1>5
    <3>2. ~Groups!Closes(p[i]) /\ ~Groups!Continues(p[i])
      BY <3>1 DEF Groups!Closes, Groups!Continues
    <3>3. Groups!Placed(p, i)
      BY <3>2, Zenon DEF Groups!Placed
    <3> QED BY <3>1, <3>3, RejectedIs, Zenon
  <2> QED BY <2>1
<1>7. ASSUME ExpandFails
      PROVE  ~Groups!Accepted(p, live)
  <2>1. PICK i \in c..(pos - 1) : Groups!Unterminated(p, live, i)
    BY <1>4, <1>7
  <2>2. i \in 1..Len(p) /\ Groups!Rejected(p, live, i)
    BY <1>5, <1>6, <2>1
  <2> QED BY <2>2, NotAccepted, Zenon
<1>8. ASSUME ~ExpandFails
      PROVE  Sound(p, live, pos)
  <2>1. ASSUME NEW k \in 1..(pos - 1)
        PROVE  Groups!Placed(p, k) /\ ~Groups!Rejected(p, live, k)
    <3>1. k \in 1..(c - 1) \/ k \in c..(pos - 1)
      <4>1. c \in 1..pos
        BY <1>2, Zenon DEF Chunk
      <4> QED BY <1>1, <4>1
    <3>2. CASE k \in 1..(c - 1)
      BY <1>2, <3>2, Zenon DEF Sound
    <3>3. CASE k \in c..(pos - 1)
      BY <1>4, <1>6, <1>8, <3>3, Zenon
    <3> QED BY <3>1, <3>2, <3>3
  <2> QED BY <2>1, Zenon DEF Sound
<1>9. Groups!IsText(p, live, pos, output \o Expansion)
  BY <1>1, <1>2, TextFlushed
<1> QED BY <1>7, <1>8, <1>9

\* A directive that is right has been carried out.
LEMMA DirectiveMoves ==
  ASSUME Inv, NEW p, NEW live, NEW open, NEW c, At(p, live, open, c), AtDirective, ~ExpandFails,
         Flush, pos' = pos + 1, UNCHANGED <<source, file>>,
         NEW open2, Sections(p, pos + 1, open2), Marked(p, live, pos + 1, open2, conds'),
         Tables(p, live, pos + 1, macros'),
         Groups!Placed(p, pos), ~Groups!Rejected(p, live, pos)
  PROVE  \E d : At(p, live, open2, d)'
<1>1. PICK n : n = pos + 1
  OBVIOUS
<1>2. /\ Groups!IsText(p, live, pos, output \o Expansion) /\ Sound(p, live, pos)
      /\ pos \in Nat \ {0} /\ n \in Nat \ {0} /\ live \subseteq Nat
      /\ p = source[file] /\ IsLive(p, live)
  <2>1. Groups!IsText(p, live, pos, output \o Expansion) /\ Sound(p, live, pos)
    BY FlushedAt
  <2>2. pos \in 1..(Len(p) + 1) /\ Len(p) \in Nat /\ live \subseteq Nat
    BY AtFacts
  <2>3. p = source[file] /\ IsLive(p, live)
    BY Zenon DEF At
  <2> QED BY <1>1, <2>1, <2>2, <2>3
<1>3. p[pos].kind # "text"
  BY <1>2 DEF AtDirective, Current
<1>4. output' = output \o Expansion /\ pending' = <<>>
  BY Zenon DEF Flush
<1>5. Groups!IsText(p, live, n, output')
  <2>1. Groups!IsText(p, live, pos, output')
    BY <1>2, <1>4, Zenon
  <2>2. Groups!IsText(p, live, pos + 1, output')
    BY <1>2, <1>3, <2>1, TextKept
  <2> QED BY <1>1, <2>2, Zenon
<1>6. Chunk(p, live, n, n, pending')
  <2>1. Chunk(p, live, n, n, <<>>)
    BY <1>2, ChunkBegins
  <2> QED BY <1>4, <2>1, Zenon
<1>7. Sound(p, live, n)
  <2>1. ASSUME NEW k \in 1..(n - 1)
        PROVE  Groups!Placed(p, k) /\ ~Groups!Rejected(p, live, k)
    <3>1. k \in 1..(pos - 1) \/ k = pos
      BY <1>1, <1>2
    <3> QED BY <1>2, <3>1, Zenon DEF Sound
  <2> QED BY <2>1, Zenon DEF Sound
<1>8. p = source'[file'] /\ pos' = n
  BY <1>1, <1>2, Zenon
<1>9. /\ Sections(p, pos', open2) /\ Marked(p, live, pos', open2, conds') /\ Tables(p, live, pos', macros')
      /\ Chunk(p, live, pos', n, pending')
  BY <1>1, <1>6, <1>8, Zenon
<1>10. At(p, live, open2, n)'
  BY <1>2, <1>5, <1>7, <1>8, <1>9, Zenon DEF At
<1> QED BY <1>10, Zenon

\* The line the driver is at, when it is a directive.
LEMMA Standing ==
  ASSUME Inv, NEW p, NEW live, NEW open, NEW c, At(p, live, open, c), AtLine
  PROVE  /\ pos \in 1..Len(p) /\ pos \in Nat \ {0} /\ Current = p[pos] /\ p[pos] \in Line
         /\ Sections(p, pos, open) /\ Marked(p, live, pos, open, conds) /\ Tables(p, live, pos, macros)
         /\ pos \in live <=> Active
         /\ live \subseteq Nat
<1>1. p \in Seq(Line) /\ Len(p) \in Nat /\ pos \in 1..(Len(p) + 1) /\ live \subseteq Nat
  BY AtFacts
<1>2. p = source[file]
  BY Zenon DEF At
<1>3. pos \in 1..Len(p) /\ pos \in Nat \ {0} /\ Current = p[pos]
  BY <1>1, <1>2 DEF AtLine, Current
<1>4. pos \in live <=> Active
  <2>1. pos <= Len(p)
    BY <1>3
  <2> QED BY <2>1, AtFacts
<1>5. Sections(p, pos, open) /\ Marked(p, live, pos, open, conds) /\ Tables(p, live, pos, macros)
  BY Zenon DEF At
<1> QED BY <1>1, <1>3, <1>4, <1>5

\* What an action does with the line it is at: it moves behind a right one,
\* and fails on a wrong one.
Judged(p, live) ==
  \/ \E open, c : At(p, live, open, c)' /\ outcome' = outcome
  \/ outcome' = "failed" /\ ~Groups!Accepted(p, live)

\* A text line is only remembered.
LEMMA TextJudged ==
  ASSUME Inv, NEW p, NEW live, NEW open, NEW c, At(p, live, open, c), ReadText
  PROVE  Judged(p, live)
<1>1. AtLine /\ Current.kind = "text" /\ pos' = pos + 1
      /\ UNCHANGED <<source, file, outcome, macros, output, conds>>
  BY Zenon DEF ReadText, Proceed, shared
<1>2. /\ pos \in 1..Len(p) /\ pos \in Nat \ {0} /\ Current = p[pos] /\ p[pos] \in Line
      /\ Sections(p, pos, open) /\ Marked(p, live, pos, open, conds) /\ Tables(p, live, pos, macros)
      /\ pos \in live <=> Active
      /\ live \subseteq Nat
  BY <1>1, Standing
<1>3. /\ p = source[file] /\ IsLive(p, live) /\ Chunk(p, live, pos, c, pending) /\ Sound(p, live, c)
      /\ Groups!IsText(p, live, c, output)
  BY Zenon DEF At
<1>4. p[pos].kind = "text" /\ ~Groups!Opens(p[pos]) /\ ~Groups!Closes(p[pos]) /\ ~Groups!Continues(p[pos])
  BY <1>1, <1>2 DEF Groups!Opens, Groups!Closes, Groups!Continues
<1>5. Sections(p, pos + 1, open) /\ Marked(p, live, pos + 1, open, conds) /\ Tables(p, live, pos + 1, macros)
  <2>1. Sections(p, pos + 1, open)
    BY <1>2, <1>4, SectionsKept
  <2>2. Marked(p, live, pos + 1, open, conds)
    BY <1>2, <1>4, StackKept
  <2>3. Tables(p, live, pos + 1, macros)
    BY <1>2, <1>4, TablesKept
  <2> QED BY <2>1, <2>2, <2>3
<1>6. Groups!LiveLine(p, live, pos + 1) <=> Groups!LiveLine(p, live, pos)
  <2>1. pos + 1 \in Nat \ {0}
    BY <1>2
  <2>2. Groups!LiveLine(p, live, pos + 1) <=> IF open = <<>> THEN TRUE ELSE conds[Len(open)].active
    BY <1>5, <2>1, LiveIsActive
  <2>3. Groups!LiveLine(p, live, pos) <=> IF open = <<>> THEN TRUE ELSE conds[Len(open)].active
    BY <1>2, LiveIsActive
  <2> QED BY <2>2, <2>3
<1>7. Groups!LiveLine(p, live, pos) <=> Active
  BY AtFacts
<1> DEFINE t == [tok |-> Current.tok, file |-> file, line |-> pos]
<1>8. t \in PPToken /\ t.tok = p[pos].tok /\ t.line = pos /\ pending \in Seq(PPToken)
  <2>1. p[pos].tok \in Token
    BY <1>2, <1>4, LineFields
  <2>2. pos \in Nat /\ file \in File /\ pending \in Seq(PPToken)
    BY <1>2 DEF Inv, TypeOK
  <2> QED BY <1>2, <2>1, <2>2 DEF PPToken
<1>9. pending' = IF Groups!LiveLine(p, live, pos) THEN Append(pending, t) ELSE pending
  BY <1>7, Zenon DEF ReadText
<1> HIDE DEF t
<1>10. Chunk(p, live, pos + 1, c, pending')
  <2>1. Chunk(p, live, pos + 1, c, IF Groups!LiveLine(p, live, pos) THEN Append(pending, t) ELSE pending)
    <3>1. pos \in live <=> Groups!LiveLine(p, live, pos)
      BY <1>2, <1>7
    <3> QED BY <1>2, <1>3, <1>4, <1>6, <1>8, <3>1, ChunkGrows
  <2> QED BY <1>9, <2>1, Zenon
<1>11. At(p, live, open, c)'
  <2>1. p = source'[file'] /\ conds' = conds /\ macros' = macros /\ output' = output
    BY <1>1, <1>3, Zenon
  <2>2. /\ Sections(p, pos', open) /\ Marked(p, live, pos', open, conds') /\ Tables(p, live, pos', macros')
        /\ Chunk(p, live, pos', c, pending') /\ Groups!IsText(p, live, c, output')
    BY <1>1, <1>3, <1>5, <1>10, <2>1, Zenon
  <2> QED BY <1>3, <2>1, <2>2, Zenon DEF At
<1> QED BY <1>1, <1>11, Zenon DEF Judged

\* An error is found only at a line that is wrong.
LEMMA FailJudged ==
  ASSUME Inv, NEW p, NEW live, NEW open, NEW c, At(p, live, open, c), AtLine, Fail,
         ~Groups!Placed(p, pos) \/ Groups!Rejected(p, live, pos)
  PROVE  Judged(p, live)
<1>1. pos \in 1..Len(p)
  BY Standing
<1>2. ~Groups!Accepted(p, live)
  BY <1>1, NotAccepted
<1> QED BY <1>2, Zenon DEF Judged, Fail

LEMMA FlushFailsJudged ==
  ASSUME Inv, NEW p, NEW live, NEW open, NEW c, At(p, live, open, c), FlushFails
  PROVE  Judged(p, live)
<1>1. (AtDirective \/ AtEnd) /\ ExpandFails /\ outcome' = "failed"
  BY Zenon DEF FlushFails, Fail
<1>2. ~Groups!Accepted(p, live)
  BY <1>1, FlushedAt
<1> QED BY <1>1, <1>2, Zenon DEF Judged

\* Directives that are no part of a section.
LEMMA QuietJudged ==
  ASSUME Inv, NEW p, NEW live, NEW open, NEW c, At(p, live, open, c),
         Directive({"null", "define", "undef", "include", "once"} \cup {"error", "unsupported"}),
         Flush, Proceed, conds' = conds,
         Tables(p, live, pos + 1, macros'), ~Groups!Rejected(p, live, pos)
  PROVE  Judged(p, live)
<1>1. AtDirective /\ AtLine /\ ~ExpandFails /\ pos' = pos + 1 /\ UNCHANGED <<source, file>>
      /\ outcome' = outcome
  BY Zenon DEF Directive, AtDirective, Proceed
<1>2. Current.kind \in {"null", "define", "undef", "include", "once", "error", "unsupported"}
  BY DEF Directive
<1>3. /\ pos \in Nat \ {0} /\ Current = p[pos] /\ Sections(p, pos, open) /\ Marked(p, live, pos, open, conds)
  BY <1>1, Standing
<1>4. ~Groups!Opens(p[pos]) /\ ~Groups!Closes(p[pos]) /\ ~Groups!Continues(p[pos])
  BY <1>2, <1>3 DEF Groups!Opens, Groups!Closes, Groups!Continues
<1>5. Sections(p, pos + 1, open) /\ Marked(p, live, pos + 1, open, conds)
  <2>1. Sections(p, pos + 1, open)
    BY <1>3, <1>4, SectionsKept
  <2>2. Marked(p, live, pos + 1, open, conds)
    BY <1>3, <1>4, StackKept
  <2> QED BY <2>1, <2>2
<1>6. Marked(p, live, pos + 1, open, conds')
  BY <1>5, Zenon
<1>7. Groups!Placed(p, pos)
  BY <1>4, Zenon DEF Groups!Placed
<1>8. \E d : At(p, live, open, d)'
  BY <1>1, <1>5, <1>6, <1>7, DirectiveMoves
<1> QED BY <1>1, <1>8, Zenon DEF Judged

\* What the first three of the directives that act on the table, and those
\* that act on nothing, come to.
LEMMA NullAndOnceJudged ==
  ASSUME Inv, NEW p, NEW live, NEW open, NEW c, At(p, live, open, c), NullDirective \/ PragmaOnce
  PROVE  Judged(p, live)
<1>1. /\ Directive({"null", "define", "undef", "include", "once"} \cup {"error", "unsupported"})
      /\ Current.kind \in {"null", "once"}
  BY DEF NullDirective, PragmaOnce, Directive
<1>2. Flush /\ Proceed /\ conds' = conds /\ macros' = macros /\ AtLine
  BY Zenon DEF NullDirective, PragmaOnce, shared, Directive, AtDirective
<1>3. /\ pos \in Nat \ {0} /\ Current = p[pos] /\ Tables(p, live, pos, macros) /\ live \subseteq Nat
  BY <1>2, Standing
<1>4. ~Groups!Rejected(p, live, pos)
  <2>1. p[pos].kind \in {"null", "once", "include"}
    BY <1>1, <1>3
  <2> QED BY <2>1, RejectedIs, Zenon
<1>5. Tables(p, live, pos + 1, macros)
  <2>1. p[pos].kind \notin {"define", "undef"}
    BY <1>1, <1>3
  <2> QED BY <1>3, <2>1, TablesKept
<1>6. Tables(p, live, pos + 1, macros')
  BY <1>2, <1>5, Zenon
<1> QED BY <1>1, <1>2, <1>4, <1>6, QuietJudged

LEMMA SkipJudged ==
  ASSUME Inv, NEW p, NEW live, NEW open, NEW c, At(p, live, open, c), SkipDirective
  PROVE  Judged(p, live)
<1>1. /\ Directive({"null", "define", "undef", "include", "once"} \cup {"error", "unsupported"})
      /\ Current.kind \in {"define", "undef", "include", "once", "error", "unsupported"}
  BY DEF SkipDirective, Directive
<1>2. Flush /\ Proceed /\ conds' = conds /\ macros' = macros /\ AtLine /\ ~Active
  BY Zenon DEF SkipDirective, shared, Directive, AtDirective
<1>3. /\ pos \in Nat \ {0} /\ Current = p[pos] /\ Tables(p, live, pos, macros) /\ live \subseteq Nat
      /\ pos \in live <=> Active
  BY <1>2, Standing
<1>4. pos \notin live
  BY <1>2, <1>3
<1>5. ~Groups!Rejected(p, live, pos)
  <2>1. \/ p[pos].kind \in {"null", "once", "include"} \/ p[pos].kind = "define" \/ p[pos].kind = "undef"
        \/ p[pos].kind \in {"error", "unsupported"}
    BY <1>1, <1>3
  <2> QED BY <1>4, <2>1, RejectedIs, Zenon
<1>6. Tables(p, live, pos + 1, macros)
  BY <1>3, <1>4, TablesKept
<1>7. Tables(p, live, pos + 1, macros')
  BY <1>2, <1>6, Zenon
<1> QED BY <1>1, <1>2, <1>5, <1>7, QuietJudged

LEMMA ErrorJudged ==
  ASSUME Inv, NEW p, NEW live, NEW open, NEW c, At(p, live, open, c), ErrorDirective
  PROVE  Judged(p, live)
<1>1. Fail /\ Active /\ AtLine /\ Current.kind \in {"error", "unsupported"}
  BY Zenon DEF ErrorDirective, Directive, AtDirective
<1>2. Current = p[pos] /\ pos \in live
  <2>1. Current = p[pos] /\ (pos \in live <=> Active)
    BY <1>1, Standing
  <2> QED BY <1>1, <2>1
<1>3. Groups!Rejected(p, live, pos)
  BY <1>1, <1>2, RejectedIs, Zenon
<1> QED BY <1>1, <1>3, FailJudged

LEMMA DefineJudged ==
  ASSUME Inv, NEW p, NEW live, NEW open, NEW c, At(p, live, open, c), Define
  PROVE  Judged(p, live)
<1> DEFINE n == Current.name
           bad == \/ n = Malformed
                  \/ n \in Predefined
                  \/ macros[n] \notin {Undefined, Current.value}
<1>1. /\ Directive({"null", "define", "undef", "include", "once"} \cup {"error", "unsupported"})
      /\ Current.kind = "define"
  BY DEF Define, Directive
<1>2. AtLine /\ Active
  BY Zenon DEF Define, Directive, AtDirective
<1>3. \/ bad /\ Fail
      \/ /\ ~bad /\ macros' = [macros EXCEPT ![n] = Current.value] /\ Flush /\ Proceed /\ conds' = conds
  BY Zenon DEF Define
<1>4. /\ pos \in Nat \ {0} /\ Current = p[pos] /\ Tables(p, live, pos, macros) /\ live \subseteq Nat
      /\ pos \in live /\ p[pos] \in Line
  <2>1. /\ pos \in Nat \ {0} /\ Current = p[pos] /\ Tables(p, live, pos, macros) /\ live \subseteq Nat
        /\ pos \in live <=> Active
        /\ p[pos] \in Line
    BY <1>2, Standing
  <2> QED BY <1>2, <2>1
<1>5. n \in Name \cup {Malformed}
  BY <1>1, <1>4, LineFields
<1>6. Groups!Rejected(p, live, pos) <=> bad
  <2>1. Groups!Rejected(p, live, pos) <=>
          pos \in live /\ \/ p[pos].name \in Predefined \cup {Malformed}
                          \/ Groups!Definition(p, live, pos, p[pos].name) \notin {Undefined, p[pos].value}
    BY <1>1, <1>4, RejectedIs, Zenon
  <2>2. n \in Name => macros[n] = Groups!Definition(p, live, pos, n)
    BY <1>4, Zenon DEF Tables
  <2> QED BY <1>4, <1>5, <2>1, <2>2
<1>7. CASE bad /\ Fail
  BY <1>2, <1>6, <1>7, FailJudged
<1>8. CASE /\ ~bad /\ macros' = [macros EXCEPT ![n] = Current.value] /\ Flush /\ Proceed /\ conds' = conds
  <2>1. n \in Name
    BY <1>5, <1>8
  <2>2. PICK v : v = Current.value
    OBVIOUS
  <2>3. Tables(p, live, pos + 1, [macros EXCEPT ![p[pos].name] = v])
    <3>1. macros \in [Name -> Value \cup {Undefined}]
      BY DEF Inv, TypeOK
    <3>2. p[pos].kind \in {"define", "undef"} /\ p[pos].name \in Name
      BY <1>1, <1>4, <2>1
    <3>3. v = IF p[pos].kind = "undef" THEN Undefined ELSE p[pos].value
      BY <1>1, <1>4, <2>2
    <3> QED BY <1>4, <3>1, <3>2, <3>3, TablesChanged
  <2>4. Tables(p, live, pos + 1, macros')
    <3>1. macros' = [macros EXCEPT ![p[pos].name] = v]
      BY <1>4, <1>8, <2>2, Zenon
    <3> QED BY <2>3, <3>1, Zenon
  <2>5. ~Groups!Rejected(p, live, pos)
    BY <1>6, <1>8
  <2> QED BY <1>1, <1>8, <2>4, <2>5, QuietJudged
<1> QED BY <1>3, <1>7, <1>8

LEMMA UndefJudged ==
  ASSUME Inv, NEW p, NEW live, NEW open, NEW c, At(p, live, open, c), Undef
  PROVE  Judged(p, live)
<1> DEFINE n == Current.name
           bad == n \in Predefined \cup {Malformed}
<1>1. /\ Directive({"null", "define", "undef", "include", "once"} \cup {"error", "unsupported"})
      /\ Current.kind = "undef"
  BY DEF Undef, Directive
<1>2. AtLine /\ Active
  BY Zenon DEF Undef, Directive, AtDirective
<1>3. \/ bad /\ Fail
      \/ /\ ~bad /\ macros' = [macros EXCEPT ![n] = Undefined] /\ Flush /\ Proceed /\ conds' = conds
  BY Zenon DEF Undef
<1>4. /\ pos \in Nat \ {0} /\ Current = p[pos] /\ Tables(p, live, pos, macros) /\ live \subseteq Nat
      /\ pos \in live /\ p[pos] \in Line
  <2>1. /\ pos \in Nat \ {0} /\ Current = p[pos] /\ Tables(p, live, pos, macros) /\ live \subseteq Nat
        /\ pos \in live <=> Active
        /\ p[pos] \in Line
    BY <1>2, Standing
  <2> QED BY <1>2, <2>1
<1>5. n \in Name \cup {Malformed}
  BY <1>1, <1>4, LineFields
<1>6. Groups!Rejected(p, live, pos) <=> bad
  <2>1. Groups!Rejected(p, live, pos) <=> pos \in live /\ p[pos].name \in Predefined \cup {Malformed}
    BY <1>1, <1>4, RejectedIs, Zenon
  <2> QED BY <1>4, <2>1
<1>7. CASE bad /\ Fail
  BY <1>2, <1>6, <1>7, FailJudged
<1>8. CASE /\ ~bad /\ macros' = [macros EXCEPT ![n] = Undefined] /\ Flush /\ Proceed /\ conds' = conds
  <2>1. n \in Name
    BY <1>5, <1>8
  <2>2. PICK v : v = Undefined
    OBVIOUS
  <2>3. Tables(p, live, pos + 1, [macros EXCEPT ![p[pos].name] = v])
    <3>1. macros \in [Name -> Value \cup {Undefined}]
      BY DEF Inv, TypeOK
    <3>2. p[pos].kind \in {"define", "undef"} /\ p[pos].name \in Name
      BY <1>1, <1>4, <2>1
    <3>3. v = IF p[pos].kind = "undef" THEN Undefined ELSE p[pos].value
      BY <1>1, <1>4, <2>2
    <3> QED BY <1>4, <3>1, <3>2, <3>3, TablesChanged
  <2>4. Tables(p, live, pos + 1, macros')
    <3>1. macros' = [macros EXCEPT ![p[pos].name] = v]
      BY <1>4, <1>8, <2>2, Zenon
    <3> QED BY <2>3, <3>1, Zenon
  <2>5. ~Groups!Rejected(p, live, pos)
    BY <1>6, <1>8
  <2> QED BY <1>1, <1>8, <2>4, <2>5, QuietJudged
<1> QED BY <1>3, <1>7, <1>8

SectionKinds == {"if", "ifdef", "ifndef", "elif", "else", "endif"}

\* Directives that are part of a section.
LEMMA SectionJudged ==
  ASSUME Inv, NEW p, NEW live, NEW open, NEW c, At(p, live, open, c),
         AtDirective, ~ExpandFails, Current.kind \in SectionKinds,
         Flush, Proceed, macros' = macros,
         NEW open2, Sections(p, pos + 1, open2), Marked(p, live, pos + 1, open2, conds'),
         Groups!Placed(p, pos), ~Groups!Rejected(p, live, pos)
  PROVE  Judged(p, live)
<1>1. AtLine /\ pos' = pos + 1 /\ UNCHANGED <<source, file>> /\ outcome' = outcome
  BY Zenon DEF AtDirective, Proceed
<1>2. /\ pos \in Nat \ {0} /\ Current = p[pos] /\ Tables(p, live, pos, macros) /\ live \subseteq Nat
  BY <1>1, Standing
<1>3. Tables(p, live, pos + 1, macros')
  <2>1. p[pos].kind \notin {"define", "undef"}
    BY <1>2 DEF SectionKinds
  <2>2. Tables(p, live, pos + 1, macros)
    BY <1>2, <2>1, TablesKept
  <2> QED BY <2>2, Zenon
<1>4. \E d : At(p, live, open2, d)'
  BY <1>1, <1>3, DirectiveMoves
<1> QED BY <1>1, <1>4, Zenon DEF Judged

LEMMA OpenJudged ==
  ASSUME Inv, NEW p, NEW live, NEW open, NEW c, At(p, live, open, c), OpenConditional
  PROVE  Judged(p, live)
<1> DEFINE bad == Current.name = Malformed /\ (Current.kind = "if" => Active)
           d == Opened(Active /\ Selected)
<1>1. /\ AtDirective /\ ~ExpandFails /\ AtLine /\ Current.kind \in {"if", "ifdef", "ifndef"}
  BY Zenon DEF OpenConditional, Directive, AtDirective
<1>2. \/ bad /\ Fail
      \/ ~bad /\ conds' = Append(conds, d) /\ Flush /\ Proceed /\ macros' = macros
  BY Zenon DEF OpenConditional, shared
<1>3. /\ pos \in Nat \ {0} /\ Current = p[pos] /\ Tables(p, live, pos, macros) /\ live \subseteq Nat
      /\ pos \in live <=> Active
      /\ p[pos] \in Line
      /\ Sections(p, pos, open) /\ Marked(p, live, pos, open, conds)
  BY <1>1, Standing
<1>4. Groups!Opens(p[pos]) /\ ~Groups!Closes(p[pos]) /\ ~Groups!Continues(p[pos])
  BY <1>1, <1>3 DEF Groups!Opens, Groups!Closes, Groups!Continues
<1>5. Groups!Placed(p, pos)
  BY <1>4, Zenon DEF Groups!Placed
<1>6. Groups!Rejected(p, live, pos) <=> bad
  <2>1. Groups!Evaluated(p, live, pos) <=> Active
    BY <1>3, <1>4, Zenon DEF Groups!Evaluated
  <2>2. CASE Current.kind = "if"
    BY <1>3, <2>1, <2>2, RejectedIs, Zenon
  <2>3. CASE Current.kind \in {"ifdef", "ifndef"}
    <3>1. Current.kind # "if"
      BY <2>3
    <3> QED BY <1>3, <2>3, <3>1, RejectedIs, Zenon
  <2> QED BY <1>1, <2>2, <2>3
<1>7. CASE bad /\ Fail
  BY <1>1, <1>6, <1>7, FailJudged
<1>8. CASE ~bad /\ conds' = Append(conds, d) /\ Flush /\ Proceed /\ macros' = macros
  <2>1. Sections(p, pos + 1, Append(open, pos))
    BY <1>3, <1>4, SectionsOpen
  <2>2. Groups!LiveLine(p, live, pos) <=> Active
    BY AtFacts
  <2>3. Active => (Groups!Selected(p, live, pos) <=> Selected)
    <3>1. ASSUME Active
          PROVE  Groups!Selected(p, live, pos) <=> Selected
      <4>1. Current.name \in Name /\ Current.kind \in {"if", "ifdef", "ifndef", "elif"}
        <5>1. Current.name \in Name \cup {Malformed}
          BY <1>1, <1>3, LineFields
        <5> QED BY <1>1, <1>8, <3>1, <5>1
      <4>2. p = source[file]
        BY Zenon DEF At
      <4>3. Tables(source[file], live, pos, macros)
        BY <1>3, <4>2, Zenon
      <4>4. Groups!Selected(source[file], live, pos) <=> Selected
        BY <4>1, <4>3, SelectedHere
      <4> QED BY <4>2, <4>4, Zenon
    <3> QED BY <3>1
  <2>4. PICK e : e = d
    OBVIOUS
  <2>5. e \in Conditional
    BY <2>4, NewSectionType, Zenon DEF Inv
  <2>6. OpenedWith(p, live, pos, e)
    <3>1. PICK s \in BOOLEAN : s <=> Active /\ Selected
      OBVIOUS
    <3>2. e.active = (Active /\ Selected) /\ e.taken = (Active /\ Selected)
          /\ e.parentActive = Active /\ e.seenElse = FALSE
      BY <2>4, Zenon DEF Opened
    <3> QED BY <2>2, <2>3, <3>2, Zenon DEF OpenedWith
  <2>7. Marked(p, live, pos + 1, Append(open, pos), conds')
    <3>1. conds \in Seq(Conditional)
      BY AtFacts
    <3>2. Marked(p, live, pos + 1, Append(open, pos), Append(conds, e))
      BY <1>3, <1>4, <2>5, <2>6, <3>1, StackOpens
    <3> QED BY <1>8, <2>4, <3>2, Zenon
  <2>8. Current.kind \in SectionKinds
    BY <1>1 DEF SectionKinds
  <2>9. ~Groups!Rejected(p, live, pos)
    BY <1>6, <1>8
  <2>10. PICK open2 : open2 = Append(open, pos)
    OBVIOUS
  <2>11. Sections(p, pos + 1, open2) /\ Marked(p, live, pos + 1, open2, conds')
    BY <2>1, <2>7, <2>10, Zenon
  <2> QED BY <1>1, <1>5, <1>8, <2>8, <2>9, <2>11, SectionJudged
<1> QED BY <1>2, <1>7, <1>8

\* What the top of the stack says of the section the line is in.
LEMMA TopTells ==
  ASSUME Inv, NEW p, NEW live, NEW open, NEW c, At(p, live, open, c), AtLine, conds # <<>>,
         Groups!Continues(p[pos])
  PROVE  /\ Groups!Evaluated(p, live, pos) <=> Wanted
         /\ Groups!Placed(p, pos) <=> ~Top.seenElse
<1>1. /\ pos \in Nat \ {0} /\ Sections(p, pos, open) /\ Marked(p, live, pos, open, conds)
  BY Standing
<1>2. open # <<>> /\ conds \in Seq(Conditional) /\ Nested(conds)
  BY AtFacts
<1>3. /\ Len(open) \in Nat /\ Len(open) \in 1..Len(open) /\ Groups!Opener(p, pos) = open[Len(open)]
      /\ Groups!Around(p, pos) # {}
  BY <1>1, <1>2, SectionsInner
<1>4. PICK n \in Nat : n = Len(open)
  BY <1>3
<1>5. n = Len(conds) /\ n \in 1..n /\ Groups!Opener(p, pos) = open[n] /\ Top = conds[n]
  BY <1>1, <1>3, <1>4, Zenon DEF Marked, Top
<1>6. Mark(p, live, pos, open, conds, n)
  BY <1>1, <1>4, <1>5, Zenon DEF Marked
<1>7. conds[n].parentActive <=> \A j \in 1..(n - 1) : conds[j].active
  BY <1>2, <1>5, Zenon DEF Nested
<1>8. (\A l \in 1..(n - 1) : conds[l].active) <=>
      (\A l \in 1..(n - 1) : Groups!FirstSelected(p, live, open[l], pos))
  <2>1. n - 1 \in 0..Len(open)
    BY <1>4, <1>5
  <2>2. PICK m \in 0..Len(open) : m = n - 1
    BY <2>1
  <2>3. (\A l \in 1..m : conds[l].active) <=>
        (\A l \in 1..m : Groups!FirstSelected(p, live, open[l], pos))
    BY <1>1, <1>3, AroundIsFirst
  <2> QED BY <2>2, <2>3, Zenon
<1>9. Groups!Evaluated(p, live, pos) <=>
        /\ Groups!NoneSelected(p, live, open[n], pos)
        /\ \A l \in 1..(n - 1) : Groups!FirstSelected(p, live, open[l], pos)
  <2>1. Groups!Around(p, pos) = {open[m] : m \in 1..n}
    BY <1>1, <1>4, Zenon DEF Sections
  <2>2. \A l \in 1..(n - 1) : l \in 1..n /\ open[l] # open[n]
    <3>1. \A m, l \in 1..n : m < l => open[m] < open[l]
      BY <1>1, <1>4, Zenon DEF Sections
    <3>2. open \in Seq(Nat)
      BY <1>1, Zenon DEF Sections
    <3>3. \A l \in 1..n : open[l] \in Nat
      BY <1>4, <3>2
    <3>4. ASSUME NEW l \in 1..(n - 1)
          PROVE  l \in 1..n /\ open[l] # open[n]
      <4>1. l \in 1..n /\ l < n
        BY <1>4
      <4>2. open[l] < open[n]
        BY <1>5, <3>1, <4>1
      <4> QED BY <1>5, <3>3, <4>1, <4>2
    <3> QED BY <3>4
  <2>3. Groups!Evaluated(p, live, pos) <=>
          \A i \in Groups!Around(p, pos) : IF i = Groups!Opener(p, pos)
                                           THEN Groups!NoneSelected(p, live, i, pos)
                                           ELSE Groups!FirstSelected(p, live, i, pos)
    BY Zenon DEF Groups!Evaluated
  <2>4. \A m \in 1..n : m = n \/ m \in 1..(n - 1)
    BY <1>4
  <2>5. ASSUME Groups!Evaluated(p, live, pos)
        PROVE  /\ Groups!NoneSelected(p, live, open[n], pos)
               /\ \A l \in 1..(n - 1) : Groups!FirstSelected(p, live, open[l], pos)
    <3>1. \A i \in Groups!Around(p, pos) : IF i = open[n]
                                           THEN Groups!NoneSelected(p, live, i, pos)
                                           ELSE Groups!FirstSelected(p, live, i, pos)
      BY <1>5, <2>3, <2>5, Zenon
    <3>2. \A l \in 1..n : open[l] \in Groups!Around(p, pos)
      BY <2>1, Zenon
    <3>3. Groups!NoneSelected(p, live, open[n], pos)
      BY <1>5, <3>1, <3>2, Zenon
    <3>4. ASSUME NEW l \in 1..(n - 1)
          PROVE  Groups!FirstSelected(p, live, open[l], pos)
      <4>1. open[l] \in Groups!Around(p, pos) /\ open[l] # open[n]
        BY <2>2, <3>2, Zenon
      <4> QED BY <3>1, <4>1, Zenon
    <3> QED BY <3>3, <3>4
  <2>6. ASSUME Groups!NoneSelected(p, live, open[n], pos),
               \A l \in 1..(n - 1) : Groups!FirstSelected(p, live, open[l], pos)
        PROVE  Groups!Evaluated(p, live, pos)
    <3>1. ASSUME NEW i \in Groups!Around(p, pos)
          PROVE  IF i = Groups!Opener(p, pos)
                 THEN Groups!NoneSelected(p, live, i, pos)
                 ELSE Groups!FirstSelected(p, live, i, pos)
      <4>1. PICK m \in 1..n : i = open[m]
        BY <2>1, Zenon
      <4>2. CASE m = n
        BY <1>5, <2>6, <4>1, <4>2, Zenon
      <4>3. CASE m \in 1..(n - 1)
        BY <1>5, <2>2, <2>6, <4>1, <4>3, Zenon
      <4> QED BY <2>4, <4>2, <4>3
    <3> QED BY <2>3, <3>1, Zenon
  <2> QED BY <2>5, <2>6
<1>10. Groups!Evaluated(p, live, pos) <=> Wanted
  <2>1. Wanted <=> conds[n].parentActive /\ ~conds[n].taken
    BY <1>5, Zenon DEF Wanted
  <2>2. conds[n].parentActive => (conds[n].taken <=> ~Groups!NoneSelected(p, live, open[n], pos))
    BY <1>6, Zenon DEF Mark
  <2>3. conds[n].parentActive <=>
          \A l \in 1..(n - 1) : Groups!FirstSelected(p, live, open[l], pos)
    BY <1>7, <1>8, Zenon
  <2> QED BY <1>9, <2>1, <2>2, <2>3, Zenon
<1>11. Groups!Placed(p, pos) <=> ~Top.seenElse
  <2>1. conds[n].seenElse <=> HasElse(p, open[n], pos)
    BY <1>6, Zenon DEF Mark
  <2>2. Groups!Placed(p, pos) <=> ~HasElse(p, open[n], pos)
    BY <1>3, <1>5, Zenon DEF Groups!Placed, HasElse
  <2> QED BY <1>5, <2>1, <2>2, Zenon
<1> QED BY <1>10, <1>11

\* What a section's next group needs: an open section without an #else yet.
LEMMA ContinuesOutside ==
  ASSUME Inv, NEW p, NEW live, NEW open, NEW c, At(p, live, open, c), AtLine, conds = <<>>,
         Groups!Continues(p[pos]) \/ Groups!Closes(p[pos])
  PROVE  ~Groups!Placed(p, pos)
<1>1. pos \in Nat \ {0} /\ Sections(p, pos, open)
  BY Standing
<1>2. open = <<>>
  BY AtFacts
<1>3. Groups!Around(p, pos) = {}
  BY <1>1, <1>2, SectionsInner
<1> QED BY <1>3, Zenon DEF Groups!Placed

\* The stack after the next group of the innermost section has begun.
LEMMA ContinueJudged ==
  ASSUME Inv, NEW p, NEW live, NEW open, NEW c, At(p, live, open, c),
         AtDirective, ~ExpandFails, Current.kind \in {"elif", "else"}, conds # <<>>,
         NEW d \in Conditional, ContinuedWith(p, live, pos, Top, d),
         conds' = [conds EXCEPT ![Len(conds)] = d], Flush, Proceed, macros' = macros,
         ~Top.seenElse, ~Groups!Rejected(p, live, pos)
  PROVE  Judged(p, live)
<1>1. AtLine
  BY Zenon DEF AtDirective
<1>2. /\ pos \in Nat \ {0} /\ Current = p[pos]
      /\ Sections(p, pos, open) /\ Marked(p, live, pos, open, conds)
  BY <1>1, Standing
<1>3. Groups!Continues(p[pos]) /\ ~Groups!Opens(p[pos]) /\ ~Groups!Closes(p[pos])
  BY <1>2 DEF Groups!Opens, Groups!Closes, Groups!Continues
<1>4. Sections(p, pos + 1, open)
  BY <1>2, <1>3, SectionsKept
<1>5. Marked(p, live, pos + 1, open, conds')
  <2>1. conds \in Seq(Conditional) /\ Nested(conds) /\ open # <<>>
    BY AtFacts
  <2>2. ContinuedWith(p, live, pos, conds[Len(conds)], d)
    BY Zenon DEF Top
  <2>3. Marked(p, live, pos + 1, open, [conds EXCEPT ![Len(conds)] = d])
    BY <1>2, <1>3, <2>1, <2>2, StackContinues
  <2> QED BY <2>3, Zenon
<1>6. Groups!Placed(p, pos)
  BY <1>1, <1>3, TopTells
<1>7. Current.kind \in SectionKinds
  BY DEF SectionKinds
<1> QED BY <1>4, <1>5, <1>6, <1>7, SectionJudged

LEMMA ElifJudged ==
  ASSUME Inv, NEW p, NEW live, NEW open, NEW c, At(p, live, open, c), Elif
  PROVE  Judged(p, live)
<1> DEFINE bad == conds = <<>> \/ Top.seenElse \/ (Wanted /\ Current.name = Malformed)
           e == Continued(Wanted /\ Selected)
<1>1. AtDirective /\ AtLine /\ ~ExpandFails /\ Current.kind = "elif"
  BY DEF Elif, Directive, AtDirective
<1>2. \/ bad /\ Fail
      \/ ~bad /\ conds' = [conds EXCEPT ![Len(conds)] = e] /\ Flush /\ Proceed /\ macros' = macros
  BY Zenon DEF Elif, shared
<1>3. /\ pos \in Nat \ {0} /\ Current = p[pos] /\ p[pos] \in Line /\ Tables(p, live, pos, macros)
      /\ live \subseteq Nat
  BY <1>1, Standing
<1>4. Groups!Continues(p[pos])
  BY <1>1, <1>3 DEF Groups!Continues
<1>5. conds # <<>> => /\ Groups!Evaluated(p, live, pos) <=> Wanted
                      /\ Groups!Placed(p, pos) <=> ~Top.seenElse
  BY <1>1, <1>4, TopTells
<1>6. Groups!Rejected(p, live, pos) <=> Groups!Evaluated(p, live, pos) /\ Current.name = Malformed
  BY <1>1, <1>3, RejectedIs, Zenon
<1>7. CASE bad /\ Fail
  <2>1. conds = <<>> => ~Groups!Placed(p, pos)
    BY <1>1, <1>4, ContinuesOutside
  <2>2. ~Groups!Placed(p, pos) \/ Groups!Rejected(p, live, pos)
    BY <1>5, <1>6, <1>7, <2>1
  <2> QED BY <1>1, <1>7, <2>2, FailJudged
<1>8. CASE ~bad /\ conds' = [conds EXCEPT ![Len(conds)] = e] /\ Flush /\ Proceed /\ macros' = macros
  <2>1. Wanted => (Groups!Selected(p, live, pos) <=> Selected)
    <3>1. ASSUME Wanted
          PROVE  Groups!Selected(p, live, pos) <=> Selected
      <4>1. Current.name \in Name /\ Current.kind \in {"if", "ifdef", "ifndef", "elif"}
        <5>1. Current.name \in Name \cup {Malformed}
          BY <1>1, <1>3, LineFields
        <5> QED BY <1>1, <1>8, <3>1, <5>1
      <4>2. p = source[file]
        BY Zenon DEF At
      <4>3. Tables(source[file], live, pos, macros)
        BY <1>3, <4>2, Zenon
      <4>4. Groups!Selected(source[file], live, pos) <=> Selected
        BY <4>1, <4>3, SelectedHere
      <4> QED BY <4>2, <4>4, Zenon
    <3> QED BY <3>1
  <2>2. PICK d : d = e
    OBVIOUS
  <2>3. d \in Conditional
    BY <1>8, <2>2, NewSectionType, Zenon DEF Inv
  <2>4. Top \in Conditional
    <3>1. conds \in Seq(Conditional)
      BY AtFacts
    <3> QED BY <1>8, <3>1 DEF Top
  <2>5. d.active = (Wanted /\ Selected) /\ d.taken = (Top.taken \/ (Wanted /\ Selected))
        /\ d.parentActive = Top.parentActive /\ d.seenElse = Top.seenElse
    BY <2>2, <2>4 DEF Continued, Conditional
  <2>6. ContinuedWith(p, live, pos, Top, d)
    <3>1. p[pos].kind # "else"
      BY <1>1, <1>3
    <3> QED BY <2>1, <2>5, <3>1, Zenon DEF ContinuedWith, Wanted
  <2>7. ~Groups!Rejected(p, live, pos)
    BY <1>5, <1>6, <1>8
  <2>8. conds' = [conds EXCEPT ![Len(conds)] = d]
    BY <1>8, <2>2, Zenon
  <2>9. Current.kind \in {"elif", "else"}
    BY <1>1
  <2> HIDE DEF e
  <2> QED BY <1>1, <1>8, <2>3, <2>6, <2>7, <2>8, <2>9, ContinueJudged
<1> QED BY <1>2, <1>7, <1>8

LEMMA ElseJudged ==
  ASSUME Inv, NEW p, NEW live, NEW open, NEW c, At(p, live, open, c), Else
  PROVE  Judged(p, live)
<1> DEFINE bad == conds = <<>> \/ Current.extra \/ Top.seenElse
           e == Otherwise
<1>1. AtDirective /\ AtLine /\ ~ExpandFails /\ Current.kind = "else"
  BY DEF Else, Directive, AtDirective
<1>2. \/ bad /\ Fail
      \/ ~bad /\ conds' = [conds EXCEPT ![Len(conds)] = e] /\ Flush /\ Proceed /\ macros' = macros
  BY Zenon DEF Else, shared
<1>3. /\ pos \in Nat \ {0} /\ Current = p[pos]
  BY <1>1, Standing
<1>4. Groups!Continues(p[pos])
  BY <1>1, <1>3 DEF Groups!Continues
<1>5. conds # <<>> => (Groups!Placed(p, pos) <=> ~Top.seenElse)
  BY <1>1, <1>4, TopTells
<1>6. Groups!Rejected(p, live, pos) <=> Current.extra
  <2>1. p[pos].kind \in {"else", "endif"}
    BY <1>1, <1>3
  <2> QED BY <1>3, <2>1, RejectedIs, Zenon
<1>7. CASE bad /\ Fail
  <2>1. conds = <<>> => ~Groups!Placed(p, pos)
    BY <1>1, <1>4, ContinuesOutside
  <2>2. ~Groups!Placed(p, pos) \/ Groups!Rejected(p, live, pos)
    BY <1>5, <1>6, <1>7, <2>1
  <2> QED BY <1>1, <1>7, <2>2, FailJudged
<1>8. CASE ~bad /\ conds' = [conds EXCEPT ![Len(conds)] = e] /\ Flush /\ Proceed /\ macros' = macros
  <2>1. Groups!Selected(p, live, pos)
    <3>1. p[pos].kind = "else" /\ p[pos].kind \notin {"ifdef", "ifndef"}
      BY <1>1, <1>3
    <3>2. p[pos].kind # "ifdef" /\ p[pos].kind # "ifndef"
      BY <3>1
    <3> QED BY <3>1, <3>2, Zenon DEF Groups!Selected
  <2>2. PICK d : d = e
    OBVIOUS
  <2>3. d \in Conditional
    BY <1>8, <2>2, NewSectionType, Zenon DEF Inv
  <2>4. Top \in Conditional
    <3>1. conds \in Seq(Conditional)
      BY AtFacts
    <3> QED BY <1>8, <3>1 DEF Top
  <2>5. d.active = Wanted /\ d.taken = TRUE /\ d.parentActive = Top.parentActive /\ d.seenElse = TRUE
    BY <2>2, <2>4 DEF Otherwise, Conditional
  <2>6. ContinuedWith(p, live, pos, Top, d)
    <3>1. p[pos].kind = "else"
      BY <1>1, <1>3
    <3> QED BY <2>1, <2>5, <3>1, Zenon DEF ContinuedWith, Wanted
  <2>7. ~Groups!Rejected(p, live, pos)
    BY <1>6, <1>8
  <2>8. conds' = [conds EXCEPT ![Len(conds)] = d]
    BY <1>8, <2>2, Zenon
  <2>9. Current.kind \in {"elif", "else"}
    BY <1>1
  <2> HIDE DEF e
  <2> QED BY <1>1, <1>8, <2>3, <2>6, <2>7, <2>8, <2>9, ContinueJudged
<1> QED BY <1>2, <1>7, <1>8

LEMMA EndifJudged ==
  ASSUME Inv, NEW p, NEW live, NEW open, NEW c, At(p, live, open, c), Endif
  PROVE  Judged(p, live)
<1> DEFINE bad == conds = <<>> \/ Current.extra
<1>1. AtDirective /\ AtLine /\ ~ExpandFails /\ Current.kind = "endif"
  BY DEF Endif, Directive, AtDirective
<1>2. \/ bad /\ Fail
      \/ ~bad /\ conds' = SubSeq(conds, 1, Len(conds) - 1) /\ Flush /\ Proceed /\ macros' = macros
  BY Zenon DEF Endif, shared
<1>3. /\ pos \in Nat \ {0} /\ Current = p[pos]
      /\ Sections(p, pos, open) /\ Marked(p, live, pos, open, conds)
  BY <1>1, Standing
<1>4. Groups!Closes(p[pos]) /\ ~Groups!Continues(p[pos])
  BY <1>1, <1>3 DEF Groups!Closes, Groups!Continues
<1>5. Groups!Rejected(p, live, pos) <=> Current.extra
  <2>1. p[pos].kind \in {"else", "endif"}
    BY <1>1, <1>3
  <2> QED BY <1>3, <2>1, RejectedIs, Zenon
<1>6. CASE bad /\ Fail
  <2>1. conds = <<>> => ~Groups!Placed(p, pos)
    BY <1>1, <1>4, ContinuesOutside
  <2>2. ~Groups!Placed(p, pos) \/ Groups!Rejected(p, live, pos)
    BY <1>5, <1>6, <2>1
  <2> QED BY <1>1, <1>6, <2>2, FailJudged
<1>7. CASE ~bad /\ conds' = SubSeq(conds, 1, Len(conds) - 1) /\ Flush /\ Proceed /\ macros' = macros
  <2>1. conds \in Seq(Conditional) /\ open # <<>>
    BY <1>7, AtFacts
  <2>2. Sections(p, pos + 1, SubSeq(open, 1, Len(open) - 1))
    BY <1>3, <1>4, <2>1, SectionsClose
  <2>3. Marked(p, live, pos + 1, SubSeq(open, 1, Len(open) - 1), SubSeq(conds, 1, Len(conds) - 1))
    BY <1>3, <1>4, <2>1, StackCloses
  <2>4. PICK open2 : open2 = SubSeq(open, 1, Len(open) - 1)
    OBVIOUS
  <2>5. Sections(p, pos + 1, open2) /\ Marked(p, live, pos + 1, open2, conds')
    BY <1>7, <2>2, <2>3, <2>4, Zenon
  <2>6. Groups!Placed(p, pos)
    <3>1. Groups!Around(p, pos) # {}
      BY <1>3, <2>1, SectionsInner
    <3> QED BY <1>4, <3>1, Zenon DEF Groups!Placed
  <2>7. ~Groups!Rejected(p, live, pos)
    BY <1>5, <1>7
  <2>8. Current.kind \in SectionKinds
    BY <1>1 DEF SectionKinds
  <2> QED BY <1>1, <1>7, <2>5, <2>6, <2>7, <2>8, SectionJudged
<1> QED BY <1>2, <1>6, <1>7

\* The inductive invariant of a file that is alone: while it is read, the
\* driver knows of the text what the whole text says up to its line.
Track ==
  LET p == source[Main]
      live == Groups!Live(p)
  IN /\ file = Main /\ callers = <<>>
     /\ outcome \in {"idle", "running"} => \E open, c : At(p, live, open, c)
     /\ outcome = "ok" => /\ Groups!Accepted(p, live)
                          /\ Groups!IsText(p, live, Len(p) + 1, output)
     /\ outcome = "failed" => ~Groups!Accepted(p, live)

\* The empty stack and table are right before the first line.
LEMMA AtStart ==
  ASSUME Inv, Init
  PROVE  At(source[file], Groups!Live(source[file]), <<>>, 1)
<1>1. PICK p : p = source[file]
  OBVIOUS
<1>2. p \in Seq(Line) /\ Len(p) \in Nat
  BY <1>1 DEF Inv, TypeOK
<1>3. PICK live : live = Groups!Live(p)
  OBVIOUS
<1>4. IsLive(p, live)
  BY <1>2, <1>3, LiveIs
<1>5. /\ pos = 1 /\ conds = <<>> /\ pending = <<>> /\ output = <<>> /\ macros = [n \in Name |-> Undefined]
  BY DEF Init
<1>6. \A i \in live : ~(i < 1)
  <2>1. live \subseteq 1..Len(p)
    BY <1>4, Zenon DEF IsLive
  <2> QED BY <1>2, <2>1
<1>7. Sections(p, 1, <<>>)
  BY SectionsAtStart
<1>8. Marked(p, live, 1, <<>>, <<>>)
  <2>1. \A m \in 1..Len(<<>>) : FALSE
    OBVIOUS
  <2> QED BY <2>1, Zenon DEF Marked
<1>9. Chunk(p, live, 1, 1, <<>>)
  BY ChunkBegins
<1>10. Sound(p, live, 1)
  <2>1. \A k \in 1..(1 - 1) : FALSE
    OBVIOUS
  <2> QED BY <2>1, Zenon DEF Sound
<1>11. Tables(p, live, 1, macros)
  <2>1. ASSUME NEW n \in Name
        PROVE  macros[n] = Groups!Definition(p, live, 1, n)
    <3>1. {k \in live : k < 1 /\ p[k].kind \in {"define", "undef"} /\ p[k].name = n} = {}
      BY <1>6, Zenon
    <3>2. Groups!Definition(p, live, 1, n) = Undefined
      BY <3>1, Zenon DEF Groups!Definition
    <3> QED BY <1>5, <3>2
  <2> QED BY <2>1, Zenon DEF Tables
<1>12. Groups!IsText(p, live, 1, <<>>)
  <2>1. \A k \in 1..Len(<<>>) : FALSE
    OBVIOUS
  <2>2. {<<>>[k].line : k \in 1..Len(<<>>)} = {}
    BY <2>1, Zenon
  <2>3. {i \in live : i < 1 /\ p[i].kind = "text"} = {}
    BY <1>6, Zenon
  <2> QED BY <2>1, <2>2, <2>3, Zenon DEF Groups!IsText
<1>13. At(p, live, <<>>, 1)
  BY <1>1, <1>4, <1>5, <1>7, <1>8, <1>9, <1>10, <1>11, <1>12, Zenon DEF At
<1> QED BY <1>1, <1>3, <1>13, Zenon

\* At the end every section must be closed.
LEMMA EndJudged ==
  ASSUME Inv, NEW p, NEW live, NEW open, NEW c, At(p, live, open, c), EndOfFile, callers = <<>>
  PROVE  \/ outcome' = "failed" /\ ~Groups!Accepted(p, live)
         \/ /\ outcome' = "ok" /\ UNCHANGED <<file, callers>>
            /\ Groups!Accepted(p, live) /\ Groups!IsText(p, live, Len(p) + 1, output')
<1>1. AtEnd /\ ~ExpandFails
  BY Zenon DEF EndOfFile
<1>2. Len(p) \in Nat /\ pos \in 1..(Len(p) + 1) /\ (conds = <<>> <=> open = <<>>)
  BY AtFacts
<1>3. p = source[file] /\ Sections(p, pos, open)
  BY Zenon DEF At
<1>4. pos = Len(p) + 1
  BY <1>1, <1>2, <1>3 DEF AtEnd
<1>5. open \in Seq(Nat) /\ Len(open) = Groups!Depth(p, Len(p) + 1)
  BY <1>3, <1>4, Zenon DEF Sections
<1>6. Groups!IsText(p, live, Len(p) + 1, output \o Expansion) /\ Sound(p, live, Len(p) + 1)
  <2>1. Groups!IsText(p, live, pos, output \o Expansion) /\ Sound(p, live, pos)
    BY <1>1, FlushedAt
  <2> QED BY <1>4, <2>1, Zenon
<1>7. CASE conds # <<>>
  <2>1. Groups!Depth(p, Len(p) + 1) # 0
    BY <1>2, <1>5, <1>7
  <2>2. ~Groups!Accepted(p, live)
    BY <2>1, Zenon DEF Groups!Accepted
  <2> QED BY <1>7, <2>2, Zenon DEF EndOfFile, Fail
<1>8. CASE conds = <<>>
  <2>1. outcome' = "ok" /\ UNCHANGED <<file, callers>> /\ output' = output \o Expansion
    BY <1>8, Zenon DEF EndOfFile
  <2>2. Groups!Depth(p, Len(p) + 1) = 0
    BY <1>2, <1>5, <1>8
  <2>3. \A j \in 1..Len(p) : Groups!Placed(p, j) /\ ~Groups!Rejected(p, live, j)
    <3>1. \A j \in 1..Len(p) : j \in 1..((Len(p) + 1) - 1)
      BY <1>2
    <3> QED BY <1>6, <3>1, Zenon DEF Sound
  <2>4. Groups!Accepted(p, live)
    BY <2>2, <2>3, Zenon DEF Groups!Accepted
  <2> QED BY <1>6, <2>1, <2>4, Zenon
<1> QED BY <1>7, <1>8

\* Run reads nothing.
LEMMA RunTracks ==
  ASSUME Inv, Alone, Run, NEW p, NEW live, NEW open, NEW c, At(p, live, open, c)
  PROVE  At(p, live, open, c)' /\ outcome' = "running" /\ UNCHANGED <<file, callers>>
<1>1. outcome' = "running"
  BY Zenon DEF Run, Alone
<1>2. UNCHANGED <<source, macros, output, file, pos, conds, pending, callers>>
  BY Zenon DEF Run
<1>3. At(p, live, open, c)'
  <2>1. /\ p = source[file] /\ IsLive(p, live)
        /\ Sections(p, pos, open) /\ Marked(p, live, pos, open, conds)
        /\ Chunk(p, live, pos, c, pending) /\ Sound(p, live, c)
        /\ Tables(p, live, pos, macros) /\ Groups!IsText(p, live, c, output)
    BY Zenon DEF At
  <2>2. p = source'[file']
    BY <1>2, <2>1, Zenon
  <2>3. Sections(p, pos', open) /\ Marked(p, live, pos', open, conds')
        /\ Chunk(p, live, pos', c, pending')
    BY <1>2, <2>1, Zenon
  <2>4. Tables(p, live, pos', macros') /\ Groups!IsText(p, live, c, output')
    BY <1>2, <2>1, Zenon
  <2> QED BY <2>1, <2>2, <2>3, <2>4, Zenon DEF At
<1> QED BY <1>1, <1>2, <1>3

\* Everything but Run and the end, in a file that includes nothing.
LEMMA LineJudged ==
  ASSUME Inv, Next, NEW p, NEW live, NEW open, NEW c, At(p, live, open, c),
         \A i \in 1..Len(p) : p[i].kind # "include", ~Run, ~EndOfFile
  PROVE  Judged(p, live) /\ UNCHANGED <<file, callers>>
<1>1. ~Include
  <2>1. SUFFICES ASSUME Include PROVE FALSE
    OBVIOUS
  <2>2. AtLine /\ Current.kind = "include"
    BY <2>1 DEF Include, Directive, AtDirective
  <2>3. pos \in 1..Len(p) /\ Current = p[pos]
    BY <2>2, Standing
  <2> QED BY <2>2, <2>3
<1>2. \/ ReadText \/ FlushFails \/ NullDirective \/ OpenConditional \/ Elif \/ Else \/ Endif
      \/ SkipDirective \/ Define \/ Undef \/ PragmaOnce \/ ErrorDirective
  BY <1>1, Zenon DEF Next
<1>3. UNCHANGED <<file, callers>>
  BY <1>2, Zenon DEF ReadText, FlushFails, NullDirective, OpenConditional, Elif, Else, Endif,
     SkipDirective, Define, Undef, PragmaOnce, ErrorDirective, Fail, Proceed
<1>4. Judged(p, live)
  <2>1. CASE ReadText
    BY <2>1, TextJudged
  <2>2. CASE FlushFails
    BY <2>2, FlushFailsJudged
  <2>3. CASE NullDirective \/ PragmaOnce
    BY <2>3, NullAndOnceJudged
  <2>4. CASE OpenConditional
    BY <2>4, OpenJudged
  <2>5. CASE Elif
    BY <2>5, ElifJudged
  <2>6. CASE Else
    BY <2>6, ElseJudged
  <2>7. CASE Endif
    BY <2>7, EndifJudged
  <2>8. CASE SkipDirective
    BY <2>8, SkipJudged
  <2>9. CASE Define
    BY <2>9, DefineJudged
  <2>10. CASE Undef
    BY <2>10, UndefJudged
  <2>11. CASE ErrorDirective
    BY <2>11, ErrorJudged
  <2> QED BY <1>2, <2>1, <2>2, <2>3, <2>4, <2>5, <2>6, <2>7, <2>8, <2>9, <2>10, <2>11
<1> QED BY <1>3, <1>4

\* A step is taken while the run goes on only.
LEMMA StepsGoOn ==
  ASSUME Next
  PROVE  /\ outcome \in {"idle", "running"}
         /\ outcome = "idle" => Run
         /\ Run => outcome = "idle"
         /\ source' = source
<1>1. Run \/ outcome = "running"
  BY Zenon DEF Next, ReadText, FlushFails, NullDirective, OpenConditional, Elif, Else, Endif,
     SkipDirective, Define, Undef, PragmaOnce, ErrorDirective, Include, EndOfFile,
     Directive, AtDirective, AtLine, AtEnd
<1>2. Run => outcome = "idle"
  BY Zenon DEF Run
<1>3. source' = source
  BY Zenon DEF Next, Run, ReadText, FlushFails, NullDirective, OpenConditional, Elif, Else, Endif,
     SkipDirective, Define, Undef, PragmaOnce, ErrorDirective, Include, EndOfFile, Proceed, Fail
<1> QED BY <1>1, <1>2, <1>3

\* Every step keeps what is known.
LEMMA StepsTrack ==
  ASSUME Inv, Alone, Track, Next
  PROVE  Track'
<1>1. PICK p : p = source[Main]
  OBVIOUS
<1>2. PICK live : live = Groups!Live(p)
  OBVIOUS
<1>3. /\ file = Main /\ callers = <<>>
      /\ outcome \in {"idle", "running"} => \E open, c : At(p, live, open, c)
  BY <1>1, <1>2, Zenon DEF Track
<1>4. outcome \in {"idle", "running"} /\ (Run <=> outcome = "idle") /\ source' = source
  BY StepsGoOn
<1>5. PICK open, c : At(p, live, open, c)
  BY <1>3, <1>4
<1>6. p = source'[Main] /\ live = Groups!Live(source'[Main])
  BY <1>1, <1>2, <1>4, Zenon
<1>7. SUFFICES /\ file' = Main /\ callers' = <<>>
               /\ \/ outcome' \in {"idle", "running"} /\ \E e, d : At(p, live, e, d)'
                  \/ outcome' = "ok" /\ Groups!Accepted(p, live)
                                     /\ Groups!IsText(p, live, Len(p) + 1, output')
                  \/ outcome' = "failed" /\ ~Groups!Accepted(p, live)
  <2> DEFINE done == Groups!Accepted(p, live) /\ Groups!IsText(p, live, Len(p) + 1, output')
             on == \E e, d : At(p, live, e, d)'
             bad == ~Groups!Accepted(p, live)
  <2> SUFFICES ASSUME file' = Main, callers' = <<>>,
                      \/ outcome' \in {"idle", "running"} /\ on
                      \/ outcome' = "ok" /\ done
                      \/ outcome' = "failed" /\ bad
               PROVE  Track'
    BY Zenon
  <2>1. /\ outcome' \in {"idle", "running"} => on
        /\ outcome' = "ok" => done
        /\ outcome' = "failed" => bad
    <3> HIDE DEF on, done, bad
    <3> QED OBVIOUS
  <2> QED BY <1>6, <2>1, Zenon DEF Track
<1>8. CASE Run
  <2>1. At(p, live, open, c)' /\ outcome' = "running" /\ UNCHANGED <<file, callers>>
    BY <1>5, <1>8, RunTracks
  <2>2. outcome' \in {"idle", "running"}
    BY <2>1
  <2> QED BY <1>3, <2>1, <2>2, Zenon
<1>9. CASE EndOfFile
  <2>1. \/ outcome' = "failed" /\ ~Groups!Accepted(p, live)
        \/ /\ outcome' = "ok" /\ UNCHANGED <<file, callers>>
           /\ Groups!Accepted(p, live) /\ Groups!IsText(p, live, Len(p) + 1, output')
    BY <1>3, <1>5, <1>9, EndJudged
  <2>2. outcome' = "failed" => UNCHANGED <<file, callers>>
    <3>1. AtEnd /\ callers = <<>>
      BY <1>3, <1>9, Zenon DEF EndOfFile
    <3>2. Fail \/ outcome' = "ok"
      BY <1>9, <3>1, Zenon DEF EndOfFile
    <3> QED BY <3>2 DEF Fail
  <2> QED BY <1>3, <2>1, <2>2, Zenon
<1>10. CASE ~Run /\ ~EndOfFile
  <2>1. \A i \in 1..Len(p) : p[i].kind # "include"
    BY <1>1, Zenon DEF Alone
  <2>2. Judged(p, live) /\ UNCHANGED <<file, callers>>
    BY <1>5, <1>10, <2>1, LineJudged
  <2>3. outcome \in {"idle", "running"}
    BY <1>4
  <2> QED BY <1>3, <2>2, <2>3, Zenon DEF Judged
<1> QED BY <1>8, <1>9, <1>10

\* Whatever the program is, the text of a file that includes nothing comes
\* out as its directives mean it when they are taken as a whole.
THEOREM ReferenceIsMatched == Spec => []MatchesReference
<1> DEFINE T == Alone => Track
<1>1. Inv /\ Init => T
  <2>1. SUFFICES ASSUME Inv, Init, Alone PROVE Track
    OBVIOUS
  <2>2. file = Main /\ callers = <<>> /\ outcome = "idle" /\ outcome # "ok" /\ outcome # "failed"
    BY <2>1 DEF Init
  <2>3. At(source[file], Groups!Live(source[file]), <<>>, 1)
    BY <2>1, AtStart
  <2> QED BY <2>2, <2>3, Zenon DEF Track
<1>2. Inv /\ T /\ [Next]_vars => T'
  <2>1. SUFFICES ASSUME Inv, T, [Next]_vars, Alone' PROVE Track'
    OBVIOUS
  <2>2. CASE Next
    <3>1. source' = source
      BY <2>2, StepsGoOn
    <3>2. Alone
      BY <2>1, <3>1 DEF Alone
    <3> QED BY <2>1, <2>2, <3>2, StepsTrack
  <2>3. CASE UNCHANGED vars
    <3>1. UNCHANGED <<source, file, callers, outcome, pos, conds, pending, macros, output>>
      BY <2>3, Zenon DEF vars, shared
    <3>2. Track
      BY <2>1, <3>1 DEF Alone
    <3> QED BY <3>1, <3>2, Zenon DEF Track, At, Sections, Marked, Chunk, Tables
  <2> QED BY <2>1, <2>2, <2>3
<1>3. T => MatchesReference
  BY Zenon DEF Track, MatchesReference
<1>4. Spec => []Inv
  BY Invariance
<1> QED BY <1>1, <1>2, <1>3, <1>4, PTL DEF Spec
=============================================================================
