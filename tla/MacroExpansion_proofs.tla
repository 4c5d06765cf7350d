----------------------- MODULE MacroExpansion_proofs -----------------------
(***************************************************************************)
(* Proofs about macro expansion, for all tables that define can build, all *)
(* texts and all limits.                                                   *)
(***************************************************************************)
EXTENDS MacroExpansion, TLAPS, SequenceTheorems

(* The invocation c has as many arguments as its macro has parameters.     *)
Matched(c) ==
  macros[c.name].functionLike =>
    /\ Len(c.args) = Len(macros[c.name].parameters)
    /\ Len(c.expanded) = Len(macros[c.name].parameters)

(* What has been substituted so far: a ## stands between two parts, but    *)
(* for one that was just read; and a ## that comes next finds a part.      *)
Alternate(parts) ==
  \A i \in 1..Len(parts) :
    parts[i].kind = "paste" => i > 1 /\ parts[i - 1].kind # "paste"
PartsSoFar(c) ==
  LET r == macros[c.name].replacement
  IN /\ c.at \in 1..(Len(r) + 1)
     /\ Alternate(c.parts)
     /\ c.parts # <<>> /\ Final(c.parts).kind = "paste" =>
          c.at > 1 /\ r[c.at - 1] = "##"
     /\ c.at <= Len(r) /\ r[c.at] = "##" => c.parts # <<>>

(* Pasting: every ## has parts on both sides, and the left one was copied. *)
PartsComplete(c) ==
  /\ c.at \in 1..(Len(c.parts) + 1)
  /\ Alternate(c.parts)
  /\ c.parts # <<>> => Final(c.parts).kind # "paste"
  /\ c.at > 1 => c.pasted # <<>>

(* A call that waits stands on the parameter it has to expand.             *)
Waits(c) ==
  LET m == macros[c.name]
  IN /\ Matched(c) /\ PartsSoFar(c)
     /\ m.functionLike
     /\ c.at <= Len(m.replacement)
     /\ \E k \in 1..Len(m.parameters) : m.parameters[k] = m.replacement[c.at]

CallInv ==
  /\ phase = "collect" => call.at = 1 /\ call.parts = <<>>
  /\ phase = "substitute" => Matched(call) /\ PartsSoFar(call)
  /\ phase = "paste" => PartsComplete(call)
CallersInv == \A i \in 1..Len(callers) : Waits(callers[i].call)

Inv == TypeOK /\ CallInv /\ CallersInv

-----------------------------------------------------------------------------
LEMMA MacrosAreWellFormed ==
  ASSUME TypeOK, NEW n \in DOMAIN macros
  PROVE  /\ macros[n] \in Macro
         /\ WellFormed(macros[n])
         /\ n \in Identifier /\ n \notin Predefined
BY InputsAssumption DEF TypeOK

LEMMA FreshTokens ==
  ASSUME TypeOK, NEW t \in Spelling
  PROVE  Plain(t) \in Token
BY DEF Plain, Token

LEMMA Strings ==
  ASSUME TypeOK, NEW s \in Seq(Token)
  PROVE  Quote(s) \in Token
<1>0. ASSUME NEW i \in 1..Len(s) PROVE s[i].text \in Spelling
  <2>1. s[i] \in Token
    OBVIOUS
  <2> QED
    BY <2>1 DEF Token
<1>1. Texts(s) \in Seq(Spelling)
  <2>1. Len(s) \in Nat
    OBVIOUS
  <2>2. Texts(s) \in [1..Len(s) -> Spelling]
    BY <1>0 DEF Texts
  <2> QED
    BY <2>1, <2>2, SeqDef
<1>2. String \in Spelling
  BY SpellingAssumption
<1> QED
  BY <1>1, <1>2 DEF Quote, Token

LEMMA RestType ==
  ASSUME NEW S, NEW s \in Seq(S), s # <<>>
  PROVE  /\ s[1] \in S
         /\ Tail(s) \in Seq(S)
         /\ Len(Tail(s)) = Len(s) - 1
<1>1. Len(s) \in Nat /\ Len(s) # 0
  OBVIOUS
<1> QED
  BY <1>1, HeadTailProperties

LEMMA Prefix ==
  ASSUME NEW S, NEW s \in Seq(S), NEW n \in Nat, n <= Len(s)
  PROVE  /\ SubSeq(s, 1, n) \in Seq(S)
         /\ Len(SubSeq(s, 1, n)) = n
         /\ \A i \in 1..n : SubSeq(s, 1, n)[i] = s[i]
<1>1. \A i \in 1..n : s[i] \in S
  OBVIOUS
<1>2. /\ SubSeq(s, 1, n) \in Seq(S)
      /\ Len(SubSeq(s, 1, n)) = IF 1 <= n THEN n - 1 + 1 ELSE 0
      /\ \A i \in 1..(n - 1 + 1) : SubSeq(s, 1, n)[i] = s[1 + i - 1]
  BY <1>1, SubSeqProperties, 1 \in Int, n \in Int
<1> QED
  BY <1>2

LEMMA FrontType ==
  ASSUME NEW S, NEW s \in Seq(S), s # <<>>
  PROVE  /\ Front(s) \in Seq(S)
         /\ Len(Front(s)) = Len(s) - 1
         /\ Final(s) \in S
         /\ \A i \in 1..(Len(s) - 1) : Front(s)[i] = s[i]
<1> DEFINE n == Len(s) - 1
<1>1. n \in Nat /\ n <= Len(s)
  OBVIOUS
<1>2. /\ SubSeq(s, 1, n) \in Seq(S)
      /\ Len(SubSeq(s, 1, n)) = n
      /\ \A i \in 1..n : SubSeq(s, 1, n)[i] = s[i]
  <2> HIDE DEF n
  <2> QED
    BY <1>1, Prefix
<1>3. s[Len(s)] \in S
  OBVIOUS
<1> QED
  BY <1>2, <1>3 DEF Front, Final

LEMMA PartsOfTokens ==
  ASSUME TypeOK, NEW s \in Seq(Token)
  PROVE  /\ ToParts(s) \in Seq(Part)
         /\ Len(ToParts(s)) = Len(s)
         /\ \A i \in 1..Len(s) : ToParts(s)[i].kind = "token"
BY DEF ToParts, ToPart, Part

(* No step changes the table, so none changes what a token is.             *)
LEMMA TableIsConstant ==
  ASSUME [Next]_vars
  PROVE  macros' = macros /\ source' = source
BY DEF Next, vars, Pass, PassPredefined, Invoke, Unterminated, Separate, Gather,
       CloseArguments, Prescan, Return, Substitute, StartPasting, CopyPart,
       Paste, StartRescan, Requeue, Finish, Fail

LEMMA TypesAreConstant ==
  ASSUME macros' = macros
  PROVE  Token' = Token /\ Part' = Part /\ Call' = Call /\ Frame' = Frame
BY DEF Token, Part, Call, Frame

LEMMA TypeFromParts ==
  ASSUME TypeOK, UNCHANGED <<source, macros>>,
         pending' \in Seq(Token), output' \in Seq(Token),
         phase' \in {"scan", "collect", "substitute", "paste", "requeue"},
         call' \in IF phase' = "scan" THEN {NoCall} ELSE Call,
         callers' \in Seq(Frame), expansions' \in Nat,
         outcome' \in {"running", "ok", "failed"}
  PROVE  TypeOK'
BY TypesAreConstant DEF TypeOK, NoCall, NewCall, Plain

LEMMA CallersKept ==
  ASSUME CallersInv, UNCHANGED <<callers, macros>>
  PROVE  CallersInv'
BY DEF CallersInv, Waits, Matched, PartsSoFar, Alternate, Final

LEMMA CallersFrom ==
  ASSUME UNCHANGED macros, \A i \in 1..Len(callers') : Waits(callers'[i].call)
  PROVE  CallersInv'
BY DEF CallersInv, Waits, Matched, PartsSoFar, Alternate, Final

LEMMA FailKeeps ==
  ASSUME Inv, Fail
  PROVE  Inv'
<1>1. UNCHANGED <<source, macros, pending, output, phase, call, callers, expansions>>
  BY DEF Fail
<1>2. TypeOK'
  BY <1>1, TypeFromParts DEF Inv, TypeOK, Fail
<1>3. CallersInv'
  BY <1>1, CallersKept DEF Inv
<1>4. CallInv'
  BY <1>1 DEF Inv, CallInv, Matched, PartsSoFar, PartsComplete, Alternate, Final
<1> QED
  BY <1>2, <1>3, <1>4 DEF Inv

-----------------------------------------------------------------------------
(* The scan.                                                               *)
LEMMA PassKeeps ==
  ASSUME Inv, Pass \/ PassPredefined \/ Finish
  PROVE  Inv'
<1>1. CASE Fail
  BY <1>1, FailKeeps
<1>2. CASE ~Fail
  <2>1. UNCHANGED <<source, macros, phase, call, callers>> /\ phase = "scan"
    BY <1>2 DEF Pass, PassPredefined, Finish, Scanning, Running
  <2>2. /\ pending \in Seq(Token) /\ output \in Seq(Token) /\ expansions \in Nat
        /\ pending # <<>> => pending[1] \in Token /\ Tail(pending) \in Seq(Token)
    BY DEF Inv, TypeOK
  <2>3. /\ pending' \in Seq(Token) /\ output' \in Seq(Token)
        /\ expansions' \in Nat /\ outcome' \in {"running", "ok", "failed"}
    <3>1. CASE Pass
      BY <2>2, <3>1 DEF Pass, Scanning, Running
    <3>2. CASE PassPredefined
      <4>1. [pending[1] EXCEPT !.text = PredefinedText] \in Token
        BY <2>2, <3>2, SpellingAssumption DEF PassPredefined, Scanning, Token
      <4>2. /\ expansions' = expansions + 1
            /\ output' = Append(output, [pending[1] EXCEPT !.text = PredefinedText])
            /\ pending' = Tail(pending) /\ outcome' = outcome /\ pending # <<>>
        BY <1>2, <3>2 DEF PassPredefined, Scanning
      <4>3. outcome' \in {"running", "ok", "failed"}
        BY <4>2 DEF Inv, TypeOK
      <4>4. output' \in Seq(Token)
        BY <2>2, <4>1, <4>2, AppendProperties
      <4> QED
        BY <2>2, <4>2, <4>3, <4>4
    <3>3. CASE Finish
      BY <2>2, <3>3 DEF Finish
    <3> QED
      BY <3>1, <3>2, <3>3
  <2>4. TypeOK'
    BY <2>1, <2>3, TypeFromParts DEF Inv, TypeOK
  <2>5. CallersInv'
    BY <2>1, CallersKept DEF Inv
  <2>6. CallInv'
    BY <2>1 DEF CallInv
  <2> QED
    BY <2>4, <2>5, <2>6 DEF Inv
<1> QED
  BY <1>1, <1>2

LEMMA NewCallType ==
  ASSUME TypeOK, NEW t \in Token, t.text \in DOMAIN macros,
         NEW h \in SUBSET DOMAIN macros, NEW a \in Seq(Seq(Token))
  PROVE  /\ NewCall(t, h, a) \in Call
         /\ NewCall(t, h, a).name = t.text
         /\ NewCall(t, h, a).at = 1
         /\ NewCall(t, h, a).parts = <<>>
BY DEF NewCall, Call

LEMMA InvokeKeeps ==
  ASSUME Inv, Invoke
  PROVE  Inv'
<1> DEFINE t == pending[1]
<1> USE DEF Inv
<1>1. CASE OverLimit(t)
  BY <1>1, FailKeeps DEF Invoke
<1>2. CASE ~OverLimit(t)
  <2>1. /\ UNCHANGED <<source, macros, output, callers, outcome>>
        /\ expansions' = expansions + 1
    BY <1>2 DEF Invoke
  <2>2. pending \in Seq(Token) /\ pending # <<>>
    BY DEF TypeOK, Invoke, Scanning
  <2>3. t \in Token /\ t.hide \in SUBSET DOMAIN macros
    <3>1. t \in Token
      BY <2>2, RestType
    <3> QED
      BY <3>1 DEF Token
  <2>4. t.text \in DOMAIN macros
    BY DEF Invoke, Invokes
  <2>5. CallersInv'
    BY <2>1, CallersKept
  <2>6. CASE macros[t.text].functionLike
    <3>1. /\ phase' = "collect" /\ call' = NewCall(t, t.hide, <<<<>>>>)
          /\ pending' = Tail(Tail(pending))
      BY <1>2, <2>6 DEF Invoke
    <3>2. Tail(pending) \in Seq(Token) /\ Tail(pending) # <<>>
      <4>1. Len(pending) > 1
        BY <2>6 DEF Invoke, Invokes
      <4>2. Tail(pending) \in Seq(Token) /\ Len(Tail(pending)) = Len(pending) - 1
        BY <2>2, RestType
      <4>3. Len(Tail(pending)) # 0
        BY <2>2, <4>1, <4>2, LenProperties
      <4> QED
        BY <4>2, <4>3, EmptySeq
    <3>3. pending' \in Seq(Token)
      BY <3>1, <3>2, RestType
    <3>4. call' \in Call
      <4>1. <<<<>>>> \in Seq(Seq(Token))
        OBVIOUS
      <4> QED
        BY <2>3, <2>4, <3>1, <4>1, NewCallType
    <3>5. TypeOK'
      BY <2>1, <3>1, <3>3, <3>4, TypeFromParts DEF TypeOK
    <3>6. CallInv'
      BY <2>3, <2>4, <3>1 DEF CallInv, NewCall
    <3> QED
      BY <2>5, <3>5, <3>6
  <2>7. CASE ~macros[t.text].functionLike
    <3>1. /\ phase' = "substitute"
          /\ call' = NewCall(t, t.hide \cup {t.text}, <<>>)
          /\ pending' = Tail(pending)
      BY <1>2, <2>7 DEF Invoke
    <3>2. pending' \in Seq(Token)
      BY <2>2, <3>1
    <3>3. /\ call' \in Call /\ call'.name = t.text
          /\ call'.at = 1 /\ call'.parts = <<>>
      <4>1. <<>> \in Seq(Seq(Token)) /\ t.hide \cup {t.text} \in SUBSET DOMAIN macros
        BY <2>3, <2>4
      <4> QED
        BY <2>3, <2>4, <3>1, <4>1, NewCallType
    <3>4. TypeOK'
      BY <2>1, <3>1, <3>2, <3>3, TypeFromParts DEF TypeOK
    <3>5. CallInv'
      <4>1. Matched(call)'
        BY <2>1, <2>7, <3>3 DEF Matched
      <4>2. PartsSoFar(call)'
        <5>1. WellFormed(macros[t.text]) /\ macros[t.text] \in Macro
          BY <2>4, MacrosAreWellFormed
        <5>2. Len(macros[t.text].replacement) \in Nat
          BY <5>1 DEF Macro
        <5>3. 1 <= Len(macros[t.text].replacement) =>
                macros[t.text].replacement[1] # "##"
          BY <5>1, <5>2 DEF WellFormed
        <5> QED
          BY <2>1, <3>3, <5>2, <5>3 DEF PartsSoFar, Alternate
      <4> QED
        BY <3>1, <4>1, <4>2 DEF CallInv
    <3> QED
      BY <2>5, <3>4, <3>5
  <2> QED
    BY <2>6, <2>7
<1> QED
  BY <1>1, <1>2

-----------------------------------------------------------------------------
(* The arguments.                                                          *)
LEMMA CallFields ==
  ASSUME TypeOK, phase # "scan"
  PROVE  /\ call \in Call
         /\ call.name \in DOMAIN macros /\ call.hide \in SUBSET DOMAIN macros
         /\ call.args \in Seq(Seq(Token)) /\ call.expanded \in Seq(Seq(Token))
         /\ call.nesting \in Nat /\ call.at \in Nat /\ call.prepared \in SUBSET Nat
         /\ call.parts \in Seq(Part) /\ call.pasted \in Seq(Part)
<1>1. call \in Call
  BY DEF TypeOK
<1> QED
  BY <1>1 DEF Call

LEMMA CollectKeeps ==
  ASSUME Inv, Separate \/ Gather
  PROVE  Inv'
<1> USE DEF Inv
<1>1. /\ phase = "collect" /\ pending # <<>> /\ phase' = phase
      /\ UNCHANGED <<source, macros, output, callers, expansions, outcome>>
      /\ pending' = Tail(pending)
  BY DEF Separate, Gather, Collecting, Running
<1>2. pending \in Seq(Token)
  BY DEF TypeOK
<1>3. pending[1] \in Token /\ pending' \in Seq(Token)
  BY <1>1, <1>2, RestType
<1>4. call \in Call /\ call.args \in Seq(Seq(Token)) /\ call.nesting \in Nat
  BY <1>1, CallFields
<1>5. call' \in Call
  <2>1. CASE Separate
    <3>1. <<>> \in Seq(Token)
      OBVIOUS
    <3>2. Append(call.args, <<>>) \in Seq(Seq(Token))
      BY <1>4, <3>1, AppendProperties
    <3>3. call' = [call EXCEPT !.args = Append(@, <<>>)]
      BY <2>1 DEF Separate
    <3> QED
      BY <1>4, <3>2, <3>3 DEF Call
  <2>2. CASE Gather
    <3> DEFINE n == Len(call.args)
               a == [call.args EXCEPT ![n] = Append(@, pending[1])]
               d == CASE pending[1].text = "(" -> call.nesting + 1
                      [] pending[1].text = ")" -> call.nesting - 1
                      [] OTHER -> call.nesting
    <3>1. call' = [call EXCEPT !.args = a, !.nesting = d]
      BY <1>4, <2>2 DEF Gather, Call
    <3>2. d \in Nat
      <4>1. pending[1].text = ")" => call.nesting # 0
        BY <2>2 DEF Gather, AtEndOfArguments
      <4> QED
        BY <1>4, <4>1
    <3>3. a \in Seq(Seq(Token))
      <4>1. CASE n \in 1..n
        <5>1. call.args[n] \in Seq(Token)
          BY <1>4, <4>1, ElementOfSeq
        <5>2. Append(call.args[n], pending[1]) \in Seq(Token)
          BY <1>3, <5>1, AppendProperties
        <5> QED
          BY <1>4, <4>1, <5>2, ExceptSeq
      <4>2. CASE n \notin 1..n
        <5>1. a = call.args
          BY <1>4, <4>2
        <5> QED
          BY <1>4, <5>1
      <4> QED
        BY <4>1, <4>2
    <3> HIDE DEF a, d
    <3> QED
      BY <1>4, <3>1, <3>2, <3>3 DEF Call
  <2> QED
    BY <2>1, <2>2
<1>6. TypeOK'
  BY <1>1, <1>3, <1>5, TypeFromParts DEF TypeOK
<1>7. CallersInv'
  BY <1>1, CallersKept
<1>8. CallInv'
  <2>1. call'.at = call.at /\ call'.parts = call.parts
    BY <1>4 DEF Separate, Gather, Call
  <2> QED
    BY <1>1, <2>1 DEF CallInv
<1> QED
  BY <1>6, <1>7, <1>8

LEMMA CloseKeeps ==
  ASSUME Inv, CloseArguments
  PROVE  Inv'
<1> USE DEF Inv
<1>1. CASE Len(Arguments) # Len(M.parameters)
  BY <1>1, FailKeeps DEF CloseArguments
<1>2. CASE Len(Arguments) = Len(M.parameters)
  <2> DEFINE e == [i \in 1..Len(Arguments) |-> <<>>]
             h == HiddenAt(pending[1])
  <2>1. /\ UNCHANGED <<source, macros, output, callers, expansions, outcome>>
        /\ phase = "collect" /\ pending # <<>>
        /\ phase' = "substitute" /\ pending' = Tail(pending)
        /\ call' = [call EXCEPT !.args = Arguments, !.hide = h, !.expanded = e]
    BY <1>2 DEF CloseArguments, Collecting, Running
  <2>2. pending \in Seq(Token)
    BY DEF TypeOK
  <2>3. pending[1] \in Token /\ pending' \in Seq(Token)
    BY <2>1, <2>2, RestType
  <2>4. /\ call \in Call /\ call.args \in Seq(Seq(Token))
        /\ call.name \in DOMAIN macros /\ call.hide \in SUBSET DOMAIN macros
    BY <2>1, CallFields
  <2>5. Arguments \in Seq(Seq(Token))
    BY <2>4 DEF Arguments
  <2>6. e \in Seq(Seq(Token)) /\ Len(e) = Len(Arguments)
    <3>1. Len(Arguments) \in Nat
      BY <2>5
    <3>2. e \in [1..Len(Arguments) -> Seq(Token)]
      OBVIOUS
    <3> QED
      BY <3>1, <3>2, SeqDef
  <2>7. h \in SUBSET DOMAIN macros
    BY <2>4 DEF HiddenAt
  <2> HIDE DEF e, h
  <2>8. /\ call' \in Call /\ call'.name = call.name /\ call'.args = Arguments
        /\ call'.expanded = e /\ call'.at = call.at /\ call'.parts = call.parts
    BY <2>1, <2>4, <2>5, <2>6, <2>7 DEF Call
  <2>9. TypeOK'
    BY <2>1, <2>3, <2>8, TypeFromParts DEF TypeOK
  <2>10. CallersInv'
    BY <2>1, CallersKept
  <2>11. CallInv'
    <3>1. Matched(call)'
      BY <1>2, <2>1, <2>6, <2>8 DEF Matched, M
    <3>2. call.at = 1 /\ call.parts = <<>>
      BY <2>1 DEF CallInv
    <3>3. PartsSoFar(call)'
      <4>1. WellFormed(M) /\ M \in Macro
        BY <2>4, MacrosAreWellFormed DEF M
      <4>2. Len(M.replacement) \in Nat
        BY <4>1 DEF Macro
      <4>3. 1 <= Len(M.replacement) => M.replacement[1] # "##"
        BY <4>1, <4>2 DEF WellFormed
      <4> QED
        BY <2>1, <2>8, <3>2, <4>2, <4>3 DEF PartsSoFar, Alternate, M
    <3> QED
      BY <2>1, <3>1, <3>3 DEF CallInv
  <2> QED
    BY <2>9, <2>10, <2>11
<1> QED
  BY <1>1, <1>2

-----------------------------------------------------------------------------
(* Substitution.                                                           *)
LEMMA CurrentMacro ==
  ASSUME TypeOK, phase # "scan"
  PROVE  /\ M \in Macro /\ WellFormed(M)
         /\ M.parameters \in Seq(Identifier) /\ M.replacement \in Seq(Spelling)
         /\ M.functionLike \in BOOLEAN
<1>1. M \in Macro /\ WellFormed(M)
  BY CallFields, MacrosAreWellFormed DEF M
<1> QED
  BY <1>1 DEF Macro

(* The parameter a token names.                                            *)
LEMMA ParameterIndex ==
  ASSUME TypeOK, phase # "scan", NEW t, \E k \in 1..Len(M.parameters) : M.parameters[k] = t
  PROVE  Index(t) \in 1..Len(M.parameters) /\ M.parameters[Index(t)] = t
BY DEF Index

LEMMA PrescanKeeps ==
  ASSUME Inv, Prescan
  PROVE  Inv'
<1> USE DEF Inv
<1>1. CASE Len(callers) + 1 >= MaxDepth
  BY <1>1, FailKeeps DEF Prescan
<1>2. CASE ~(Len(callers) + 1 >= MaxDepth)
  <2> DEFINE k == Index(M.replacement[call.at])
             f == [pending |-> pending, output |-> output, call |-> call]
  <2>1. /\ UNCHANGED <<source, macros, expansions, outcome>>
        /\ callers' = Append(callers, f)
        /\ pending' = call.args[k] /\ output' = <<>>
        /\ phase' = "scan" /\ call' = NoCall
    BY <1>2 DEF Prescan
  <2>2. /\ phase = "substitute" /\ call.at <= Len(M.replacement)
        /\ IsParameter(M.replacement[call.at])
    BY DEF Prescan, Substituting, Running, NeedsPrescan
  <2>3. call \in Call /\ call.args \in Seq(Seq(Token))
    BY <2>2, CallFields
  <2>4. Matched(call) /\ PartsSoFar(call)
    BY <2>2 DEF CallInv
  <2>5. f \in Frame
    BY <2>3 DEF Frame, TypeOK
  <2>6. callers \in Seq(Frame)
    BY DEF TypeOK
  <2>7. callers' \in Seq(Frame)
    BY <2>1, <2>5, <2>6, AppendProperties
  <2>8. pending' \in Seq(Token)
    <3>1. k \in 1..Len(call.args)
      BY <2>2, <2>4, ParameterIndex DEF Matched, IsParameter, M
    <3> QED
      BY <2>1, <2>3, <3>1, ElementOfSeq
  <2>9. TypeOK'
    BY <2>1, <2>7, <2>8, TypeFromParts DEF TypeOK
  <2>10. Waits(call)
    BY <2>2, <2>4 DEF Waits, IsParameter, M
  <2>11. CallersInv'
    <3>1. ASSUME NEW i \in 1..Len(callers') PROVE Waits(callers'[i].call)
      <4>1. /\ Len(callers') = Len(callers) + 1
            /\ callers'[Len(callers) + 1] = f
            /\ \A j \in 1..Len(callers) : callers'[j] = callers[j]
        BY <2>1, <2>5, <2>6, AppendProperties
      <4>2. CASE i = Len(callers) + 1
        BY <2>10, <4>1, <4>2
      <4>3. CASE i \in 1..Len(callers)
        BY <4>1, <4>3 DEF CallersInv
      <4> QED
        BY <2>6, <4>1, <4>2, <4>3
    <3> QED
      BY <2>1, <3>1, CallersFrom
  <2>12. CallInv'
    BY <2>1 DEF CallInv
  <2> QED
    BY <2>9, <2>11, <2>12
<1> QED
  BY <1>1, <1>2

LEMMA ReturnKeeps ==
  ASSUME Inv, Return
  PROVE  Inv'
<1> USE DEF Inv
<1> DEFINE c == Final(callers).call
           m == macros[c.name]
           k == CHOOSE k \in 1..Len(m.parameters) : m.parameters[k] = m.replacement[c.at]
<1>1. /\ UNCHANGED <<source, macros, expansions, outcome>>
      /\ call' = Prepared(c, k)
      /\ pending' = Final(callers).pending /\ output' = Final(callers).output
      /\ callers' = Front(callers) /\ phase' = "substitute"
      /\ callers # <<>>
  BY DEF Return
<1>2. callers \in Seq(Frame)
  BY DEF TypeOK
<1>3. /\ Front(callers) \in Seq(Frame) /\ Final(callers) \in Frame
      /\ Len(Front(callers)) = Len(callers) - 1
      /\ \A i \in 1..(Len(callers) - 1) : Front(callers)[i] = callers[i]
  BY <1>1, <1>2, FrontType
<1>4. /\ c \in Call /\ Final(callers).pending \in Seq(Token)
      /\ Final(callers).output \in Seq(Token)
  BY <1>3 DEF Frame
<1>5. Waits(c)
  BY <1>1, <1>2 DEF CallersInv, Final
<1>6. /\ c.name \in DOMAIN macros /\ c.expanded \in Seq(Seq(Token))
      /\ c.prepared \in SUBSET Nat
  BY <1>4 DEF Call
<1>7. m.parameters \in Seq(Identifier)
  BY <1>6, MacrosAreWellFormed DEF Macro
<1>8. k \in 1..Len(m.parameters) /\ Len(c.expanded) = Len(m.parameters)
  BY <1>5 DEF Waits, Matched
<1>9. output \in Seq(Token)
  BY DEF TypeOK
<1>10. /\ [c.expanded EXCEPT ![k] = output] \in Seq(Seq(Token))
       /\ Len([c.expanded EXCEPT ![k] = output]) = Len(c.expanded)
  BY <1>6, <1>8, <1>9, ExceptSeq
<1> HIDE DEF k, c
<1>11. /\ call' \in Call /\ call'.name = c.name /\ call'.args = c.args
       /\ call'.expanded = [c.expanded EXCEPT ![k] = output]
       /\ call'.at = c.at /\ call'.parts = c.parts
  <2>1. c.prepared \cup {k} \in SUBSET Nat
    BY <1>6, <1>7, <1>8
  <2> QED
    BY <1>1, <1>4, <1>10, <2>1 DEF Prepared, Call
<1>12. TypeOK'
  BY <1>1, <1>3, <1>4, <1>11, TypeFromParts DEF TypeOK
<1>13. CallersInv'
  <2>1. \A i \in 1..Len(callers') : Waits(callers'[i].call)
    BY <1>1, <1>2, <1>3 DEF CallersInv
  <2> QED
    BY <1>1, <2>1, CallersFrom
<1>14. CallInv'
  <2>1. Matched(call)'
    BY <1>1, <1>5, <1>10, <1>11 DEF Waits, Matched
  <2>2. PartsSoFar(call)'
    BY <1>1, <1>5, <1>11 DEF Waits, PartsSoFar, Alternate
  <2> QED
    BY <1>1, <2>1, <2>2 DEF CallInv
<1> QED
  BY <1>12, <1>13, <1>14

LEMMA MarksAreParts ==
  ASSUME TypeOK
  PROVE  /\ PasteMark \in Part /\ PasteMark.kind = "paste"
         /\ Placemarker \in Part /\ Placemarker.kind = "empty"
         /\ \A t \in Token : ToPart(t) \in Part /\ ToPart(t).kind = "token"
BY SpellingAssumption, FreshTokens DEF PasteMark, Placemarker, Part, ToPart

LEMMA OnePart ==
  ASSUME NEW p \in Part
  PROVE  /\ <<p>> \in Seq(Part) /\ Len(<<p>>) = 1 /\ <<p>> # <<>>
         /\ \A j \in 1..1 : <<p>>[j] = p
OBVIOUS

(* What a token of the replacement contributes: ## its mark; anything else *)
(* parts that are not marks, and at least one beside a ##.                 *)
Contributes(i, c) ==
  /\ c \in Seq(Part)
  /\ M.replacement[i] = "##" => c = <<PasteMark>>
  /\ M.replacement[i] # "##" => \A j \in 1..Len(c) : c[j].kind # "paste"
  /\ NextToPaste(i) => c # <<>>
  /\ Quotes(M.replacement[i]) =>
       i < Len(M.replacement) /\ c # <<>> /\ M.replacement[i + 1] # "##"

LEMMA ContributionFacts ==
  ASSUME Inv, Substitute
  PROVE  Contributes(call.at, Contribution(call.at))
<1> USE DEF Inv
<1> DEFINE i == call.at
           t == M.replacement[i]
           c == Contribution(i)
<1>1. phase = "substitute" /\ i <= Len(M.replacement) /\ ~NeedsPrescan
  BY DEF Substitute, Substituting, Running
<1>2. Matched(call) /\ PartsSoFar(call)
  BY <1>1 DEF CallInv
<1>3. /\ M \in Macro /\ WellFormed(M) /\ M.parameters \in Seq(Identifier)
      /\ M.replacement \in Seq(Spelling)
  BY <1>1, CurrentMacro
<1>4. i \in 1..Len(M.replacement)
  BY <1>1, <1>2, <1>3 DEF PartsSoFar, M
<1>5. t \in Spelling
  BY <1>3, <1>4, ElementOfSeq
<1>6. /\ call.args \in Seq(Seq(Token)) /\ call.expanded \in Seq(Seq(Token))
  BY <1>1, CallFields
<1>7. CASE Quotes(t)
  <2> DEFINE q == Quote(call.args[Index(M.replacement[i + 1])])
  <2>1. /\ i < Len(M.replacement) /\ M.functionLike /\ t = "#"
        /\ \E k \in 1..Len(M.parameters) : M.parameters[k] = M.replacement[i + 1]
    BY <1>3, <1>4, <1>7 DEF Quotes, WellFormed
  <2>2. Index(M.replacement[i + 1]) \in 1..Len(call.args)
    BY <1>1, <1>2, <2>1, ParameterIndex DEF Matched, M
  <2>3. call.args[Index(M.replacement[i + 1])] \in Seq(Token)
    BY <1>6, <2>2, ElementOfSeq
  <2>4. q \in Token
    BY <2>3, Strings
  <2>5. c = <<ToPart(q)>>
    BY <1>7 DEF Contribution
  <2>6. M.replacement[i + 1] # "##"
    <3>1. PICK k \in 1..Len(M.parameters) : M.parameters[k] = M.replacement[i + 1]
      BY <2>1
    <3>2. M.parameters[k] \in Identifier
      BY <1>3, <3>1, ElementOfSeq
    <3> QED
      BY <3>1, <3>2, SpellingAssumption
  <2> QED
    BY <2>1, <2>4, <2>5, <2>6, MarksAreParts, OnePart DEF Contributes
<1>8. CASE t = "##"
  <2>1. ~Quotes(t)
    BY <1>8 DEF Quotes
  <2>2. c = <<PasteMark>>
    BY <1>8, <2>1 DEF Contribution
  <2> QED
    BY <1>8, <2>1, <2>2, MarksAreParts, OnePart DEF Contributes
<1>9. CASE ~Quotes(t) /\ t # "##" /\ IsParameter(t)
  <2> DEFINE k == Index(t)
             s == IF NextToPaste(i) THEN call.args[k] ELSE call.expanded[k]
  <2>1. c = ArgumentParts(i)
    BY <1>9 DEF Contribution
  <2>2. k \in 1..Len(call.args) /\ k \in 1..Len(call.expanded)
    BY <1>1, <1>2, <1>9, ParameterIndex DEF Matched, M, IsParameter
  <2>3. s \in Seq(Token)
    BY <1>6, <2>2, ElementOfSeq
  <2>4. CASE NextToPaste(i) /\ call.args[k] = <<>>
    <3>1. c = <<Placemarker>>
      BY <2>1, <2>4 DEF ArgumentParts
    <3> QED
      BY <1>9, <3>1, MarksAreParts, OnePart DEF Contributes
  <2>5. CASE ~(NextToPaste(i) /\ call.args[k] = <<>>)
    <3>1. c = ToParts(s)
      BY <2>1, <2>5 DEF ArgumentParts
    <3>2. /\ ToParts(s) \in Seq(Part) /\ Len(ToParts(s)) = Len(s)
          /\ \A j \in 1..Len(s) : ToParts(s)[j].kind = "token"
      BY <2>3, PartsOfTokens
    <3>3. NextToPaste(i) => Len(s) # 0
      BY <2>3, <2>5, EmptySeq
    <3> QED
      BY <1>9, <3>1, <3>2, <3>3, EmptySeq DEF Contributes
  <2> QED
    BY <2>4, <2>5
<1>10. CASE ~Quotes(t) /\ t # "##" /\ ~IsParameter(t)
  <2>1. c = <<ToPart(Plain(t))>>
    BY <1>10 DEF Contribution
  <2>2. Plain(t) \in Token
    BY <1>5, FreshTokens
  <2> QED
    BY <1>10, <2>1, <2>2, MarksAreParts, OnePart DEF Contributes
<1> QED
  BY <1>7, <1>8, <1>9, <1>10

LEMMA FinalOfConcat ==
  ASSUME NEW S, NEW s \in Seq(S), NEW c \in Seq(S)
  PROVE  /\ s \o c \in Seq(S)
         /\ c = <<>> => s \o c = s
         /\ c # <<>> => s \o c # <<>> /\ Final(s \o c) = Final(c)
<1>1. /\ s \o c \in Seq(S) /\ Len(s \o c) = Len(s) + Len(c)
      /\ \A i \in 1..(Len(s) + Len(c)) :
           (s \o c)[i] = IF i <= Len(s) THEN s[i] ELSE c[i - Len(s)]
  BY ConcatProperties
<1>2. Len(s) \in Nat /\ Len(c) \in Nat
  OBVIOUS
<1>3. CASE c = <<>>
  BY <1>1, <1>3, ConcatEmptySeq
<1>4. CASE c # <<>>
  <2>1. Len(c) # 0
    BY <1>4, EmptySeq
  <2>2. Len(s \o c) # 0
    BY <1>1, <1>2, <2>1
  <2>3. s \o c # <<>>
    BY <2>2, EmptySeq
  <2>4. (s \o c)[Len(s) + Len(c)] = c[Len(c)]
    BY <1>1, <1>2, <2>1
  <2> QED
    BY <1>1, <1>4, <2>3, <2>4 DEF Final
<1> QED
  BY <1>3, <1>4

LEMMA AlternateConcat ==
  ASSUME NEW s \in Seq(Part), NEW c \in Seq(Part), Alternate(s),
         \/ \A j \in 1..Len(c) : c[j].kind # "paste"
         \/ Len(c) = 1 /\ s # <<>> /\ Final(s).kind # "paste"
  PROVE  Alternate(s \o c)
<1>1. /\ Len(s \o c) = Len(s) + Len(c)
      /\ \A i \in 1..(Len(s) + Len(c)) :
           (s \o c)[i] = IF i <= Len(s) THEN s[i] ELSE c[i - Len(s)]
  BY ConcatProperties
<1>2. Len(s) \in Nat /\ Len(c) \in Nat /\ (s # <<>> => Len(s) # 0)
  BY EmptySeq
<1>3. ASSUME NEW i \in 1..(Len(s) + Len(c)), (s \o c)[i].kind = "paste"
      PROVE  i > 1 /\ (s \o c)[i - 1].kind # "paste"
  <2>1. CASE i <= Len(s)
    <3>1. i \in 1..Len(s) /\ s[i].kind = "paste"
      BY <1>1, <1>2, <1>3, <2>1
    <3>2. i > 1 /\ s[i - 1].kind # "paste"
      BY <3>1 DEF Alternate
    <3> QED
      BY <1>1, <1>2, <2>1, <3>2
  <2>2. CASE i > Len(s)
    <3>1. i - Len(s) \in 1..Len(c) /\ c[i - Len(s)].kind = "paste"
      BY <1>1, <1>2, <1>3, <2>2
    <3>2. Len(c) = 1 /\ s # <<>> /\ Final(s).kind # "paste"
      BY <3>1
    <3>3. i = Len(s) + 1 /\ Len(s) # 0
      BY <1>2, <3>1, <3>2
    <3>4. i - 1 = Len(s) /\ i - 1 \in 1..(Len(s) + Len(c))
      BY <1>2, <3>3
    <3>5. (s \o c)[i - 1] = s[Len(s)]
      BY <1>1, <3>4
    <3> QED
      BY <1>2, <3>2, <3>3, <3>5 DEF Final
  <2> QED
    BY <1>2, <2>1, <2>2
<1> QED
  BY <1>1, <1>3 DEF Alternate

LEMMA SubstituteKeeps ==
  ASSUME Inv, Substitute
  PROVE  Inv'
<1> USE DEF Inv
<1> DEFINE i == call.at
           c == Contribution(i)
           w == IF Quotes(M.replacement[i]) THEN 2 ELSE 1
<1>1. /\ UNCHANGED <<source, macros, pending, output, phase, callers, expansions, outcome>>
      /\ phase = "substitute" /\ i <= Len(M.replacement)
      /\ call' = [call EXCEPT !.parts = @ \o c, !.at = @ + w]
  <2>1. phase = "substitute"
    BY DEF Substitute, Substituting, Running
  <2>2. call \in Call
    BY <2>1, CallFields
  <2> QED
    BY <2>1, <2>2 DEF Substitute, Substituting, Call
<1>2. Matched(call) /\ PartsSoFar(call)
  BY <1>1 DEF CallInv
<1>3. /\ WellFormed(M) /\ M.replacement \in Seq(Spelling)
  BY <1>1, CurrentMacro
<1>4. call \in Call /\ call.parts \in Seq(Part) /\ i \in Nat
  BY <1>1, CallFields
<1>5. i \in 1..Len(M.replacement) /\ Len(M.replacement) \in Nat
  BY <1>1, <1>2, <1>3 DEF PartsSoFar, M
<1>6. Contributes(i, c)
  BY ContributionFacts
<1>8. w \in {1, 2} /\ (w = 2 <=> Quotes(M.replacement[i]))
  OBVIOUS
<1> HIDE DEF c, w
<1>18. c \in Seq(Part)
  BY <1>6 DEF Contributes
<1>7. /\ call.parts \o c \in Seq(Part)
      /\ c = <<>> => call.parts \o c = call.parts
      /\ c # <<>> => /\ call.parts \o c # <<>>
                     /\ Final(call.parts \o c) = Final(c)
  BY <1>4, <1>18, FinalOfConcat
<1>9. /\ call' \in Call /\ call'.name = call.name /\ call'.args = call.args
      /\ call'.expanded = call.expanded
      /\ call'.parts = call.parts \o c /\ call'.at = i + w
  <2>1. i + w \in Nat
    BY <1>4, <1>8
  <2>2. call' = [call EXCEPT !.parts = call.parts \o c, !.at = i + w]
    BY <1>1, <1>4 DEF Call
  <2> QED
    BY <1>4, <1>7, <2>1, <2>2 DEF Call
<1>10. TypeOK'
  BY <1>1, <1>9, TypeFromParts DEF TypeOK
<1>11. CallersInv'
  BY <1>1, CallersKept
<1> DEFINE r == M.replacement
           p == call.parts \o c
<1>12. i + w \in 1..(Len(r) + 1)
  BY <1>5, <1>6, <1>8 DEF Contributes
<1>13. r[i] = "##" => Len(c) = 1 /\ call.parts # <<>> /\ Final(call.parts).kind # "paste"
  <2>1. r[i] = "##" => i > 1 /\ r[i - 1] # "##"
    BY <1>3, <1>5 DEF WellFormed
  <2>2. r[i] = "##" => c = <<PasteMark>>
    BY <1>6 DEF Contributes
  <2> QED
    BY <1>2, <1>5, <2>1, <2>2 DEF PartsSoFar, M
<1>14. Alternate(p)
  BY <1>2, <1>4, <1>6, <1>13, AlternateConcat DEF Contributes, PartsSoFar
<1>15. p # <<>> /\ Final(p).kind = "paste" => i + w > 1 /\ r[i + w - 1] = "##"
  <2>1. CASE r[i] = "##"
    <3>1. ~Quotes(r[i])
      BY <2>1 DEF Quotes
    <3> QED
      BY <1>5, <1>8, <2>1, <3>1
  <2>2. CASE r[i] # "##" /\ c # <<>>
    <3>1. Len(c) \in 1..Len(c) /\ Final(c) = c[Len(c)]
      BY <1>6, <2>2 DEF Contributes, Final
    <3>2. Final(c).kind # "paste"
      BY <1>6, <2>2, <3>1 DEF Contributes
    <3> QED
      BY <1>7, <2>2, <3>2
  <2>3. CASE r[i] # "##" /\ c = <<>>
    <3>1. ~NextToPaste(i)
      BY <1>6, <2>3 DEF Contributes
    <3>2. ~(i > 1 /\ r[i - 1] = "##")
      BY <3>1 DEF NextToPaste
    <3> QED
      BY <1>2, <1>7, <2>3, <3>2 DEF PartsSoFar, M
  <2> QED
    BY <2>1, <2>2, <2>3
<1>16. i + w <= Len(r) /\ r[i + w] = "##" => p # <<>>
  <2>1. CASE w = 2
    BY <1>6, <1>7, <1>8, <2>1 DEF Contributes
  <2>2. CASE w = 1 /\ i + 1 <= Len(r) /\ r[i + 1] = "##"
    <3>1. NextToPaste(i)
      BY <1>5, <2>2 DEF NextToPaste
    <3> QED
      BY <1>6, <1>7, <3>1 DEF Contributes
  <2> QED
    BY <1>8, <2>1, <2>2
<1>17. CallInv'
  <2>1. Matched(call)'
    BY <1>1, <1>2, <1>9 DEF Matched
  <2>2. PartsSoFar(call)'
    <3>1. macros'[call'.name].replacement = r
      BY <1>1, <1>9 DEF M
    <3>4. call'.parts = p /\ call'.at = i + w
      BY <1>9
    <3> HIDE DEF p, r
    <3>2. /\ call'.at \in 1..(Len(r) + 1)
          /\ call'.parts # <<>> /\ Final(call'.parts).kind = "paste" =>
               call'.at > 1 /\ r[call'.at - 1] = "##"
          /\ call'.at <= Len(r) /\ r[call'.at] = "##" => call'.parts # <<>>
      BY <3>4, <1>4, <1>5, <1>8, <1>12, <1>15, <1>16
    <3>3. \A j \in 1..Len(call'.parts) : call'.parts[j].kind = "paste" =>
            j > 1 /\ call'.parts[j - 1].kind # "paste"
      BY <3>4, <1>14 DEF Alternate
    <3> QED
      BY <3>1, <3>2, <3>3 DEF PartsSoFar, Alternate, Final
  <2> QED
    BY <1>1, <2>1, <2>2 DEF CallInv
<1> QED
  BY <1>10, <1>11, <1>17

LEMMA StartPastingKeeps ==
  ASSUME Inv, StartPasting
  PROVE  Inv'
<1> USE DEF Inv
<1>1. /\ UNCHANGED <<source, macros, pending, output, callers, expansions, outcome>>
      /\ phase = "substitute" /\ call.at > Len(M.replacement)
      /\ phase' = "paste" /\ call' = [call EXCEPT !.at = 1]
  BY DEF StartPasting, Running
<1>2. PartsSoFar(call)
  BY <1>1 DEF CallInv
<1>3. call \in Call /\ call.parts \in Seq(Part) /\ call.at \in Nat
  BY <1>1, CallFields
<1>4. WellFormed(M) /\ M.replacement \in Seq(Spelling)
  BY <1>1, CurrentMacro
<1>5. call' \in Call /\ call'.at = 1 /\ call'.parts = call.parts
  BY <1>1, <1>3 DEF Call
<1>6. call.parts # <<>> => Final(call.parts).kind # "paste"
  <2> DEFINE n == Len(M.replacement)
  <2>1. call.at = n + 1 /\ n \in Nat
    BY <1>1, <1>2, <1>4 DEF PartsSoFar, M
  <2>2. n > 0 => M.replacement[n] # "##"
    BY <1>4, <2>1 DEF WellFormed
  <2> QED
    BY <1>2, <2>1, <2>2 DEF PartsSoFar, M
<1>7. TypeOK'
  BY <1>1, <1>5, TypeFromParts DEF TypeOK
<1>8. CallersInv'
  BY <1>1, CallersKept
<1>9. CallInv'
  <2>1. Len(call.parts) \in Nat /\ Alternate(call.parts)
    BY <1>2, <1>3 DEF PartsSoFar
  <2>2. PartsComplete(call)'
    BY <1>5, <1>6, <2>1 DEF PartsComplete, Alternate, Final
  <2> QED
    BY <1>1, <2>2 DEF CallInv
<1> QED
  BY <1>7, <1>8, <1>9

-----------------------------------------------------------------------------
(* Pasting.                                                                *)
LEMMA PasteFacts ==
  ASSUME Inv, Running("paste"), call.at <= Len(call.parts)
  PROVE  /\ call.at \in 1..Len(call.parts)
         /\ call.parts[call.at] \in Part
         /\ AtPaste => /\ call.pasted # <<>>
                       /\ call.at + 1 \in 1..Len(call.parts)
                       /\ Lhs \in Part /\ Rhs \in Part
                       /\ Rhs.kind # "paste"
<1> USE DEF Inv
<1>1. phase = "paste" /\ PartsComplete(call)
  BY DEF Running, CallInv
<1>2. call.parts \in Seq(Part) /\ call.pasted \in Seq(Part) /\ call.at \in Nat
  BY <1>1, CallFields
<1>3. call.at \in 1..Len(call.parts) /\ Len(call.parts) \in Nat
  BY <1>1, <1>2 DEF PartsComplete
<1>4. call.parts[call.at] \in Part
  BY <1>2, <1>3, ElementOfSeq
<1>5. ASSUME AtPaste
      PROVE  /\ call.pasted # <<>> /\ call.at + 1 \in 1..Len(call.parts)
             /\ Rhs.kind # "paste"
  <2>1. call.at > 1 /\ call.pasted # <<>>
    BY <1>1, <1>3, <1>5 DEF PartsComplete, Alternate, AtPaste
  <2>2. call.at # Len(call.parts)
    <3>1. call.parts # <<>>
      BY <1>3
    <3> QED
      BY <1>1, <1>5, <3>1 DEF PartsComplete, AtPaste, Final
  <2>3. call.at + 1 \in 1..Len(call.parts)
    BY <1>3, <2>2
  <2>4. Rhs.kind # "paste"
    <3>1. call.at + 1 - 1 = call.at
      BY <1>2
    <3> QED
      BY <1>1, <1>5, <2>3, <3>1 DEF PartsComplete, Alternate, AtPaste, Rhs
  <2> QED
    BY <2>1, <2>3, <2>4
<1>6. ASSUME AtPaste PROVE Lhs \in Part /\ Rhs \in Part
  BY <1>2, <1>5, <1>6, FrontType, ElementOfSeq DEF Lhs, Rhs
<1> QED
  BY <1>3, <1>4, <1>5, <1>6

LEMMA PasteKeeps ==
  ASSUME Inv, CopyPart \/ Paste
  PROVE  Inv'
<1> USE DEF Inv
<1>1. CASE Fail
  BY <1>1, FailKeeps
<1>2. CASE ~Fail
  <2>1. /\ UNCHANGED <<source, macros, pending, output, phase, callers, expansions, outcome>>
        /\ Running("paste") /\ phase = "paste" /\ call.at <= Len(call.parts)
    BY <1>2 DEF CopyPart, Paste, Pasting, Running
  <2>2. PartsComplete(call)
    BY <2>1 DEF CallInv
  <2>3. /\ call \in Call /\ call.parts \in Seq(Part) /\ call.pasted \in Seq(Part)
        /\ call.at \in Nat
    BY <2>1, CallFields
  <2>4. call.at \in 1..Len(call.parts) /\ call.parts[call.at] \in Part
    BY <2>1, PasteFacts
  <2>5. PICK s, n : /\ call' = [call EXCEPT !.pasted = s, !.at = n]
                    /\ s \in Seq(Part) /\ s # <<>>
                    /\ n \in 1..(Len(call.parts) + 1)
    <3>1. CASE CopyPart
      <4> DEFINE s == Append(call.pasted, call.parts[call.at])
      <4>1. call' = [call EXCEPT !.pasted = s, !.at = call.at + 1]
        BY <2>3, <3>1 DEF CopyPart, Call
      <4>2. s \in Seq(Part) /\ s # <<>>
        BY <2>3, <2>4, AppendProperties
      <4>3. call.at + 1 \in 1..(Len(call.parts) + 1)
        BY <2>3, <2>4
      <4> HIDE DEF s
      <4> QED
        BY <4>1, <4>2, <4>3
    <3>2. CASE Paste
      <4> DEFINE s == Append(Front(call.pasted), Glued)
      <4>1. /\ AtPaste
            /\ ~(/\ Lhs.kind # "empty" /\ Rhs.kind # "empty"
                 /\ <<Lhs.token.text, Rhs.token.text>> \notin DOMAIN Joined)
            /\ call' = [call EXCEPT !.pasted = s, !.at = call.at + 2]
        BY <1>2, <2>3, <3>2 DEF Paste, Call
      <4>2. /\ call.pasted # <<>> /\ call.at + 1 \in 1..Len(call.parts)
            /\ Lhs \in Part /\ Rhs \in Part
        BY <2>1, <4>1, PasteFacts
      <4>3. Glued \in Part
        <5>1. Lhs.token \in Token /\ Rhs.token \in Token
          BY <4>2 DEF Part
        <5>2. CASE Lhs.kind = "empty" \/ Rhs.kind = "empty"
          BY <4>2, <5>2 DEF Glued
        <5>3. CASE Lhs.kind # "empty" /\ Rhs.kind # "empty"
          <6>1. Joined[<<Lhs.token.text, Rhs.token.text>>] \in Spelling
            BY <4>1, <5>3, SpellingAssumption
          <6>2. Lhs.token.hide \cap Rhs.token.hide \in SUBSET DOMAIN macros
            BY <5>1 DEF Token
          <6>3. Combine(Lhs.token, Rhs.token) \in Token
            BY <6>1, <6>2 DEF Combine, Token
          <6> QED
            BY <5>3, <6>3, MarksAreParts DEF Glued
        <5> QED
          BY <5>2, <5>3
      <4>4. Front(call.pasted) \in Seq(Part)
        BY <2>3, <4>2, FrontType
      <4>5. s \in Seq(Part) /\ s # <<>>
        BY <4>3, <4>4, AppendProperties
      <4>6. call.at + 2 \in 1..(Len(call.parts) + 1)
        BY <2>3, <4>2
      <4> HIDE DEF s
      <4> QED
        BY <4>1, <4>5, <4>6
    <3> QED
      BY <3>1, <3>2
  <2>6. /\ call' \in Call /\ call'.parts = call.parts
        /\ call'.at = n /\ call'.pasted = s
    <3>1. n \in Nat
      BY <2>3, <2>5
    <3> QED
      BY <2>3, <2>5, <3>1 DEF Call
  <2>7. TypeOK'
    BY <2>1, <2>6, TypeFromParts DEF TypeOK
  <2>8. CallersInv'
    BY <2>1, CallersKept
  <2>9. PartsComplete(call)'
    BY <2>2, <2>5, <2>6 DEF PartsComplete, Alternate, Final
  <2>10. CallInv'
    BY <2>1, <2>9 DEF CallInv
  <2> QED
    BY <2>7, <2>8, <2>10
<1> QED
  BY <1>1, <1>2

LEMMA RequeueKeeps ==
  ASSUME Inv, StartRescan \/ Requeue
  PROVE  Inv'
<1> USE DEF Inv
<1>1. /\ UNCHANGED <<source, macros, output, callers, expansions, outcome>>
      /\ phase \in {"paste", "requeue"} /\ phase' \in {"requeue", "scan"}
  BY DEF StartRescan, Requeue, Running
<1>2. /\ call \in Call /\ call.pasted \in Seq(Part)
      /\ call.hide \in SUBSET DOMAIN macros
  BY <1>1, CallFields
<1>3. pending \in Seq(Token)
  BY DEF TypeOK
<1>4. /\ call' \in IF phase' = "scan" THEN {NoCall} ELSE Call
      /\ pending' \in Seq(Token)
  <2>1. CASE StartRescan
    BY <1>2, <1>3, <2>1 DEF StartRescan
  <2>2. CASE Requeue /\ call.pasted = <<>>
    BY <1>3, <2>2 DEF Requeue
  <2>3. CASE Requeue /\ call.pasted # <<>>
    <3>1. /\ call' = [call EXCEPT !.pasted = Front(call.pasted)]
          /\ pending' = IF Final(call.pasted).kind = "empty"
                        THEN pending
                        ELSE <<Painted(Final(call.pasted).token)>> \o pending
          /\ phase' = "requeue"
      BY <1>2, <2>3 DEF Requeue, Call, Running
    <3>2. Front(call.pasted) \in Seq(Part) /\ Final(call.pasted) \in Part
      BY <1>2, <2>3, FrontType
    <3>3. call' \in Call
      BY <1>2, <3>1, <3>2 DEF Call
    <3>4. Painted(Final(call.pasted).token) \in Token
      BY <1>2, <3>2 DEF Painted, Part, Token
    <3>5. <<Painted(Final(call.pasted).token)>> \o pending \in Seq(Token)
      <4> DEFINE t == Painted(Final(call.pasted).token)
      <4> HIDE DEF t
      <4>1. <<t>> \in Seq(Token)
        BY <3>4 DEF t
      <4>2. <<t>> \o pending \in Seq(Token)
        BY <1>3, <4>1, ConcatProperties
      <4> QED
        BY <4>2 DEF t
    <3> QED
      BY <1>3, <3>1, <3>3, <3>5
  <2> QED
    BY <2>1, <2>2, <2>3
<1>5. TypeOK'
  BY <1>1, <1>4, TypeFromParts DEF TypeOK
<1>6. CallersInv'
  BY <1>1, CallersKept
<1>7. CallInv'
  BY <1>1 DEF CallInv
<1> QED
  BY <1>5, <1>6, <1>7

-----------------------------------------------------------------------------
LEMMA UnterminatedFails ==
  ASSUME Inv, Unterminated
  PROVE  Inv'
BY FailKeeps DEF Unterminated

LEMMA StutterKeeps ==
  ASSUME Inv, UNCHANGED vars
  PROVE  Inv'
<1>1. UNCHANGED <<source, macros, pending, output, phase, call, callers, expansions, outcome>>
  BY DEF vars
<1>2. TypeOK'
  BY <1>1, TypeFromParts DEF Inv, TypeOK
<1>3. CallersInv'
  BY <1>1, CallersKept DEF Inv
<1>4. CallInv'
  BY <1>1 DEF Inv, CallInv, Matched, PartsSoFar, PartsComplete, Alternate, Final
<1> QED
  BY <1>2, <1>3, <1>4 DEF Inv

LEMMA InitInv ==
  ASSUME Init
  PROVE  Inv
<1>1. source \in Seq(Spelling)
  BY InputsAssumption DEF Init
<1>2. pending \in Seq(Token)
  <2>1. ASSUME NEW i \in 1..Len(source) PROVE Plain(source[i]) \in Token
    <3>1. source[i] \in Spelling
      BY <1>1, ElementOfSeq
    <3> QED
      BY <3>1 DEF Plain, Token
  <2>2. pending \in [1..Len(source) -> Token] /\ Len(source) \in Nat
    BY <1>1, <2>1 DEF Init
  <2> QED
    BY <2>2, SeqDef
<1>3. TypeOK
  BY <1>1, <1>2 DEF Init, TypeOK
<1> QED
  BY <1>3 DEF Init, Inv, CallInv, CallersInv

LEMMA NextKeeps ==
  ASSUME Inv, [Next]_vars
  PROVE  Inv'
<1>1. CASE UNCHANGED vars
  BY <1>1, StutterKeeps
<1>2. CASE Next
  BY <1>2, PassKeeps, InvokeKeeps, UnterminatedFails, CollectKeeps, CloseKeeps,
     PrescanKeeps, ReturnKeeps, SubstituteKeeps, StartPastingKeeps, PasteKeeps,
     RequeueKeeps DEF Next
<1> QED
  BY <1>1, <1>2

THEOREM Invariance == Spec => []Inv
<1>1. Init => Inv
  BY InitInv
<1>2. Inv /\ [Next]_vars => Inv'
  BY NextKeeps
<1> QED
  BY <1>1, <1>2, PTL DEF Spec

(* TypeCorrect: the state of expand has its types in every run; in         *)
(* particular a token is only hidden from macros of the table.             *)
THEOREM TypeCorrect == Spec => []TypeOK
<1>1. Inv => TypeOK
  BY DEF Inv
<1> QED
  BY <1>1, Invariance, PTL

(* OperandsExist: pasting takes no part from an empty list and reads none  *)
(* behind the end, whatever the arguments are.                             *)
THEOREM OperandsExist == Spec => []PasteHasOperands
<1>1. Inv => PasteHasOperands
  <2> SUFFICES ASSUME Inv, Running("paste"), call.at <= Len(call.parts),
                      call.parts[call.at].kind = "paste"
               PROVE  /\ call.pasted # <<>>
                      /\ call.at < Len(call.parts)
                      /\ call.parts[call.at + 1].kind # "paste"
    BY DEF PasteHasOperands
  <2>1. /\ call.pasted # <<>> /\ call.at + 1 \in 1..Len(call.parts)
        /\ Rhs.kind # "paste"
    BY PasteFacts DEF AtPaste
  <2>2. call.at \in Nat /\ Len(call.parts) \in Nat
    BY PasteFacts, CallFields DEF Inv, Running
  <2> QED
    BY <2>1, <2>2 DEF Rhs
<1> QED
  BY <1>1, Invariance, PTL

-----------------------------------------------------------------------------
(* WorkIsBounded: no macro table makes expand do more expansions, or nest  *)
(* its calls more deeply, than its limits allow.                           *)
THEOREM WorkIsBounded == Spec => []WithinLimits
<1>1. Init => WithinLimits
  BY LimitsAssumption DEF Init, WithinLimits
<1>2. TypeOK /\ WithinLimits /\ [Next]_vars => WithinLimits'
  <2> SUFFICES ASSUME TypeOK, WithinLimits, [Next]_vars
               PROVE  WithinLimits'
    OBVIOUS
  <2>1. /\ expansions \in Nat /\ callers \in Seq(Frame)
        /\ MaxExpansions \in Nat /\ MaxDepth \in Nat
    BY LimitsAssumption DEF TypeOK
  <2>2. expansions' = expansions \/ (expansions < MaxExpansions /\ expansions' = expansions + 1)
    BY <2>1 DEF Next, vars, Pass, PassPredefined, Invoke, OverLimit, Unterminated,
       Separate, Gather, CloseArguments, Prescan, Return, Substitute, StartPasting,
       CopyPart, Paste, StartRescan, Requeue, Finish, Fail
  <2>3. Len(callers') < MaxDepth
    <3>1. CASE UNCHANGED callers
      BY <3>1 DEF WithinLimits
    <3>2. CASE Prescan /\ ~UNCHANGED callers
      <4>1. Len(callers) + 1 < MaxDepth
        BY <2>1, <3>2 DEF Prescan, Fail
      <4>2. PICK f : callers' = Append(callers, f)
        BY <3>2 DEF Prescan, Fail
      <4>3. Len(callers') = Len(callers) + 1
        BY <2>1, <4>2
      <4> QED
        BY <4>1, <4>3
    <3>3. CASE Return
      <4>1. callers # <<>> /\ callers' = Front(callers)
        BY <3>3 DEF Return
      <4>2. Len(callers') = Len(callers) - 1
        BY <2>1, <4>1, FrontType
      <4> QED
        BY <2>1, <4>2 DEF WithinLimits
    <3> QED
      BY <3>1, <3>2, <3>3 DEF Next, vars, Pass, PassPredefined, Invoke, Unterminated,
         Separate, Gather, CloseArguments, Substitute, StartPasting,
         CopyPart, Paste, StartRescan, Requeue, Finish, Fail
  <2> QED
    BY <2>1, <2>2, <2>3 DEF WithinLimits
<1> QED
  BY <1>1, <1>2, TypeCorrect, PTL DEF Spec

-----------------------------------------------------------------------------
LEMMA ExpandedAppend ==
  ASSUME NEW s \in Seq(Token), AllExpanded(s), NEW t \in Token, Expanded(t)
  PROVE  AllExpanded(Append(s, t))
<1>1. /\ Len(Append(s, t)) = Len(s) + 1 /\ Append(s, t)[Len(s) + 1] = t
      /\ \A i \in 1..Len(s) : Append(s, t)[i] = s[i]
  BY AppendProperties
<1>2. \A i \in 1..(Len(s) + 1) : i \in 1..Len(s) \/ i = Len(s) + 1
  OBVIOUS
<1> QED
  BY <1>1, <1>2 DEF AllExpanded

(* The invariant for the calls that wait.                                  *)
CallersExpanded(stack) ==
  \A i \in 1..Len(stack) :
    AllExpanded(stack[i].output) /\ ArgumentsExpanded(stack[i].call)

(* A token that is passed is no object-like macro that could be replaced.  *)
LEMMA PassedIsExpanded ==
  ASSUME TypeOK, Pass \/ PassPredefined, ~Fail
  PROVE  AllExpanded(output) => AllExpanded(output')
<1>1. pending \in Seq(Token) /\ output \in Seq(Token) /\ pending # <<>>
  BY DEF TypeOK, Pass, PassPredefined, Scanning
<1>2. pending[1] \in Token
  BY <1>1, RestType
<1>3. CASE Pass
  <2>1. Expanded(pending[1])
    <3> SUFFICES ASSUME pending[1].text \in DOMAIN macros,
                        ~macros[pending[1].text].functionLike
                 PROVE  pending[1].text \in pending[1].hide
      BY DEF Expanded
    <3>1. pending[1].text \in Identifier
      BY MacrosAreWellFormed
    <3>2. ~Invokes(pending)
      BY <1>3 DEF Pass
    <3> QED
      BY <3>1, <3>2 DEF Invokes, MayReplace
  <2>2. output' = Append(output, pending[1])
    BY <1>3 DEF Pass
  <2> QED
    BY <1>1, <1>2, <2>1, <2>2, ExpandedAppend
<1>4. CASE PassPredefined
  <2> DEFINE t == [pending[1] EXCEPT !.text = PredefinedText]
  <2>1. t \in Token /\ t.text = PredefinedText
    BY <1>2, SpellingAssumption DEF Token
  <2>2. output' = Append(output, t)
    BY <1>4 DEF PassPredefined
  <2> HIDE DEF t
  <2>3. Expanded(t)
    BY <2>1, MacrosAreWellFormed, SpellingAssumption DEF Expanded
  <2> QED
    BY <1>1, <2>1, <2>2, <2>3, ExpandedAppend
<1> QED
  BY <1>3, <1>4

(* AllAreExpanded: whatever expand has passed, anywhere, was examined      *)
(* under the rules; no object-like macro is missed.                        *)
THEOREM AllAreExpanded == Spec => []NothingLeftToExpand
<1>1. Init => NothingLeftToExpand
  BY DEF Init, NothingLeftToExpand, AllExpanded
<1>2. Inv /\ NothingLeftToExpand /\ [Next]_vars => NothingLeftToExpand'
  <2> SUFFICES ASSUME Inv, NothingLeftToExpand, [Next]_vars
               PROVE  NothingLeftToExpand'
    OBVIOUS
  <2>1. macros' = macros
    BY TableIsConstant
  <2>2. TypeOK /\ AllExpanded(output) /\ CallersExpanded(callers)
        /\ (phase # "scan" => ArgumentsExpanded(call))
    BY DEF Inv, NothingLeftToExpand, CallersExpanded
  <2>3. SUFFICES /\ AllExpanded(output') /\ CallersExpanded(callers')
                 /\ phase' # "scan" => ArgumentsExpanded(call')
    BY <2>1, <2>3 DEF NothingLeftToExpand, CallersExpanded, AllExpanded,
       ArgumentsExpanded, Expanded
  <2>4. CASE UNCHANGED <<output, callers, phase, call>>
    BY <2>2, <2>4
  <2>5. CASE (Pass \/ PassPredefined) /\ ~Fail
    <3>1. UNCHANGED <<callers, phase, call>>
      BY <2>5 DEF Pass, PassPredefined
    <3> QED
      BY <2>2, <2>5, <3>1, PassedIsExpanded
  <2>6. CASE (Invoke \/ CloseArguments) /\ ~Fail
    <3>1. UNCHANGED <<output, callers>>
      BY <2>6 DEF Invoke, CloseArguments
    <3>2. ArgumentsExpanded(call')
      <4>1. CASE Invoke
        BY <2>6, <4>1 DEF Invoke, NewCall, ArgumentsExpanded
      <4>2. CASE CloseArguments
        <5>1. phase # "scan" /\ call \in Call
          BY <2>2, <4>2, CallFields DEF CloseArguments, Collecting, Running
        <5>2. call'.expanded = [i \in 1..Len(Arguments) |-> <<>>]
          BY <2>6, <4>2, <5>1 DEF CloseArguments, Call
        <5>3. Len(Arguments) \in Nat
          BY <2>2, <5>1, CallFields DEF Arguments
        <5> QED
          BY <5>2, <5>3 DEF ArgumentsExpanded, AllExpanded
      <4> QED
        BY <2>6, <4>1, <4>2
    <3> QED
      BY <2>2, <3>1, <3>2
  <2>7. CASE Separate \/ Gather \/ Substitute \/ StartPasting
             \/ ((CopyPart \/ Paste) /\ ~Fail)
    <3>1. phase # "scan" /\ UNCHANGED <<output, callers>>
      BY <2>7 DEF Separate, Gather, Substitute, StartPasting, CopyPart, Paste,
         Collecting, Substituting, Pasting, Running
    <3>2. call \in Call
      BY <2>2, <3>1, CallFields
    <3>3. call'.expanded = call.expanded
      BY <2>7, <3>2 DEF Separate, Gather, Substitute, StartPasting, CopyPart,
         Paste, Call
    <3> QED
      BY <2>2, <3>1, <3>3 DEF ArgumentsExpanded
  <2>8. CASE StartRescan \/ Requeue
    <3>1. phase # "scan" /\ UNCHANGED <<output, callers>>
      BY <2>8 DEF StartRescan, Requeue, Running
    <3>2. call \in Call
      BY <2>2, <3>1, CallFields
    <3>3. phase' # "scan" => call'.expanded = call.expanded
      BY <2>8, <3>2 DEF StartRescan, Requeue, Call
    <3> QED
      BY <2>2, <3>1, <3>3 DEF ArgumentsExpanded
  <2>9. CASE Prescan /\ ~Fail
    <3> DEFINE f == [pending |-> pending, output |-> output, call |-> call]
    <3>1. /\ callers' = Append(callers, f) /\ output' = <<>>
          /\ phase = "substitute" /\ phase' = "scan"
      BY <2>9 DEF Prescan, Substituting, Running
    <3>2. f.output = output /\ f.call = call
      OBVIOUS
    <3>3. callers \in Seq(Frame)
      BY <2>2 DEF TypeOK
    <3> HIDE DEF f
    <3>4. /\ Len(callers') = Len(callers) + 1 /\ callers'[Len(callers) + 1] = f
          /\ \A i \in 1..Len(callers) : callers'[i] = callers[i]
      BY <3>1, <3>3
    <3>5. CallersExpanded(callers')
      <4>1. \A i \in 1..Len(callers') : i \in 1..Len(callers) \/ i = Len(callers) + 1
        BY <3>3, <3>4
      <4> QED
        BY <2>2, <3>1, <3>2, <3>4, <4>1 DEF CallersExpanded
    <3>6. AllExpanded(output')
      BY <3>1 DEF AllExpanded
    <3> QED
      BY <3>1, <3>5, <3>6
  <2>10. CASE Return
    <3> DEFINE c == Final(callers).call
    <3>1. PICK k : call' = [c EXCEPT !.expanded[k] = output, !.prepared = @ \cup {k}]
      BY <2>10 DEF Return, Prepared
    <3>2. /\ callers # <<>> /\ callers' = Front(callers)
          /\ output' = Final(callers).output
      BY <2>10 DEF Return
    <3>3. callers \in Seq(Frame)
      BY <2>2 DEF TypeOK
    <3>4. /\ Final(callers) \in Frame /\ Len(Front(callers)) = Len(callers) - 1
          /\ \A i \in 1..(Len(callers) - 1) : Front(callers)[i] = callers[i]
      BY <3>2, <3>3, FrontType
    <3>5. AllExpanded(Final(callers).output) /\ ArgumentsExpanded(c)
      <4>1. Len(callers) \in 1..Len(callers)
        BY <3>2, <3>3
      <4> QED
        BY <2>2, <4>1 DEF CallersExpanded, Final
    <3>6. CallersExpanded(callers')
      <4>1. \A i \in 1..Len(callers') : i \in 1..Len(callers) /\ callers'[i] = callers[i]
        BY <3>2, <3>3, <3>4
      <4> QED
        BY <2>2, <4>1 DEF CallersExpanded
    <3>7. c \in Call /\ c.expanded \in Seq(Seq(Token))
      <4>1. c \in Call
        BY <3>4 DEF Frame
      <4> QED
        BY <4>1 DEF Call
    <3>8. call'.expanded = [c.expanded EXCEPT ![k] = output]
      BY <3>1, <3>7 DEF Call
    <3>9. ArgumentsExpanded(call')
      <4>1. /\ Len([c.expanded EXCEPT ![k] = output]) = Len(c.expanded)
            /\ \A j \in 1..Len(c.expanded) :
                 [c.expanded EXCEPT ![k] = output][j] \in {c.expanded[j], output}
        BY <3>7
      <4> QED
        BY <2>2, <3>5, <3>8, <4>1 DEF ArgumentsExpanded
    <3> QED
      BY <3>2, <3>5, <3>6, <3>9
  <2> QED
    BY <2>4, <2>5, <2>6, <2>7, <2>8, <2>9, <2>10
       DEF Next, vars, Fail, Unterminated, Finish
<1> QED
  BY <1>1, <1>2, Invariance, PTL DEF Spec
=============================================================================
