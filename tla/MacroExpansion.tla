--------------------------- MODULE MacroExpansion ---------------------------
(***************************************************************************)
(* Macro expansion (lib/Lex/Preprocessor.cpp, expand): one scan over a     *)
(* queue of tokens, in which a macro's replacement is pushed back to the   *)
(* front of the queue to be scanned again, and a recursive call of expand  *)
(* for each argument that is substituted without # or ##.  A token carries *)
(* the names that may not replace it any more.                             *)
(*                                                                         *)
(* The queue, the output and the invocation being replaced belong to the   *)
(* innermost call of expand; those of the calls that wait for it are in    *)
(* callers.  One step is one iteration of a loop of the code.  White space *)
(* and locations are left out, and the spelling of a pasted token is a     *)
(* constant.                                                               *)
(***************************************************************************)
EXTENDS Integers, Sequences, FiniteSets

CONSTANTS
  Spelling,       \* texts of tokens, "(" ")" "," "#" "##" among them
  Identifier,     \* the texts that are identifiers
  Predefined,     \* identifiers isPredefined answers for
  PredefinedText, \* what they are replaced by
  Joined,         \* the token two tokens make when their texts are joined,
                  \* where there is one
  Tables,         \* the macro tables text may be expanded under
  Inputs,         \* the texts
  MaxDepth,       \* limit on calls of expand within each other (128)
  MaxHide,        \* limit on the hidden names of a token (128)
  MaxExpansions   \* limit on expansions in one run (100000)

(* struct Macro.  The last parameter of a variadic macro is __VA_ARGS__.   *)
Macro == [functionLike : BOOLEAN, variadic : BOOLEAN,
          parameters : Seq(Identifier), replacement : Seq(Spelling)]

(* What define has checked: # stands before a parameter, ## between two    *)
(* tokens that are not ##.                                                 *)
WellFormed(m) ==
  \A i \in 1..Len(m.replacement) :
    /\ m.functionLike /\ m.replacement[i] = "#" =>
         /\ i < Len(m.replacement)
         /\ \E k \in 1..Len(m.parameters) :
              m.parameters[k] = m.replacement[i + 1]
    /\ m.replacement[i] = "##" =>
         /\ 1 < i /\ i < Len(m.replacement)
         /\ m.replacement[i - 1] # "##"

String == "string"   \* the text of every string literal

ASSUME SpellingAssumption ==
  /\ {"(", ")", ",", "#", "##", String} \subseteq Spelling \ Identifier
  /\ Identifier \subseteq Spelling
  /\ Predefined \subseteq Identifier
  /\ PredefinedText \in Spelling \ Identifier
  /\ DOMAIN Joined \subseteq Spelling \X Spelling
  /\ \A q \in DOMAIN Joined : Joined[q] \in Spelling
ASSUME InputsAssumption ==
  /\ \A table \in Tables :
       /\ DOMAIN table \subseteq Identifier \ Predefined
       /\ \A n \in DOMAIN table : table[n] \in Macro /\ WellFormed(table[n])
  /\ Inputs \subseteq Seq(Spelling)
ASSUME LimitsAssumption ==
  {MaxDepth, MaxHide, MaxExpansions} \subseteq Nat \ {0}

VARIABLES
  source,      \* the text to expand, never changed
  macros,      \* _macros, not changed by expand
  pending,     \* the queue of tokens not yet scanned
  output,      \* the tokens that were scanned and not replaced
  phase,       \* of the innermost call: which loop it is in
  call,        \* the invocation it is replacing
  callers,     \* the calls that wait for it, outermost first
  expansions,  \* _expansions
  outcome      \* "running", "ok" or "failed"

vars == <<source, macros, pending, output, phase, call, callers, expansions,
          outcome>>

-----------------------------------------------------------------------------

(* A string made by # remembers the texts it was made of.  A token is only *)
(* ever hidden from macros of the table.                                   *)
Token == [text : Spelling, quoted : Seq(Spelling), hide : SUBSET DOMAIN macros]
Plain(t) == [text |-> t, quoted |-> <<>>, hide |-> {}]
Texts(tokens) == [i \in 1..Len(tokens) |-> tokens[i].text]
Quote(tokens) == [text |-> String, quoted |-> Texts(tokens), hide |-> {}]

(* A part of a replacement before pasting: a token, a placemarker for an   *)
(* empty argument, or the operator ##.                                     *)
Part == [kind : {"token", "empty", "paste"}, token : Token]
ToPart(t) == [kind |-> "token", token |-> t]
ToParts(tokens) == [i \in 1..Len(tokens) |-> ToPart(tokens[i])]
Placemarker == [kind |-> "empty", token |-> Plain(String)]
PasteMark == [kind |-> "paste", token |-> Plain("##")]

Call == [name : DOMAIN macros, hide : SUBSET DOMAIN macros,
         args : Seq(Seq(Token)), nesting : Nat,
         expanded : Seq(Seq(Token)), prepared : SUBSET Nat,
         at : Nat, parts : Seq(Part), pasted : Seq(Part)]
NewCall(t, hide, args) ==
  [name |-> t.text, hide |-> hide, args |-> args, nesting |-> 0,
   expanded |-> <<>>, prepared |-> {}, at |-> 1, parts |-> <<>>,
   pasted |-> <<>>]
NoCall == NewCall(Plain("#"), {}, <<>>)
Frame == [pending : Seq(Token), output : Seq(Token), call : Call]

M == macros[call.name]
Running(p) == outcome = "running" /\ phase = p
Fail == outcome' = "failed" /\ UNCHANGED <<source, macros, pending, output,
                                           phase, call, callers, expansions>>

Front(s) == SubSeq(s, 1, Len(s) - 1)
Final(s) == s[Len(s)]

-----------------------------------------------------------------------------
(* The scan.                                                               *)

MayReplace(t) == t.text \in Identifier \ t.hide

(* A name of a function-like macro is one only before a parenthesis.       *)
InvokesBeforeParenthesis(tokens) ==
  /\ MayReplace(tokens[1]) /\ tokens[1].text \in DOMAIN macros
  /\ Len(tokens) > 1 /\ tokens[2].text = "("
Invokes(tokens) ==
  LET t == tokens[1]
  IN /\ MayReplace(t) /\ t.text \in DOMAIN macros
     /\ macros[t.text].functionLike =>
          Len(tokens) > 1 /\ tokens[2].text = "("

Scanning == Running("scan") /\ pending # <<>>

Pass ==
  /\ Scanning
  /\ ~Invokes(pending)
  /\ ~(MayReplace(pending[1]) /\ pending[1].text \in Predefined)
  /\ output' = Append(output, pending[1])
  /\ pending' = Tail(pending)
  /\ UNCHANGED <<source, macros, phase, call, callers, expansions, outcome>>

PassPredefined ==
  /\ Scanning
  /\ MayReplace(pending[1]) /\ pending[1].text \in Predefined
  /\ IF expansions + 1 > MaxExpansions
     THEN Fail
     ELSE /\ expansions' = expansions + 1
          /\ output' = Append(output, [pending[1] EXCEPT !.text = PredefinedText])
          /\ pending' = Tail(pending)
          /\ UNCHANGED <<source, macros, phase, call, callers, outcome>>

(* The macro itself is hidden at once for an object-like macro, for a      *)
(* function-like one when the closing parenthesis is known.                *)
OverLimit(t) == Cardinality(t.hide) >= MaxHide \/ expansions >= MaxExpansions
Invoke ==
  /\ Scanning
  /\ Invokes(pending)
  /\ LET t == pending[1]
     IN IF OverLimit(t)
        THEN Fail
        ELSE /\ expansions' = expansions + 1
             /\ IF macros[t.text].functionLike
                THEN /\ phase' = "collect"
                     /\ call' = NewCall(t, t.hide, <<<<>>>>)
                     /\ pending' = Tail(Tail(pending))
                ELSE /\ phase' = "substitute"
                     /\ call' = NewCall(t, t.hide \cup {t.text}, <<>>)
                     /\ pending' = Tail(pending)
             /\ UNCHANGED <<source, macros, output, callers, outcome>>

-----------------------------------------------------------------------------
(* The arguments of an invocation.                                         *)

Collecting == Running("collect") /\ pending # <<>>
AtEndOfArguments == pending[1].text = ")" /\ call.nesting = 0

(* The code joins the surplus arguments of a variadic macro, with their    *)
(* commas, at the closing parenthesis; here they are never taken apart.    *)
Variable == M.variadic /\ Len(call.args) = Len(M.parameters)
Separates(t) == t.text = "," /\ call.nesting = 0 /\ ~Variable

Unterminated ==
  /\ Running("collect")
  /\ pending = <<>>
  /\ Fail

Separate ==
  /\ Collecting
  /\ Separates(pending[1])
  /\ call' = [call EXCEPT !.args = Append(@, <<>>)]
  /\ pending' = Tail(pending)
  /\ UNCHANGED <<source, macros, output, phase, callers, expansions, outcome>>

Gather ==
  /\ Collecting
  /\ ~AtEndOfArguments /\ ~Separates(pending[1])
  /\ call' = [call EXCEPT !.args[Len(call.args)] = Append(@, pending[1]),
                          !.nesting = CASE pending[1].text = "(" -> @ + 1
                                        [] pending[1].text = ")" -> @ - 1
                                        [] OTHER -> @]
  /\ pending' = Tail(pending)
  /\ UNCHANGED <<source, macros, output, phase, callers, expansions, outcome>>

(* f() has no argument when f has no parameter, an empty one otherwise.    *)
Arguments ==
  IF M.parameters = <<>> /\ call.args = <<<<>>>> THEN <<>> ELSE call.args

(* The hide set of an invocation is that of both its ends.                 *)
HiddenAtUnion(close) == call.hide \cup close.hide \cup {call.name}
HiddenAt(close) == (call.hide \cap close.hide) \cup {call.name}

CloseArguments ==
  /\ Collecting
  /\ AtEndOfArguments
  /\ IF Len(Arguments) # Len(M.parameters)
     THEN Fail
     ELSE /\ call' = [call EXCEPT !.args = Arguments,
                                  !.hide = HiddenAt(pending[1]),
                                  !.expanded = [i \in 1..Len(Arguments) |-> <<>>]]
          /\ phase' = "substitute"
          /\ pending' = Tail(pending)
          /\ UNCHANGED <<source, macros, output, callers, expansions, outcome>>

-----------------------------------------------------------------------------
(* Substitution, one token of the replacement list after the other.        *)

Substituting == Running("substitute") /\ call.at <= Len(M.replacement)

IsParameter(t) == M.functionLike /\ \E k \in 1..Len(M.parameters) : M.parameters[k] = t
Index(t) == CHOOSE k \in 1..Len(M.parameters) : M.parameters[k] = t
Quotes(t) == M.functionLike /\ t = "#"

NextToPaste(i) ==
  \/ i > 1 /\ M.replacement[i - 1] = "##"
  \/ i < Len(M.replacement) /\ M.replacement[i + 1] = "##"

(* What the token at call.at contributes, when it is not a parameter whose *)
(* argument has to be expanded first.                                      *)
ArgumentPartsOrNone(i) ==
  LET k == Index(M.replacement[i])
  IN ToParts(IF NextToPaste(i) THEN call.args[k] ELSE call.expanded[k])
ArgumentParts(i) ==
  LET k == Index(M.replacement[i])
  IN IF NextToPaste(i) /\ call.args[k] = <<>>
     THEN <<Placemarker>>
     ELSE ToParts(IF NextToPaste(i) THEN call.args[k] ELSE call.expanded[k])

Contribution(i) ==
  LET t == M.replacement[i]
  IN IF Quotes(t) THEN <<ToPart(Quote(call.args[Index(M.replacement[i + 1])]))>>
     ELSE IF t = "##" THEN <<PasteMark>>
     ELSE IF IsParameter(t) THEN ArgumentParts(i)
     ELSE <<ToPart(Plain(t))>>

(* An argument is expanded once, and only when it is needed expanded.      *)
NeedsPrescan ==
  /\ IsParameter(M.replacement[call.at])
  /\ ~NextToPaste(call.at)
  /\ Index(M.replacement[call.at]) \notin call.prepared

Prescan ==
  /\ Substituting
  /\ NeedsPrescan
  /\ IF Len(callers) + 1 >= MaxDepth
     THEN Fail
     ELSE /\ callers' = Append(callers, [pending |-> pending, output |-> output,
                                         call |-> call])
          /\ pending' = call.args[Index(M.replacement[call.at])]
          /\ output' = <<>>
          /\ phase' = "scan"
          /\ call' = NoCall
          /\ UNCHANGED <<source, macros, expansions, outcome>>

PreparedForgetting(c, k) == [c EXCEPT !.expanded[k] = output]
Prepared(c, k) ==
  [c EXCEPT !.expanded[k] = output, !.prepared = @ \cup {k}]

Return ==
  /\ Running("scan")
  /\ pending = <<>>
  /\ callers # <<>>
  /\ LET caller == Final(callers)
         m == macros[caller.call.name]
         k == CHOOSE k \in 1..Len(m.parameters) :
                m.parameters[k] = m.replacement[caller.call.at]
     IN /\ call' = Prepared(caller.call, k)
        /\ pending' = caller.pending
        /\ output' = caller.output
  /\ callers' = Front(callers)
  /\ phase' = "substitute"
  /\ UNCHANGED <<source, macros, expansions, outcome>>

Substitute ==
  /\ Substituting
  /\ ~NeedsPrescan
  /\ call' = [call EXCEPT !.parts = @ \o Contribution(call.at),
                          !.at = @ + (IF Quotes(M.replacement[@]) THEN 2 ELSE 1)]
  /\ UNCHANGED <<source, macros, pending, output, phase, callers, expansions,
                 outcome>>

StartPasting ==
  /\ Running("substitute")
  /\ call.at > Len(M.replacement)
  /\ phase' = "paste"
  /\ call' = [call EXCEPT !.at = 1]
  /\ UNCHANGED <<source, macros, pending, output, callers, expansions, outcome>>

-----------------------------------------------------------------------------
(* Pasting, from the left.                                                 *)

Pasting == Running("paste") /\ call.at <= Len(call.parts)
AtPaste == call.parts[call.at].kind = "paste"
Lhs == Final(call.pasted)
Rhs == call.parts[call.at + 1]

CopyPart ==
  /\ Pasting
  /\ ~AtPaste
  /\ call' = [call EXCEPT !.pasted = Append(@, call.parts[call.at]),
                          !.at = @ + 1]
  /\ UNCHANGED <<source, macros, pending, output, phase, callers, expansions,
                 outcome>>

Combine(left, right) ==
  [text |-> Joined[<<left.text, right.text>>], quoted |-> <<>>,
   hide |-> left.hide \cap right.hide]

Glued ==
  CASE Lhs.kind = "empty" -> Rhs
    [] Rhs.kind = "empty" -> Lhs
    [] OTHER -> ToPart(Combine(Lhs.token, Rhs.token))

Paste ==
  /\ Pasting
  /\ AtPaste
  /\ IF /\ Lhs.kind # "empty" /\ Rhs.kind # "empty"
        /\ <<Lhs.token.text, Rhs.token.text>> \notin DOMAIN Joined
     THEN Fail
     ELSE /\ call' = [call EXCEPT !.pasted = Append(Front(@), Glued),
                                  !.at = @ + 2]
          /\ UNCHANGED <<source, macros, pending, output, phase, callers,
                         expansions, outcome>>

StartRescan ==
  /\ Running("paste")
  /\ call.at > Len(call.parts)
  /\ phase' = "requeue"
  /\ UNCHANGED <<source, macros, pending, output, call, callers, expansions,
                 outcome>>

(* The replacement goes back to the front of the queue, last token first,  *)
(* without placemarkers.                                                   *)
Painted(t) == [t EXCEPT !.hide = @ \cup call.hide]

Requeue ==
  /\ Running("requeue")
  /\ IF call.pasted = <<>>
     THEN /\ phase' = "scan"
          /\ call' = NoCall
          /\ UNCHANGED pending
     ELSE /\ call' = [call EXCEPT !.pasted = Front(@)]
          /\ pending' = IF Final(call.pasted).kind = "empty"
                        THEN pending
                        ELSE <<Painted(Final(call.pasted).token)>> \o pending
          /\ UNCHANGED phase
  /\ UNCHANGED <<source, macros, output, callers, expansions, outcome>>

Finish ==
  /\ Running("scan")
  /\ pending = <<>>
  /\ callers = <<>>
  /\ outcome' = "ok"
  /\ UNCHANGED <<source, macros, pending, output, phase, call, callers,
                 expansions>>

Init ==
  /\ source \in Inputs
  /\ macros \in Tables
  /\ pending = [i \in 1..Len(source) |-> Plain(source[i])]
  /\ output = <<>>
  /\ phase = "scan"
  /\ call = NoCall
  /\ callers = <<>>
  /\ expansions = 0
  /\ outcome = "running"

Next ==
  \/ Pass
  \/ PassPredefined
  \/ Invoke
  \/ Unterminated
  \/ Separate
  \/ Gather
  \/ CloseArguments
  \/ Prescan
  \/ Return
  \/ Substitute
  \/ StartPasting
  \/ CopyPart
  \/ Paste
  \/ StartRescan
  \/ Requeue
  \/ Finish

Spec == Init /\ [][Next]_vars

(* expand is a loop that nothing interrupts.                               *)
FairSpec == Spec /\ WF_vars(Next)

-----------------------------------------------------------------------------
(* TypeOK: the variables of expand and of the calls that wait for it hold  *)
(* values of their types; so a token has at most as many hidden names as   *)
(* there are macros, and fewer than MaxHide macros never meet that limit.  *)
TypeOK ==
  /\ source \in Seq(Spelling)
  /\ macros \in Tables
  /\ pending \in Seq(Token)
  /\ output \in Seq(Token)
  /\ phase \in {"scan", "collect", "substitute", "paste", "requeue"}
  /\ call \in IF phase = "scan" THEN {NoCall} ELSE Call
  /\ callers \in Seq(Frame)
  /\ expansions \in Nat
  /\ outcome \in {"running", "ok", "failed"}

Expanded(t) ==
  t.text \in DOMAIN macros => macros[t.text].functionLike \/ t.text \in t.hide
AllExpanded(tokens) == \A i \in 1..Len(tokens) : Expanded(tokens[i])

(* NothingLeftToExpand: a name of an object-like macro that has left the   *)
(* queue, in this call, in one that waits or in an expanded argument, was  *)
(* produced by that macro itself; no other one is passed over.             *)
ArgumentsExpanded(c) == \A k \in 1..Len(c.expanded) : AllExpanded(c.expanded[k])
NothingLeftToExpand ==
  /\ AllExpanded(output)
  /\ phase # "scan" => ArgumentsExpanded(call)
  /\ \A i \in 1..Len(callers) :
       /\ AllExpanded(callers[i].output)
       /\ ArgumentsExpanded(callers[i].call)

(* WithinLimits: the work of expand is bounded whatever the macros are.    *)
WithinLimits ==
  /\ expansions <= MaxExpansions
  /\ Len(callers) < MaxDepth

(* PasteHasOperands: when a ## is reached, there is a part on its left to  *)
(* take back (line 479 of the code) and one on its right that is not ##    *)
(* (line 481), also when arguments are empty.                              *)
PasteHasOperands ==
  /\ Running("paste") /\ call.at <= Len(call.parts)
  /\ call.parts[call.at].kind = "paste"
  => /\ call.pasted # <<>>
     /\ call.at < Len(call.parts)
     /\ call.parts[call.at + 1].kind # "paste"

(* Terminates: expand returns.                                             *)
Terminates == <>(outcome # "running")
=============================================================================
