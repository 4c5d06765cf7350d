---------------------------- MODULE Frontend_proofs ----------------------------
(* Proofs about the driver, for any command lines and texts: it keeps what   *)
(* Invocation promises, leaves only whole trees behind, and hands the parser *)
(* every token once.  The passes stop at errors in different ways, so that   *)
(* the invariant says for each place of the program what cannot have         *)
(* happened before (Staged), what the tree is (Grown), and what lies between *)
(* the cursor and the parser (Handed).  The command line is a matter of its  *)
(* own (ReadInv).                                                            *)
EXTENDS Frontend, SequenceTheorems, WellFoundedInduction, TLAPS

Places == {"arguments", "refused", "execute", "dumpTokens", "preprocess", "printText",
           "target", "parse", "dumpAST", "analyse", "checked", "returned"}
Ended  == {"refused", "returned"}
Span   == [first : Int, last : Int]
Positions == 1 .. Len(output)

TypedControl ==
  /\ pc \in Places
  /\ errors \in BOOLEAN /\ refused \in BOOLEAN /\ result \in BOOLEAN
  /\ unit \in [read : Int, checked : BOOLEAN]
TypedText == /\ output \in Seq(PPToken)
             /\ cursor \in Int /\ 1 <= cursor /\ cursor <= Len(output) + 1
TypedHand == /\ part \in Span
             /\ hand \in Seq(Span) /\ Len(hand) <= 2
Typed == TypedControl /\ TypedText /\ TypedHand

Staged ==
  /\ pc \notin {"parse"} \union Ended => ~errors
  /\ pc \notin Ended => ~refused
  /\ pc # "returned" => ~result /\ printed = Nothing
  /\ pc = "refused" => refused
  /\ pc = "returned" => (result <=> ~errors /\ ~refused)
  /\ printed # Nothing => result
  /\ status # "running" => pc \in Ended
  /\ pc = "dumpTokens" => Action("--dump-tokens")
  /\ pc = "printText" => Action("-E")
  /\ pc = "dumpAST" => Action("--dump-ast")

\* The tree is read from all tokens, and all of them were valid.
Complete == unit.read = Len(output) /\ \A k \in Positions : output[k].valid
Grown ==
  /\ pc \in Places \ {"parse", "dumpAST", "analyse", "checked", "returned"} =>
       hand = <<>> /\ cursor = 1 /\ part = NoPart
  /\ pc \notin {"dumpAST", "analyse", "checked", "returned"} => unit = NoUnit
  /\ pc \in {"dumpAST", "analyse", "checked"} => Complete
  /\ pc = "checked" => unit.checked
  /\ pc = "returned" /\ unit # NoUnit => Complete /\ (unit.checked \/ Action("--dump-ast"))

\* A literal being joined, or a token handed out.
GoodIn(token, text, end) ==
  /\ 1 <= token.first /\ token.first <= token.last /\ token.last < end
  /\ \A k \in token.first .. token.last :
       text[k].valid /\ (token.first < token.last => text[k].string)
Good(token) == GoodIn(token, output, cursor)
\* Nothing lies between a token and the cursor, nor a literal behind a literal.
Adjacent(token) ==
  IF part = NoPart THEN token.last = cursor - 1 /\ ~(output[token.last].string /\ ThisIsString)
                   ELSE part.first = token.last + 1 /\ ~output[token.last].string
ValidSoFar == ~errors => \A k \in 1 .. cursor - 1 : output[k].valid
Joining ==
  part # NoPart => /\ Good(part) /\ part.last = cursor - 1
                   /\ \A k \in part.first .. part.last : output[k].string
                   /\ ~errors /\ pc = "parse" /\ Len(hand) < 2
Held == \A i \in 1 .. Len(hand) : /\ Real(hand[i]) => Good(hand[i])
                                  /\ hand[i] = Eof => errors \/ AtEnd
                                  /\ hand[i] = Error => errors
LastIsAdjacent == Len(hand) > 0 /\ Real(hand[Len(hand)]) => Adjacent(hand[Len(hand)])
Paired ==
  Len(hand) = 2 /\ Real(hand[1]) =>
    /\ Real(hand[2]) => /\ hand[2].first = hand[1].last + 1
                        /\ ~(output[hand[1].last].string /\ output[hand[2].first].string)
    /\ hand[2] = Eof /\ ~errors => hand[1].last = Len(output)
Handed == ValidSoFar /\ Joining /\ Held /\ LastIsAdjacent /\ Paired

IInv == Typed /\ Staged /\ Grown /\ Handed

-----------------------------------------------------------------------------
(* The parser's two tokens.                                                  *)

\* Appending to a sequence that is not full.
LEMMA Appended ==
  ASSUME NEW S, NEW s \in Seq(S), Len(s) < 2, NEW x \in S
  PROVE  /\ Append(s, x) \in Seq(S)
         /\ Len(Append(s, x)) = Len(s) + 1
         /\ Len(Append(s, x)) <= 2
         /\ Append(s, x)[Len(s) + 1] = x
         /\ \A i \in 1 .. Len(s) : Append(s, x)[i] = s[i]
    BY AppendProperties, LenProperties

\* The second token moves up.
LEMMA MovedUp ==
  ASSUME NEW S, NEW s \in Seq(S), Len(s) = 2
  PROVE  /\ Tail(s) \in Seq(S)
         /\ Len(Tail(s)) = 1
         /\ Tail(s)[1] = s[2]
<1>1. s # <<>>
    BY EmptySeq
<1>2. QED
    BY <1>1, HeadTailProperties

LEMMA MarksDiffer == /\ Eof # Error /\ Eof \in Span /\ Error \in Span /\ NoPart \in Span
                     /\ ~Real(Eof) /\ ~Real(Error)
    BY DEF Eof, Error, NoPart, Span, Real

\* What was read stays read.
LEMMA GoodStays ==
  ASSUME NEW token \in Span, NEW text, NEW end \in Int, GoodIn(token, text, end)
  PROVE  GoodIn(token, text, end + 1)
    BY DEF GoodIn, Span

-----------------------------------------------------------------------------
(* The invariant.                                                            *)

LEMMA Lengths == /\ TypedText => Len(output) \in Nat
                 /\ TypedHand => Len(hand) \in Nat /\ Len(hand) <= 2
    BY LenProperties DEF TypedText, TypedHand

LEMMA NothingRead == /\ Len(<<>>) = 0
                     /\ <<>> \in Seq(PPToken) /\ <<>> \in Seq(Span)
    BY EmptySeq

LEMMA Initially == Init => IInv
<1> SUFFICES ASSUME Init PROVE IInv
    OBVIOUS
<1>1. TypedControl
  <2>1. pc = "arguments" /\ ~errors /\ ~refused /\ ~result /\ errors \in BOOLEAN /\ refused \in BOOLEAN
        /\ result \in BOOLEAN /\ unit = NoUnit
      BY DEF Init
  <2>2. QED
      BY <2>1 DEF TypedControl, Places, NoUnit
<1>2. TypedText
    BY NothingRead DEF Init, TypedText
<1>3. TypedHand
    BY NothingRead, MarksDiffer DEF Init, TypedHand
<1>4. Staged
    BY DEF Init, Staged, Ended
<1>5. Grown
    BY DEF Init, Grown
<1>6. Handed
  <2>1. part = NoPart /\ Len(hand) = 0 /\ cursor = 1
      BY NothingRead DEF Init
  <2>2. QED
      BY <2>1 DEF Handed, ValidSoFar, Joining, Held, LastIsAdjacent, Paired
<1>7. QED
    BY <1>1, <1>2, <1>3, <1>4, <1>5, <1>6 DEF IInv, Typed

LEMMA ControlStep == IInv /\ [Next]_vars => TypedControl'
<1> SUFFICES ASSUME TypedControl, TypedText, [Next]_vars PROVE TypedControl'
    BY DEF IInv, Typed
<1> USE DEF TypedControl, Places
<1>1. CASE UNCHANGED vars
    BY <1>1 DEF vars
<1>2. CASE EndOfOptions
    BY <1>2 DEF EndOfOptions, AfterArguments
<1>3. CASE ColorOption
    BY <1>3 DEF ColorOption, AfterArguments
<1>4. CASE OutputOption
    BY <1>4 DEF OutputOption, Refuse, AfterArguments
<1>5. CASE IncludeOption
    BY <1>5 DEF IncludeOption, Refuse, AfterArguments
<1>6. CASE Operand
    BY <1>6 DEF Operand, Refuse, AfterArguments
<1>7. CASE CheckUsage
    BY <1>7 DEF CheckUsage, Refuse, AfterArguments
<1>8. CASE CannotOpen
    BY <1>8 DEF CannotOpen, Returns
<1>9. CASE Open
    BY <1>9 DEF Open
<1>10. CASE DumpTokens
    BY <1>10 DEF DumpTokens, Returns
<1>11. CASE Preprocess
    BY <1>11 DEF Preprocess, Returns
<1>12. CASE PrintText
    BY <1>12 DEF PrintText, Returns
<1>13. CASE ChooseTarget
    BY <1>13 DEF ChooseTarget, Returns
<1>14. CASE FetchEof
    BY <1>14 DEF FetchEof, AfterParse
<1>15. CASE Fetch
    BY <1>15 DEF Fetch, Convert, AfterParse
<1>16. CASE JoinString
    BY <1>16 DEF JoinString, Convert, AfterParse
<1>17. CASE EndToken
    BY <1>17 DEF EndToken, AfterParse
<1>18. CASE Advance
    BY <1>18 DEF Advance, AfterParse
<1>19. CASE SyntaxError
    BY <1>19 DEF SyntaxError, AfterParse
<1>20. CASE ParseReturns
  <2>1. [read |-> cursor - 1, checked |-> FALSE] \in [read : Int, checked : BOOLEAN]
      BY DEF TypedText
  <2>2. UNCHANGED <<refused, errors>>
      BY <1>20 DEF ParseReturns
  <2>3. CASE errors
      BY <1>20, <2>2, <2>3 DEF ParseReturns, Returns
  <2>4. CASE ~errors
      BY <1>20, <2>1, <2>2, <2>4 DEF ParseReturns
  <2>5. QED
      BY <2>3, <2>4
<1>21. CASE DumpAST
    BY <1>21 DEF DumpAST, Returns
<1>22. CASE Analyse
  <2>1. [unit EXCEPT !.checked = TRUE] \in [read : Int, checked : BOOLEAN]
      OBVIOUS
  <2>2. NoUnit \in [read : Int, checked : BOOLEAN]
      BY DEF NoUnit
  <2>3. QED
      BY <1>22, <2>1, <2>2 DEF Analyse, FailedUnit, Returns
<1>23. CASE Finish
    BY <1>23 DEF Finish, Returns
<1>24. CASE Exit
    BY <1>24 DEF Exit
<1>25. QED
    BY <1>1, <1>2, <1>3, <1>4, <1>5, <1>6, <1>7, <1>8, <1>9, <1>10, <1>11, <1>12, <1>13, <1>14,
       <1>15, <1>16, <1>17, <1>18, <1>19, <1>20, <1>21, <1>22, <1>23, <1>24 DEF Next

\* All steps but these leave the text and the tokens alone.
LEMMA ReadsAlone ==
  [Next]_vars => \/ UNCHANGED tokens
                 \/ Preprocess \/ FetchEof \/ Fetch \/ JoinString \/ EndToken \/ Advance \/ SyntaxError
<1> SUFFICES ASSUME [Next]_vars,
                    ~(Preprocess \/ FetchEof \/ Fetch \/ JoinString \/ EndToken \/ Advance \/ SyntaxError)
             PROVE  UNCHANGED tokens
    OBVIOUS
<1>1. CASE UNCHANGED vars
    BY <1>1 DEF vars
<1>2. CASE EndOfOptions \/ ColorOption
    BY <1>2 DEF EndOfOptions, ColorOption, AfterArguments
<1>3. CASE OutputOption
    BY <1>3 DEF OutputOption, Refuse, AfterArguments
<1>4. CASE IncludeOption
    BY <1>4 DEF IncludeOption, Refuse, AfterArguments
<1>5. CASE Operand \/ CheckUsage
    BY <1>5 DEF Operand, CheckUsage, Refuse, AfterArguments
<1>6. CASE CannotOpen \/ Open \/ DumpTokens \/ PrintText \/ ChooseTarget
    BY <1>6 DEF CannotOpen, Open, DumpTokens, PrintText, ChooseTarget
<1>7. CASE ParseReturns \/ DumpAST \/ Analyse \/ Finish \/ Exit
    BY <1>7 DEF ParseReturns, DumpAST, Analyse, Finish, Exit
<1>8. QED
    BY <1>1, <1>2, <1>3, <1>4, <1>5, <1>6, <1>7 DEF Next

LEMMA TextStep == IInv /\ [Next]_vars => TypedText'
<1> SUFFICES ASSUME TypedText, Grown, [Next]_vars PROVE TypedText'
    BY DEF IInv, Typed
<1>1. CASE UNCHANGED tokens
    BY <1>1 DEF tokens, TypedText
<1>2. CASE Preprocess
  <2>1. output' \in Seq(PPToken) /\ Len(output') \in Nat
    <3>1. CASE output' = output
        BY <3>1, Lengths DEF TypedText
    <3>2. CASE output' \in Texts
        BY <3>2, TextsAssumption, LenProperties
    <3>3. QED
        BY <1>2, <3>1, <3>2 DEF Preprocess
  <2>2. cursor' = 1
      BY <1>2 DEF Preprocess, Grown, Places
  <2>3. QED
      BY <2>1, <2>2 DEF TypedText
<1>3. CASE FetchEof \/ EndToken \/ Advance \/ SyntaxError
    BY <1>3 DEF FetchEof, EndToken, Advance, SyntaxError, AfterParse, TypedText
<1>4. CASE Fetch \/ JoinString
  <2>1. cursor <= Len(output)
      BY <1>4, Lengths DEF Fetch, JoinString, Ends, ThisIsString, AtEnd, TypedText
  <2>2. output' = output /\ cursor' = cursor + 1
      BY <1>4 DEF Fetch, JoinString, Convert, AfterParse
  <2>3. QED
      BY <2>1, <2>2, Lengths DEF TypedText
<1>5. QED
    BY <1>1, <1>2, <1>3, <1>4, ReadsAlone

LEMMA HandStep == IInv /\ [Next]_vars => TypedHand'
<1> SUFFICES ASSUME TypedText, TypedHand, [Next]_vars PROVE TypedHand'
    BY DEF IInv, Typed
<1>1. CASE UNCHANGED tokens \/ Preprocess \/ SyntaxError
    BY <1>1 DEF tokens, Preprocess, SyntaxError, TypedHand
<1>2. CASE FetchEof
    BY <1>2, MarksDiffer, Appended DEF FetchEof, Fetching, TypedHand
<1>3. CASE Fetch
  <2> DEFINE token == [first |-> cursor, last |-> cursor]
  <2>1. token \in Span
      BY DEF TypedText, Span
  <2>2. Convert(token, token) /\ Len(hand) < 2
      BY <1>3 DEF Fetch, Fetching
  <2> HIDE DEF token
  <2>3. QED
      BY <2>1, <2>2, MarksDiffer, Appended DEF Convert, TypedHand
<1>4. CASE JoinString
  <2> DEFINE joined == [part EXCEPT !.last = cursor]
  <2>1. joined \in Span
      BY DEF TypedText, TypedHand, Span
  <2>2. Convert(part, joined) /\ Len(hand) < 2
      BY <1>4 DEF JoinString, Fetching
  <2> HIDE DEF joined
  <2>3. QED
      BY <2>1, <2>2, MarksDiffer, Appended DEF Convert, TypedHand
<1>5. CASE EndToken
    BY <1>5, MarksDiffer, Appended DEF EndToken, Fetching, TypedHand
<1>6. CASE Advance
    BY <1>6, MovedUp DEF Advance, HasMore, TypedHand
<1>7. QED
    BY <1>1, <1>2, <1>3, <1>4, <1>5, <1>6, ReadsAlone

LEMMA StagedStep == IInv /\ [Next]_vars => Staged'
<1> SUFFICES ASSUME TypedControl, Staged, [Next]_vars PROVE Staged'
    BY DEF IInv, Typed
<1> USE DEF Staged, Ended, Action
<1>1. CASE UNCHANGED vars
    BY <1>1 DEF vars
<1>2. CASE EndOfOptions
    BY <1>2 DEF EndOfOptions, Reading, AfterArguments
<1>3. CASE ColorOption
    BY <1>3 DEF ColorOption, Reading, AfterArguments
<1>4. CASE OutputOption
    BY <1>4 DEF OutputOption, Reading, Refuse, AfterArguments
<1>5. CASE IncludeOption
    BY <1>5 DEF IncludeOption, Reading, Refuse, AfterArguments
<1>6. CASE Operand
    BY <1>6 DEF Operand, Reading, Refuse, AfterArguments
<1>7. CASE CheckUsage
    BY <1>7 DEF CheckUsage, Refuse, AfterArguments
<1>8. CASE CannotOpen
    BY <1>8 DEF CannotOpen, Returns, Unread
<1>9. CASE Open
    BY <1>9 DEF Open, Unread
<1>10. CASE DumpTokens
  <2>1. PICK invalid \in BOOLEAN : /\ errors' = invalid /\ result' = ~invalid
                                   /\ invalid => UNCHANGED printed
      BY <1>10 DEF DumpTokens, Returns
  <2>2. pc = "dumpTokens" /\ pc' = "returned" /\ UNCHANGED <<refused, status>>
      BY <1>10 DEF DumpTokens, Returns
  <2>3. QED
      BY <2>1, <2>2
<1>11. CASE Preprocess
    BY <1>11 DEF Preprocess, Returns, Unread
<1>12. CASE PrintText
    BY <1>12 DEF PrintText, Returns, Unread
<1>13. CASE ChooseTarget
    BY <1>13 DEF ChooseTarget, Returns, Unread
<1>14. CASE FetchEof
    BY <1>14 DEF FetchEof, Fetching, Parsing, AfterParse, Unread
<1>15. CASE Fetch
    BY <1>15 DEF Fetch, Fetching, Parsing, AfterParse, Unread
<1>16. CASE JoinString
    BY <1>16 DEF JoinString, Fetching, Parsing, AfterParse, Unread
<1>17. CASE EndToken
    BY <1>17 DEF EndToken, Fetching, Parsing, AfterParse, Unread
<1>18. CASE Advance
    BY <1>18 DEF Advance, Parsing, AfterParse, Unread
<1>19. CASE SyntaxError
    BY <1>19 DEF SyntaxError, Parsing, AfterParse, Unread
<1>20. CASE ParseReturns
    BY <1>20 DEF ParseReturns, Parsing, Returns, Unread
<1>21. CASE DumpAST
    BY <1>21 DEF DumpAST, Returns, Unread
<1>22. CASE Analyse
    BY <1>22 DEF Analyse, Returns, Unread
<1>23. CASE Finish
  <2>1. pc = "checked" /\ pc' = "returned" /\ UNCHANGED <<refused, status>>
      BY <1>23 DEF Finish, Returns
  <2>2. \/ result' = TRUE /\ UNCHANGED errors
        \/ result' = FALSE /\ errors' = TRUE /\ UNCHANGED printed
      BY <1>23 DEF Finish, Returns
  <2>3. QED
      BY <2>1, <2>2
<1>24. CASE Exit
    BY <1>24 DEF Exit, Unread
<1>25. QED
    BY <1>1, <1>2, <1>3, <1>4, <1>5, <1>6, <1>7, <1>8, <1>9, <1>10, <1>11, <1>12, <1>13, <1>14,
       <1>15, <1>16, <1>17, <1>18, <1>19, <1>20, <1>21, <1>22, <1>23, <1>24 DEF Next

\* Only these change the tree, and only from one place to the next.
LEMMA GrownStep == IInv /\ [Next]_vars => Grown'
<1> SUFFICES ASSUME TypedControl, TypedText, TypedHand, Staged, Grown, Handed, [Next]_vars PROVE Grown'
    BY DEF IInv, Typed
<1> USE DEF Action
<1>1. CASE UNCHANGED vars
    BY <1>1 DEF vars, tokens, Grown, Complete, Positions
<1>2. CASE EndOfOptions \/ ColorOption \/ OutputOption \/ IncludeOption \/ Operand \/ CheckUsage
  <2>1. pc = "arguments" /\ pc' \in {"arguments", "refused", "execute"} /\ UNCHANGED <<tokens, unit>>
      BY <1>2 DEF EndOfOptions, ColorOption, OutputOption, IncludeOption, Operand, CheckUsage,
                  Reading, Refuse, AfterArguments
  <2>2. QED
      BY <2>1 DEF Grown, Places, tokens
<1>3. CASE CannotOpen \/ Open \/ DumpTokens \/ PrintText \/ ChooseTarget
  <2>1. /\ pc \in {"execute", "dumpTokens", "printText", "target"}
        /\ pc' \in {"dumpTokens", "preprocess", "parse", "returned"} /\ UNCHANGED <<tokens, unit>>
      BY <1>3 DEF CannotOpen, Open, DumpTokens, PrintText, ChooseTarget, Returns
  <2>2. QED
      BY <2>1 DEF Grown, Places, tokens
<1>4. CASE Preprocess
  <2>1. /\ pc = "preprocess" /\ pc' \in {"returned", "printText", "target"}
        /\ UNCHANGED <<cursor, part, hand, unit>>
      BY <1>4 DEF Preprocess, Returns
  <2>2. QED
      BY <2>1 DEF Grown, Places
<1>5. CASE FetchEof \/ Fetch \/ JoinString \/ EndToken \/ Advance \/ SyntaxError
  <2>1. pc = "parse" /\ pc' = "parse" /\ unit' = unit
      BY <1>5 DEF FetchEof, Fetch, JoinString, EndToken, Advance, SyntaxError, Fetching, Parsing, AfterParse
  <2>2. QED
      BY <2>1 DEF Grown
<1>6. CASE ParseReturns
  <2>1. pc = "parse" /\ unit = NoUnit /\ output' = output
      BY <1>6 DEF ParseReturns, Parsing, tokens, Grown
  <2>2. CASE errors
    <3>1. pc' = "returned" /\ unit' = NoUnit
        BY <1>6, <2>1, <2>2 DEF ParseReturns, Returns
    <3>2. QED
        BY <3>1 DEF Grown
  <2>3. CASE ~errors
    <3>1. AtEnd
        BY <1>6, <2>3 DEF ParseReturns, Handed, Held
    <3>2. cursor = Len(output) + 1
        BY <3>1, Lengths DEF AtEnd, TypedText
    <3>3. unit' = [read |-> cursor - 1, checked |-> FALSE] /\ pc' \in {"dumpAST", "analyse"}
        BY <1>6, <2>3 DEF ParseReturns
    <3>4. unit'.read = Len(output)
        BY <3>2, <3>3, Lengths
    <3>5. \A k \in Positions : output[k].valid
        BY <2>3, <3>2, Lengths DEF Handed, ValidSoFar, Positions
    <3>6. Complete'
        BY <2>1, <3>4, <3>5 DEF Complete, Positions
    <3>7. QED
        BY <3>3, <3>6 DEF Grown
  <2>4. QED
      BY <2>2, <2>3
<1>7. CASE DumpAST
  <2>1. pc = "dumpAST" /\ pc' = "returned" /\ UNCHANGED <<invocation, output, unit>>
      BY <1>7 DEF DumpAST, Returns, Unread, tokens
  <2>2. QED
      BY <2>1 DEF Grown, Staged, Complete, Positions
<1>8. CASE Analyse
  <2>1. pc = "analyse" /\ UNCHANGED output
      BY <1>8 DEF Analyse, tokens
  <2>2. CASE pc' = "returned" /\ unit' = NoUnit
      BY <2>2 DEF Grown
  <2>3. CASE pc' = "checked" /\ unit' = [unit EXCEPT !.checked = TRUE]
    <3>1. unit'.read = unit.read /\ unit'.checked
        BY <2>3 DEF TypedControl
    <3>2. QED
        BY <2>1, <2>3, <3>1 DEF Grown, Complete, Positions
  <2>4. QED
      BY <1>8, <2>2, <2>3 DEF Analyse, FailedUnit, Returns
<1>9. CASE Finish
  <2>1. pc = "checked" /\ pc' = "returned" /\ UNCHANGED <<output, unit>>
      BY <1>9 DEF Finish, Returns, tokens
  <2>2. QED
      BY <2>1 DEF Grown, Complete, Positions
<1>10. CASE Exit
    BY <1>10 DEF Exit, Unread, tokens, Grown, Complete, Positions
<1>11. QED
    BY <1>1, <1>2, <1>3, <1>4, <1>5, <1>6, <1>7, <1>8, <1>9, <1>10 DEF Next

\* An error stays.
LEMMA ErrorsStay == IInv /\ [Next]_vars => (errors => errors')
<1> SUFFICES ASSUME TypedControl, Staged, errors, [Next]_vars PROVE errors'
    BY DEF IInv, Typed
<1>1. pc \in {"parse", "refused", "returned"}
    BY DEF Staged, Ended
<1>2. CASE UNCHANGED vars
    BY <1>2 DEF vars
<1>3. CASE FetchEof \/ EndToken \/ Advance \/ SyntaxError \/ ParseReturns \/ Exit
    BY <1>3 DEF FetchEof, EndToken, Advance, SyntaxError, ParseReturns, Exit, TypedControl
<1>4. CASE Fetch \/ JoinString
    BY <1>4 DEF Fetch, JoinString, Convert
<1>5. ~(EndOfOptions \/ ColorOption \/ OutputOption \/ IncludeOption \/ Operand \/ CheckUsage)
    BY <1>1 DEF EndOfOptions, ColorOption, OutputOption, IncludeOption, Operand, CheckUsage, Reading
<1>6. ~(CannotOpen \/ Open \/ DumpTokens \/ Preprocess \/ PrintText \/ ChooseTarget)
    BY <1>1 DEF CannotOpen, Open, DumpTokens, Preprocess, PrintText, ChooseTarget
<1>7. ~(DumpAST \/ Analyse \/ Finish)
    BY <1>1 DEF DumpAST, Analyse, Finish
<1>8. QED
    BY <1>2, <1>3, <1>4, <1>5, <1>6, <1>7 DEF Next

\* A literal is joined only while the parser reads.
LEMMA PartIsDone == IInv /\ [Next]_vars /\ UNCHANGED tokens => part = NoPart \/ (pc' = "parse" /\ errors' = errors)
<1> SUFFICES ASSUME IInv, [Next]_vars, UNCHANGED tokens, part # NoPart PROVE pc' = "parse" /\ errors' = errors
    OBVIOUS
<1>1. pc = "parse" /\ Len(hand) < 2 /\ Len(hand) # 2
    BY Lengths DEF IInv, Typed, Handed, Joining
<1>2. CASE UNCHANGED vars
    BY <1>1, <1>2 DEF vars
<1>3. ~(EndOfOptions \/ ColorOption \/ OutputOption \/ IncludeOption \/ Operand \/ CheckUsage)
    BY <1>1 DEF EndOfOptions, ColorOption, OutputOption, IncludeOption, Operand, CheckUsage, Reading
<1>4. ~(CannotOpen \/ Open \/ DumpTokens \/ Preprocess \/ PrintText \/ ChooseTarget)
    BY <1>1 DEF CannotOpen, Open, DumpTokens, Preprocess, PrintText, ChooseTarget
<1>5. ~(DumpAST \/ Analyse \/ Finish \/ Exit)
    BY <1>1 DEF DumpAST, Analyse, Finish, Exit
<1>6. ~(SyntaxError \/ ParseReturns \/ Advance)
    BY <1>1 DEF SyntaxError, ParseReturns, Advance, HasMore
<1>7. CASE FetchEof \/ EndToken
    BY <1>1, <1>7 DEF FetchEof, EndToken, AfterParse
<1>8. ~(Fetch \/ JoinString)
  <2>1. cursor' = cursor + 1 \/ ~(Fetch \/ JoinString)
      BY DEF Fetch, JoinString, Convert
  <2>2. cursor' = cursor /\ cursor \in Int
      BY DEF tokens, IInv, Typed, TypedText
  <2>3. QED
      BY <2>1, <2>2
<1>9. QED
    BY <1>2, <1>3, <1>4, <1>5, <1>6, <1>7, <1>8 DEF Next

LEMMA UnreadStep == IInv /\ [Next]_vars /\ UNCHANGED tokens => Handed'
<1> SUFFICES ASSUME IInv, [Next]_vars, UNCHANGED tokens PROVE Handed'
    OBVIOUS
<1> USE DEF IInv, Typed, Handed
<1>1. errors => errors'
    BY ErrorsStay
<1>2. output' = output /\ cursor' = cursor /\ part' = part /\ hand' = hand
    BY DEF tokens
<1>3. ValidSoFar'
    BY <1>1, <1>2 DEF ValidSoFar
<1>4. Joining'
    BY <1>2, PartIsDone DEF Joining, Good
<1>5. Held'
    BY <1>1, <1>2 DEF Held, Good, AtEnd
<1>6. LastIsAdjacent'
    BY <1>2 DEF LastIsAdjacent, Adjacent, ThisIsString, AtEnd
<1>7. Paired'
    BY <1>1, <1>2 DEF Paired
<1>8. QED
    BY <1>3, <1>4, <1>5, <1>6, <1>7

LEMMA SmallNumbers == \A n \in Nat : n < 2 => n \in {0, 1}
    OBVIOUS

\* The token that next() returns behind those the parser holds.
LEMMA TokenAppended ==
  ASSUME IInv, NEW token \in Span, hand' = Append(hand, token), Len(hand) < 2
  PROVE  /\ Len(hand') = Len(hand) + 1 /\ Len(hand) \in {0, 1}
         /\ hand'[Len(hand')] = token
         /\ \A i \in 1 .. Len(hand) : hand'[i] = hand[i]
<1>1. hand \in Seq(Span) /\ Len(hand) \in Nat
    BY Lengths DEF IInv, Typed, TypedHand
<1>2. Len(hand) \in {0, 1}
    BY <1>1, SmallNumbers
<1>3. QED
    BY <1>1, <1>2, Appended

\* What the parser holds stays good when the cursor moves.
LEMMA HeldStays ==
  ASSUME IInv, UNCHANGED output, cursor' = cursor + 1, errors \/ ~AtEnd, errors => errors',
         NEW i \in 1 .. Len(hand)
  PROVE  /\ Real(hand[i]) => GoodIn(hand[i], output', cursor')
         /\ hand[i] = Eof => errors' \/ AtEnd'
         /\ hand[i] = Error => errors'
<1>1. hand[i] \in Span /\ cursor \in Int
    BY ElementOfSeq DEF IInv, Typed, TypedText, TypedHand
<1>2. Real(hand[i]) => GoodIn(hand[i], output, cursor)
    BY DEF IInv, Handed, Held, Good
<1>3. Real(hand[i]) => GoodIn(hand[i], output, cursor + 1)
    BY <1>1, <1>2, GoodStays
<1>4. QED
    BY <1>3 DEF IInv, Handed, Held

LEMMA FetchEofStep == IInv /\ FetchEof => Handed'
<1> SUFFICES ASSUME IInv, FetchEof PROVE Handed'
    OBVIOUS
<1> USE DEF IInv, Typed, Handed
<1>1. hand' = Append(hand, Eof) /\ Len(hand) < 2 /\ part = NoPart /\ Ends
    BY DEF FetchEof, Fetching
<1>2. UNCHANGED <<pc, output, cursor, part, errors>>
    BY DEF FetchEof, AfterParse
<1>3. /\ Len(hand') = Len(hand) + 1 /\ Len(hand) \in {0, 1}
      /\ hand'[Len(hand')] = Eof
      /\ \A i \in 1 .. Len(hand) : hand'[i] = hand[i]
    BY <1>1, MarksDiffer, TokenAppended
<1>4. ValidSoFar' /\ Joining'
    BY <1>1, <1>2 DEF ValidSoFar, Joining
<1>5. Held'
    BY <1>1, <1>2, <1>3, MarksDiffer DEF Held, Good, AtEnd, Ends
<1>6. LastIsAdjacent'
    BY <1>3, MarksDiffer DEF LastIsAdjacent
<1>7. Paired'
  <2> SUFFICES ASSUME Len(hand') = 2, Real(hand'[1]), ~errors
               PROVE  hand'[1].last = Len(output)
      BY <1>2, <1>3, MarksDiffer DEF Paired
  <2>1. Len(hand) = 1 /\ hand'[1] = hand[1]
      BY <1>3
  <2>2. hand[1].last = cursor - 1
      BY <1>1, <2>1 DEF LastIsAdjacent, Adjacent
  <2>3. cursor = Len(output) + 1
      BY <1>1, Lengths DEF Ends, AtEnd, TypedText
  <2>4. QED
      BY <2>1, <2>2, <2>3, Lengths
<1>8. QED
    BY <1>4, <1>5, <1>6, <1>7

\* A token that is none ends the text.
LEMMA ErrorStep ==
  ASSUME IInv, Len(hand) < 2, ~AtEnd, UNCHANGED output,
         cursor' = cursor + 1, errors', hand' = Append(hand, Error), part' = NoPart
  PROVE  Handed'
<1> USE DEF IInv, Typed, Handed
<1>1. /\ Len(hand') = Len(hand) + 1 /\ Len(hand) \in {0, 1}
      /\ hand'[Len(hand')] = Error
      /\ \A i \in 1 .. Len(hand) : hand'[i] = hand[i]
    BY MarksDiffer, TokenAppended
<1>2. ValidSoFar' /\ Joining'
    BY DEF ValidSoFar, Joining
<1>3. Held'
    BY <1>1, MarksDiffer, HeldStays DEF Held, Good
<1>4. LastIsAdjacent' /\ Paired'
    BY <1>1, MarksDiffer DEF LastIsAdjacent, Paired
<1>5. QED
    BY <1>2, <1>3, <1>4

LEMMA FetchStep == IInv /\ Fetch => Handed'
<1> SUFFICES ASSUME IInv, Fetch PROVE Handed'
    OBVIOUS
<1> DEFINE token == [first |-> cursor, last |-> cursor]
<1>1. /\ Len(hand) < 2 /\ part = NoPart /\ ~errors /\ ~AtEnd /\ pc = "parse"
      /\ UNCHANGED <<pc, output>> /\ cursor' = cursor + 1
    BY DEF Fetch, Fetching, Parsing, Ends, Convert, AfterParse
<1>2. cursor \in Int /\ 1 <= cursor /\ cursor <= Len(output) /\ Len(output) \in Nat
    BY <1>1, Lengths DEF AtEnd, IInv, Typed, TypedText
<1>3. CASE ~output[cursor].valid
    BY <1>1, <1>3, ErrorStep DEF Fetch, Convert
<1>4. CASE output[cursor].valid /\ output[cursor].string
  <2>1. part' = token /\ UNCHANGED <<hand, errors>>
      BY <1>4 DEF Fetch, Convert
  <2>2. token.first = cursor /\ token.last = cursor /\ token \in Span
      BY <1>2 DEF Span
  <2> HIDE DEF token
  <2>3. ValidSoFar'
      BY <1>1, <1>2, <1>4, <2>1 DEF IInv, Handed, ValidSoFar
  <2>4. Joining'
      BY <1>1, <1>2, <1>4, <2>1, <2>2 DEF Joining, Good, GoodIn
  <2>5. Held'
      BY <1>1, <2>1, HeldStays DEF Held, Good
  <2>6. token # NoPart
      BY <1>2, <2>2 DEF NoPart
  <2>7. LastIsAdjacent'
      BY <1>1, <1>2, <1>4, <2>1, <2>2, <2>6 DEF IInv, Handed, LastIsAdjacent, Adjacent, ThisIsString
  <2>8. Paired'
      BY <1>1, <2>1 DEF Paired
  <2>9. QED
      BY <2>3, <2>4, <2>5, <2>7, <2>8 DEF Handed
<1>5. CASE output[cursor].valid /\ ~output[cursor].string
  <2>1. hand' = Append(hand, token) /\ UNCHANGED <<part, errors>>
      BY <1>5 DEF Fetch, Convert
  <2>2. token.first = cursor /\ token.last = cursor /\ token \in Span
      BY <1>2 DEF Span
  <2> HIDE DEF token
  <2>3. /\ Len(hand') = Len(hand) + 1 /\ Len(hand) \in {0, 1}
        /\ hand'[Len(hand')] = token
        /\ \A i \in 1 .. Len(hand) : hand'[i] = hand[i]
      BY <1>1, <2>1, <2>2, TokenAppended
  <2>4. ValidSoFar' /\ Joining'
      BY <1>1, <1>2, <1>5, <2>1 DEF IInv, Handed, ValidSoFar, Joining
  <2>5. Held'
    <3>1. Real(token) /\ token # Eof /\ token # Error
        BY <1>2, <2>2 DEF Eof, Error, Real
    <3>2. GoodIn(token, output', cursor')
        BY <1>1, <1>2, <1>5, <2>2 DEF GoodIn
    <3>3. \A i \in 1 .. Len(hand) : /\ Real(hand[i]) => GoodIn(hand[i], output', cursor')
                                    /\ hand[i] = Eof => errors' \/ AtEnd'
                                    /\ hand[i] = Error => errors'
        BY <1>1, <2>1, HeldStays
    <3>4. QED
        BY <2>3, <3>1, <3>2, <3>3 DEF Held, Good
  <2>6. LastIsAdjacent'
      BY <1>1, <1>2, <1>5, <2>1, <2>2, <2>3 DEF LastIsAdjacent, Adjacent
  <2>7. Paired'
    <3> SUFFICES ASSUME Len(hand') = 2, Real(hand'[1])
                 PROVE  /\ token # Eof /\ token.first = hand[1].last + 1
                        /\ hand'[1] = hand[1] /\ hand'[2] = token /\ ~output'[token.first].string
        BY DEF Paired
    <3>1. Len(hand) = 1 /\ hand'[1] = hand[1] /\ hand'[2] = token
        BY <2>3
    <3>2. token # Eof /\ ~output'[token.first].string
        BY <1>1, <1>2, <1>5, <2>2 DEF Eof
    <3>3. QED
        BY <1>1, <1>2, <2>2, <3>1, <3>2 DEF IInv, Handed, LastIsAdjacent, Adjacent
  <2>8. QED
      BY <2>4, <2>5, <2>6, <2>7 DEF Handed
<1>6. QED
    BY <1>3, <1>4, <1>5

LEMMA JoinStringStep == IInv /\ JoinString => Handed'
<1> SUFFICES ASSUME IInv, JoinString PROVE Handed'
    OBVIOUS
<1> DEFINE joined == [part EXCEPT !.last = cursor]
<1>1. /\ Len(hand) < 2 /\ part # NoPart /\ ThisIsString /\ ~AtEnd /\ pc = "parse" /\ output[cursor].string
      /\ UNCHANGED <<pc, output>> /\ cursor' = cursor + 1
    BY DEF JoinString, Fetching, Parsing, ThisIsString, Convert, AfterParse
<1>2. /\ cursor \in Int /\ 1 <= cursor /\ part.first \in Int /\ part.last \in Int
      /\ joined.first = part.first /\ joined.last = cursor /\ joined \in Span
    BY DEF IInv, Typed, TypedText, TypedHand, Span
<1>3. /\ Good(part) /\ part.last = cursor - 1 /\ ~errors
      /\ \A k \in part.first .. part.last : output[k].string
    BY <1>1 DEF IInv, Handed, Joining
<1>4. CASE ~output[cursor].valid
    BY <1>1, <1>4, ErrorStep DEF JoinString, Convert
<1>5. CASE output[cursor].valid
  <2>1. part' = joined /\ UNCHANGED <<hand, errors>>
      BY <1>1, <1>5 DEF JoinString, Convert
  <2> HIDE DEF joined
  <2>2. joined # NoPart
      BY <1>2 DEF NoPart
  <2>3. ValidSoFar'
      BY <1>1, <1>2, <1>5, <2>1 DEF IInv, Handed, ValidSoFar
  <2>4. GoodIn(joined, output, cursor + 1) /\ \A k \in joined.first .. joined.last : output[k].string
      BY <1>1, <1>2, <1>3, <1>5 DEF Good, GoodIn
  <2>5. Joining'
      BY <1>1, <1>2, <1>3, <2>1, <2>4 DEF Joining, Good
  <2>6. Held'
      BY <1>1, <2>1, HeldStays DEF Held, Good
  <2>7. LastIsAdjacent'
      BY <1>1, <1>2, <2>1, <2>2 DEF IInv, Handed, LastIsAdjacent, Adjacent
  <2>8. Len(hand) # 2
    <3>1. Len(hand) \in Nat
        BY Lengths DEF IInv, Typed
    <3>2. Len(hand) < 2
        BY <1>1
    <3>3. QED
        BY <3>1, <3>2
  <2>9. QED
      BY <2>1, <2>3, <2>5, <2>6, <2>7, <2>8 DEF Handed, Paired
<1>6. QED
    BY <1>4, <1>5

LEMMA EndTokenStep == IInv /\ EndToken => Handed'
<1> SUFFICES ASSUME IInv, EndToken PROVE Handed'
    OBVIOUS
<1>1. /\ Len(hand) < 2 /\ part # NoPart /\ ~ThisIsString
      /\ hand' = Append(hand, part) /\ part' = NoPart /\ UNCHANGED <<pc, output, errors, cursor>>
    BY DEF EndToken, Fetching, JoinsNothing, AfterParse
<1>2. part \in Span /\ cursor \in Int
    BY DEF IInv, Typed, TypedText, TypedHand
<1>3. /\ Len(hand') = Len(hand) + 1 /\ Len(hand) \in {0, 1}
      /\ hand'[Len(hand')] = part
      /\ \A i \in 1 .. Len(hand) : hand'[i] = hand[i]
    BY <1>1, <1>2, TokenAppended
<1>4. /\ GoodIn(part, output, cursor) /\ part.last = cursor - 1
      /\ \A k \in part.first .. part.last : output[k].string
    BY <1>1 DEF IInv, Handed, Joining, Good
<1>5. part # Eof /\ part # Error /\ Real(part)
    BY <1>4 DEF GoodIn, Eof, Error, Real
<1>6. ValidSoFar' /\ Joining'
    BY <1>1 DEF IInv, Handed, ValidSoFar, Joining
<1>7. Held'
    BY <1>1, <1>3, <1>4, <1>5 DEF IInv, Handed, Held, Good, AtEnd
<1>8. LastIsAdjacent'
    BY <1>1, <1>3, <1>4 DEF LastIsAdjacent, Adjacent, ThisIsString, AtEnd
<1>9. Paired'
  <2> SUFFICES ASSUME Len(hand') = 2, Real(hand'[1])
               PROVE  /\ hand'[1] = hand[1] /\ hand'[2] = part
                      /\ part.first = hand[1].last + 1 /\ ~output[hand[1].last].string
      BY <1>1, <1>5 DEF Paired
  <2>1. Len(hand) = 1
      BY <1>3
  <2>2. hand'[1] = hand[1] /\ hand'[2] = part
      BY <1>3, <2>1
  <2>3. QED
      BY <1>1, <2>1, <2>2 DEF IInv, Handed, LastIsAdjacent, Adjacent
<1>10. QED
    BY <1>6, <1>7, <1>8, <1>9 DEF Handed

LEMMA AdvanceStep == IInv /\ Advance => Handed'
<1> SUFFICES ASSUME IInv, Advance PROVE Handed'
    OBVIOUS
<1>1. /\ Len(hand) = 2 /\ hand' = Tail(hand) /\ UNCHANGED <<pc, output, errors, cursor, part>>
    BY DEF Advance, HasMore, AfterParse
<1>2. Len(hand') = 1 /\ hand'[1] = hand[2]
    BY <1>1, MovedUp DEF IInv, Typed, TypedHand
<1>3. part = NoPart
    BY <1>1 DEF IInv, Handed, Joining
<1>4. ValidSoFar' /\ Joining' /\ Paired'
    BY <1>1, <1>2, <1>3 DEF IInv, Handed, ValidSoFar, Joining, Paired
<1>5. Held'
  <2>1. 2 \in 1 .. Len(hand) /\ \A i \in 1 .. Len(hand') : i = 1
    <3>1. 2 \in 1 .. 2 /\ \A i \in 1 .. 1 : i = 1
        OBVIOUS
    <3>2. QED
        BY <1>1, <1>2, <3>1, Zenon
  <2>2. /\ Real(hand[2]) => GoodIn(hand[2], output, cursor)
        /\ hand[2] = Eof => errors \/ AtEnd
        /\ hand[2] = Error => errors
      BY <2>1 DEF IInv, Handed, Held, Good
  <2>3. QED
      BY <1>1, <1>2, <2>1, <2>2 DEF Held, Good, AtEnd
<1>6. LastIsAdjacent'
  <2>1. Real(hand[2]) => Adjacent(hand[2])
      BY <1>1 DEF IInv, Handed, LastIsAdjacent
  <2>2. QED
      BY <1>1, <1>2, <2>1 DEF LastIsAdjacent, Adjacent, ThisIsString, AtEnd
<1>7. QED
    BY <1>4, <1>5, <1>6 DEF Handed

LEMMA SyntaxErrorStep == IInv /\ SyntaxError => Handed'
<1> SUFFICES ASSUME IInv, SyntaxError PROVE Handed'
    OBVIOUS
<1>1. Len(hand) = 2 /\ errors' /\ UNCHANGED <<pc, output, cursor, part, hand>>
    BY DEF SyntaxError, AfterParse
<1>2. part = NoPart
    BY <1>1 DEF IInv, Handed, Joining
<1>3. ValidSoFar' /\ Joining'
    BY <1>1, <1>2 DEF ValidSoFar, Joining
<1>4. Held' /\ LastIsAdjacent'
    BY <1>1 DEF IInv, Handed, Held, Good, LastIsAdjacent, Adjacent, ThisIsString, AtEnd
<1>5. Paired'
    BY <1>1 DEF IInv, Handed, Paired
<1>6. QED
    BY <1>3, <1>4, <1>5 DEF Handed

LEMMA HandedStep == IInv /\ [Next]_vars => Handed'
<1> SUFFICES ASSUME IInv, [Next]_vars PROVE Handed'
    OBVIOUS
<1>1. CASE Preprocess
  <2>1. hand' = <<>> /\ cursor' = 1 /\ part' = NoPart
      BY <1>1 DEF Preprocess, IInv, Grown, Places
  <2>2. QED
      BY <2>1, NothingRead DEF Handed, ValidSoFar, Joining, Held, LastIsAdjacent, Paired
<1>2. QED
    BY <1>1, ReadsAlone, UnreadStep, FetchEofStep, FetchStep, JoinStringStep, EndTokenStep, AdvanceStep,
       SyntaxErrorStep

LEMMA Inductive == Spec => []IInv
<1>1. IInv /\ [Next]_vars => IInv'
    BY ControlStep, TextStep, HandStep, StagedStep, GrownStep, HandedStep DEF IInv, Typed
<1>2. QED
    BY Initially, <1>1, PTL DEF Spec

-----------------------------------------------------------------------------
(* The theorems.                                                             *)

\* The driver's state always has its types, for all command lines and texts.
THEOREM TypeCorrect == Spec => []Typed
    BY Inductive, PTL DEF IInv

\* A tree that is left behind was read from every token of a text without an
\* error, and is checked unless only parsing was asked for (execute's passes).
THEOREM TreesAreWhole == Spec => []UnitIsWhole
<1>1. IInv => UnitIsWhole
    BY DEF IInv, Staged, Grown, Ended, Complete, Positions, UnitIsWhole, Typed, TypedText
<1>2. QED
    BY Inductive, <1>1, PTL

\* Preprocessor::next gives the parser every token once, in order, and never
\* two string literals in a row.
THEOREM LiteralsAreJoined == Spec => []JoinsLiterals
<1>1. IInv => JoinsLiterals
  <2> SUFFICES ASSUME IInv, Len(hand) = 2, Real(hand[1]) PROVE JoinsLiterals
      BY DEF JoinsLiterals
  <2>1. GoodIn(hand[1], output, cursor)
      BY DEF IInv, Handed, Held, Good
  <2>2. part = NoPart
      BY DEF IInv, Handed, Joining
  <2>3. Real(hand[2]) => hand[2].last = cursor - 1
      BY <2>2 DEF IInv, Handed, LastIsAdjacent, Adjacent
  <2>4. QED
      BY <2>1, <2>3 DEF IInv, Handed, Paired, GoodIn, JoinsLiterals
<1>2. QED
    BY Inductive, <1>1, PTL

-----------------------------------------------------------------------------
(* The driver implements Invocation.                                         *)

LEMMA Silent ==
  ASSUME UNCHANGED <<printed, errors, refused, status>>
  PROVE  UNCHANGED Promise!vars
    BY DEF Promise!vars

LEMMA Complains ==
  ASSUME IInv, pc \notin Ended, UNCHANGED <<printed, status>>, errors' \/ refused'
  PROVE  Promise!Next
    BY DEF IInv, Staged, Ended, Promise!Next, Promise!Complain

LEMMA PrintsWhole ==
  ASSUME IInv, pc \notin {"parse"} \union Ended, UNCHANGED <<errors, refused, status>>,
         NEW whole, whole = TRUE, Prints(whole), invocation.action \in OutputOptions
  PROVE  Promise!Next
<1>1. printed' \in [action : OutputOptions, whole : {TRUE}]
    BY DEF Prints
<1>2. ~errors /\ ~refused /\ printed = Nothing /\ status = "running"
    BY DEF IInv, Staged, Ended
<1>3. QED
    BY <1>1, <1>2 DEF Promise!Next, Promise!PrintTokens

LEMMA StepIsPromised == IInv /\ [Next]_vars => [Promise!Next]_Promise!vars
<1> SUFFICES ASSUME IInv, Next PROVE Promise!Next \/ UNCHANGED Promise!vars
    BY Silent DEF vars
<1>1. CASE EndOfOptions \/ ColorOption
    BY <1>1, Silent DEF EndOfOptions, ColorOption, AfterArguments
<1>2. CASE Reading /\ (Refuse \/ UNCHANGED <<refused, AfterArguments>>)
  <2>1. pc = "arguments" /\ UNCHANGED <<printed, errors, status>>
      BY <1>2 DEF Reading, Refuse, AfterArguments
  <2>2. QED
      BY <1>2, <2>1, Silent, Complains DEF Refuse, AfterArguments, Ended
<1>3. CASE OutputOption
    BY <1>2, <1>3 DEF OutputOption, AfterArguments
<1>4. CASE IncludeOption
    BY <1>2, <1>4 DEF IncludeOption, AfterArguments
<1>5. CASE Operand
    BY <1>2, <1>5 DEF Operand, AfterArguments
<1>6. CASE CheckUsage
  <2>1. pc = "arguments" /\ UNCHANGED <<printed, errors, status>> /\ (refused' \/ UNCHANGED refused)
      BY <1>6 DEF CheckUsage, Refuse, AfterArguments
  <2>2. QED
      BY <2>1, Silent, Complains DEF Ended
<1>7. CASE CannotOpen
    BY <1>7, Complains DEF CannotOpen, Ended
<1>8. CASE Open
    BY <1>8, Silent DEF Open
<1>9. CASE DumpTokens
  <2>1. PICK invalid \in BOOLEAN : /\ errors' = invalid
                                   /\ IF invalid THEN UNCHANGED printed ELSE Prints(TRUE)
      BY <1>9 DEF DumpTokens
  <2>2. pc = "dumpTokens" /\ UNCHANGED <<refused, status>> /\ ~errors /\ errors \in BOOLEAN
      BY <1>9 DEF DumpTokens, IInv, Staged, Ended, Typed, TypedControl
  <2>3. CASE invalid
      BY <2>1, <2>2, <2>3, Complains DEF Ended
  <2>4. CASE ~invalid
    <3>1. UNCHANGED errors /\ Prints(TRUE)
        BY <2>1, <2>2, <2>4
    <3>2. invocation.action \in OutputOptions
        BY <2>2 DEF IInv, Staged, Action, OutputOptions
    <3>3. QED
        BY <2>2, <3>1, <3>2, PrintsWhole DEF Ended
  <2>5. QED
      BY <2>3, <2>4
<1>10. CASE Preprocess
    BY <1>10, Complains, Silent DEF Preprocess, Ended
<1>11. CASE PrintText
  <2>1. pc = "printText" /\ Prints(TRUE) /\ UNCHANGED <<errors, refused, status>>
      BY <1>11 DEF PrintText
  <2>2. invocation.action \in OutputOptions
      BY <2>1 DEF IInv, Staged, Action, OutputOptions
  <2>3. QED
      BY <2>1, <2>2, PrintsWhole DEF Ended
<1>12. CASE ChooseTarget
    BY <1>12, Complains, Silent DEF ChooseTarget, Ended
<1>13. CASE FetchEof \/ EndToken \/ Advance
    BY <1>13, Silent DEF FetchEof, EndToken, Advance, AfterParse
<1>14. CASE Fetch \/ JoinString
  <2>1. pc = "parse" /\ UNCHANGED <<printed, refused, status>> /\ (errors' \/ UNCHANGED errors)
      BY <1>14 DEF Fetch, JoinString, Fetching, Parsing, Convert, AfterParse
  <2>2. QED
      BY <2>1, Silent, Complains DEF Ended
<1>15. CASE SyntaxError
    BY <1>15, Complains DEF SyntaxError, Parsing, AfterParse, Ended
<1>16. CASE ParseReturns
    BY <1>16, Silent DEF ParseReturns
<1>17. CASE DumpAST
  <2>1. pc = "dumpAST" /\ Prints(Whole) /\ UNCHANGED <<errors, refused, status>>
      BY <1>17 DEF DumpAST
  <2>2. Whole = TRUE
      BY <2>1 DEF IInv, Staged, Ended, Grown, Complete, Whole
  <2>3. invocation.action \in OutputOptions
      BY <2>1 DEF IInv, Staged, Action, OutputOptions
  <2>4. QED
      BY <2>1, <2>2, <2>3, PrintsWhole DEF Ended, Prints
<1>18. CASE Analyse
    BY <1>18, Complains, Silent DEF Analyse, Ended
<1>19. CASE Finish
  <2>1. pc = "checked" /\ UNCHANGED <<refused, status>>
      BY <1>19 DEF Finish
  <2>2. (Whole /\ unit.checked) = TRUE
      BY <2>1 DEF IInv, Staged, Ended, Grown, Complete, Whole
  <2>3. \/ Prints(Whole /\ unit.checked) /\ UNCHANGED errors /\ invocation.action \in OutputOptions
        \/ errors' = TRUE /\ UNCHANGED printed
        \/ UNCHANGED <<errors, printed>>
      BY <1>19 DEF Finish, Action, OutputOptions
  <2>4. CASE Prints(Whole /\ unit.checked) /\ UNCHANGED errors /\ invocation.action \in OutputOptions
      BY <2>1, <2>2, <2>4, PrintsWhole DEF Ended, Prints
  <2>5. QED
      BY <2>1, <2>3, <2>4, Complains, Silent DEF Ended
<1>20. CASE Exit
  <2>1. /\ pc \in Ended /\ status = "running" /\ UNCHANGED <<printed, errors, refused>>
        /\ status' = IF result THEN "success" ELSE "failure"
      BY <1>20 DEF Exit, StatusOf, Ended
  <2>2. result <=> ~(errors \/ refused)
      BY <2>1 DEF IInv, Staged, Ended
  <2>3. status' = IF errors \/ refused THEN "failure" ELSE "success"
      BY <2>1, <2>2
  <2>4. QED
      BY <2>1, <2>3 DEF Promise!Next, Promise!Exit
<1>21. QED
    BY <1>1, <1>3, <1>4, <1>5, <1>6, <1>7, <1>8, <1>9, <1>10, <1>11, <1>12, <1>13, <1>14, <1>15,
       <1>16, <1>17, <1>18, <1>19, <1>20 DEF Next

\* Whatever the command line, the texts and the errors of the passes: a
\* complete result and success, or a diagnostic, no result and failure
\* (execute, main; docs/sema.md).
THEOREM DriverImplementsInvocation == Spec => Implements
<1>1. Init => Promise!Init
    BY DEF Init, Promise!Init
<1>2. QED
    BY <1>1, Inductive, StepIsPromised, PTL DEF Spec, Implements, Promise!Spec

-----------------------------------------------------------------------------
(* The command line.  What an argument is depends on those before it; the    *)
(* roles are a recursive function, of which the proofs use that it satisfies *)
(* its equation (RoleIs).                                                    *)
RoleOf(line, role, k) ==
  IF k > 1 /\ role[k - 1] = "option" /\ line[k - 1] = "-I" THEN "directory"
  ELSE IF \E j \in 1 .. k - 1 : role[j] = "end" THEN "operand"
  ELSE IF line[k] = "--" THEN "end"
  ELSE IF line[k] \in Dashed THEN "option" ELSE "operand"

LEMMA RoleIsChosen ==
  ASSUME NEW line
  PROVE  Role(line) = CHOOSE role : role = [k \in DOMAIN line |-> RoleOf(line, role, k)]
BY DEF Role, RoleOf

\* Roles are decided by those before.
LEMMA RoleLooksBack ==
  ASSUME NEW line, NEW f, NEW g, NEW k \in Nat \ {0}, \A j \in 1 .. k - 1 : f[j] = g[j]
  PROVE  RoleOf(line, f, k) = RoleOf(line, g, k)
<1>1. k > 1 => f[k - 1] = g[k - 1]
    BY k \in Int
<1>2. (\E j \in 1 .. k - 1 : f[j] = "end") <=> (\E j \in 1 .. k - 1 : g[j] = "end")
    OBVIOUS
<1>3. QED
    BY <1>1, <1>2 DEF RoleOf

\* The numbers below, as a relation, have a least element in every set.
LEMMA LeastOf ==
  ASSUME NEW S \in SUBSET Nat, NEW n \in S
  PROVE  \E i \in S : \A j \in S : i <= j
<1> DEFINE Less == {p \in Nat \X Nat : p[1] < p[2]}
<1>1. IsWellFoundedOn(Less, Nat)
    BY NatLessThanWellFounded DEF OpToRel
<1>2. \A i, j \in Nat : <<j, i>> \in Less <=> j < i
    OBVIOUS
<1> HIDE DEF Less
<1>3. PICK m \in S : \A j \in S : ~(<<j, m>> \in Less)
    BY <1>1, WFMin
<1>4. ASSUME NEW j \in S PROVE m <= j
  <2>1. m \in Nat /\ j \in Nat /\ ~(<<j, m>> \in Less)
      BY <1>3
  <2>2. ~(j < m)
      BY <1>2, <2>1
  <2>3. QED
      BY <2>1, <2>2
<1>5. QED
    BY <1>4

RolesUpTo(line, n, f) == f = [k \in 1 .. n |-> RoleOf(line, f, k)]

LEMMA RolesExist ==
  ASSUME NEW line, NEW n \in Nat
  PROVE  \E f : RolesUpTo(line, n, f)
<1> DEFINE Missing == {m \in Nat : ~ \E f : RolesUpTo(line, m, f)}
<1>1. SUFFICES ASSUME n \in Missing PROVE FALSE
    OBVIOUS
<1>2. PICK m \in Missing : \A j \in Missing : m <= j
  <2>1. Missing \in SUBSET Nat
      OBVIOUS
  <2> HIDE DEF Missing
  <2>2. QED
      BY <1>1, <2>1, LeastOf
<1>3. m \in Nat /\ ~ \E f : RolesUpTo(line, m, f)
    OBVIOUS
<1>4. CASE m = 0
  <2> DEFINE none == [k \in 1 .. 0 |-> "operand"]
  <2>1. none = [k \in 1 .. 0 |-> RoleOf(line, none, k)]
    <3>1. 1 .. 0 = {}
        OBVIOUS
    <3>2. QED
        BY <3>1
  <2>2. RolesUpTo(line, 0, none)
      BY <2>1 DEF RolesUpTo
  <2>3. QED
      BY <1>3, <1>4, <2>2
<1>5. CASE m # 0
  <2>1. m - 1 \in Nat /\ ~(m <= m - 1)
      BY <1>3, <1>5
  <2>2. PICK f : RolesUpTo(line, m - 1, f)
    <3>1. m - 1 \notin Missing
        BY <1>2, <2>1
    <3>2. QED
        BY <2>1, <3>1
  <2> DEFINE g == [k \in 1 .. m |-> RoleOf(line, f, k)]
  <2>3. ASSUME NEW k \in 1 .. m - 1 PROVE f[k] = g[k]
    <3>1. k \in 1 .. m
        BY <1>3
    <3>2. g[k] = RoleOf(line, f, k)
        BY <3>1
    <3>3. f[k] = RoleOf(line, f, k)
        BY <2>2, <2>3 DEF RolesUpTo
    <3>4. QED
        BY <3>2, <3>3
  <2> HIDE DEF g
  <2>4. ASSUME NEW k \in 1 .. m PROVE RoleOf(line, f, k) = RoleOf(line, g, k)
    <3>1. k \in Nat \ {0}
        BY <1>3
    <3>2. \A j \in 1 .. k - 1 : f[j] = g[j]
        BY <1>3, <2>3
    <3>3. QED
        BY <3>1, <3>2, RoleLooksBack
  <2>5. g = [k \in 1 .. m |-> RoleOf(line, g, k)]
      BY <2>4 DEF g
  <2>6. QED
      BY <1>3, <2>5 DEF RolesUpTo
<1>6. QED
    BY <1>4, <1>5

LEMMA RoleIs ==
  ASSUME NEW line \in Seq(STRING), NEW k \in DOMAIN line
  PROVE  Role(line)[k] = RoleOf(line, Role(line), k)
<1>1. DOMAIN line = 1 .. Len(line) /\ Len(line) \in Nat
    BY LenProperties
<1>2. \E f : f = [j \in DOMAIN line |-> RoleOf(line, f, j)]
  <2>1. PICK f : RolesUpTo(line, Len(line), f)
      BY <1>1, RolesExist
  <2>2. f = [j \in 1 .. Len(line) |-> RoleOf(line, f, j)]
      BY <2>1 DEF RolesUpTo
  <2>3. f = [j \in DOMAIN line |-> RoleOf(line, f, j)]
      BY <1>1, <2>2
  <2>4. QED
      BY <2>3
<1>3. Role(line) = [j \in DOMAIN line |-> RoleOf(line, Role(line), j)]
  <2> DEFINE chosen == CHOOSE f : f = [j \in DOMAIN line |-> RoleOf(line, f, j)]
  <2>1. chosen = [j \in DOMAIN line |-> RoleOf(line, chosen, j)]
      BY <1>2, Zenon
  <2>2. Role(line) = chosen
      BY RoleIsChosen
  <2> HIDE DEF chosen
  <2>3. QED
      BY <2>1, <2>2
<1>4. QED
    BY <1>3

\* What is known of the arguments before the next: their options and operands,
\* and that a pending -I or a -- among them is accounted for.
OptionsTo(line, n)  == {k \in 1 .. n - 1 : Role(line)[k] = "option"}
OperandsTo(line, n) == {k \in 1 .. n - 1 : Role(line)[k] = "operand"}
IncludesAmong(line, K) == {k \in K : line[k] = "-I" \/ line[k] \in DOMAIN DirectoryOf}
DirSet == STRING \union {DirectoryOf[a] : a \in DOMAIN DirectoryOf}

InOrder(line, dirs, K) ==
  \E position \in [DOMAIN dirs -> K] :
     /\ \A d \in DOMAIN position : dirs[d] = Directory(line, position[d])
     /\ \A d, e \in DOMAIN position : d < e => position[d] < position[e]
     /\ \A k \in K : \E d \in DOMAIN position : position[d] = k

TypedArguments ==
  /\ argv \in CommandLines /\ options \in BOOLEAN
  /\ next \in Nat \ {0} /\ next <= Len(argv) + 1
  /\ invocation \in [inputFile : STRING \union {None}, action : Actions, includeDirs : Seq(DirSet)]

Placed ==
  /\ options <=> \A j \in 1 .. next - 1 : Role(argv)[j] # "end"
  /\ next > 1 => ~(Role(argv)[next - 1] = "option" /\ argv[next - 1] = "-I")

OptionsKnown ==
  \A k \in OptionsTo(argv, next) :
     /\ argv[k] \in KnownOptions \ {"--"}
     /\ argv[k] = "-I" => k < Len(argv)
     /\ argv[k] = "--emit-mlir" => build.mlir
     /\ argv[k] \in OutputOptions => argv[k] \in asked

AskedFor == \A a \in asked : /\ a \in OutputOptions
                             /\ \E k \in OptionsTo(argv, next) : argv[k] = a

OneOperand ==
  IF invocation.inputFile = None THEN OperandsTo(argv, next) = {}
  ELSE \E f \in OperandsTo(argv, next) :
          OperandsTo(argv, next) = {f} /\ invocation.inputFile = argv[f]

DirectoriesRead ==
  InOrder(argv, invocation.includeDirs, IncludesAmong(argv, OptionsTo(argv, next)))

ReadSoFar == /\ TypedArguments /\ Placed /\ OptionsKnown /\ AskedFor /\ OneOperand
             /\ DirectoriesRead /\ invocation.action = "checkSyntax"

ReadInv == ReadsCommandLine /\ (pc = "arguments" => ReadSoFar)

LEMMA LineFacts ==
  ASSUME TypedArguments
  PROVE  /\ argv \in Seq(STRING) /\ Len(argv) \in Nat /\ DOMAIN argv = 1 .. Len(argv)
         /\ \A k \in 1 .. Len(argv) : argv[k] \in STRING /\ argv[k] # None
<1>1. argv \in Seq(STRING \ {None})
    BY ArgumentsAssumption DEF TypedArguments
<1>2. Len(argv) \in Nat /\ DOMAIN argv = 1 .. Len(argv)
    BY <1>1, LenProperties
<1>3. \A k \in 1 .. Len(argv) : argv[k] \in STRING \ {None}
    BY <1>1, ElementOfSeq
<1>4. argv \in Seq(STRING)
    BY <1>1, <1>3
<1>5. QED
    BY <1>2, <1>3, <1>4

\* The code's conditions on the next argument tell its role.
LEMMA RoleOfNext ==
  ASSUME TypedArguments, Placed, Reading
  PROVE  /\ Role(argv)[next] = IF ~options THEN "operand"
                               ELSE IF arg = "--" THEN "end"
                               ELSE IF arg \in Dashed THEN "option" ELSE "operand"
         /\ Role(argv)[next] = "option" /\ arg = "-I" /\ next < Len(argv)
              => Role(argv)[next + 1] = "directory"
<1>1. next \in DOMAIN argv /\ next <= Len(argv) /\ next \in Nat \ {0} /\ argv \in Seq(STRING)
    BY LineFacts DEF Reading, TypedArguments
<1>2. Role(argv)[next] = RoleOf(argv, Role(argv), next)
    BY <1>1, RoleIs
<1>3. ~(next > 1 /\ Role(argv)[next - 1] = "option" /\ argv[next - 1] = "-I")
    BY DEF Placed
<1>4. options <=> ~ \E j \in 1 .. next - 1 : Role(argv)[j] = "end"
    BY DEF Placed
<1>5. Role(argv)[next] = IF ~options THEN "operand"
                         ELSE IF arg = "--" THEN "end"
                         ELSE IF arg \in Dashed THEN "option" ELSE "operand"
    BY <1>2, <1>3, <1>4 DEF RoleOf, arg
<1>6. ASSUME Role(argv)[next] = "option", arg = "-I", next < Len(argv)
      PROVE  Role(argv)[next + 1] = "directory"
  <2>1. next + 1 \in DOMAIN argv /\ next + 1 > 1 /\ (next + 1) - 1 = next
      BY <1>1, <1>6, LineFacts
  <2>2. Role(argv)[next + 1] = RoleOf(argv, Role(argv), next + 1)
      BY <1>1, <2>1, RoleIs
  <2>3. QED
      BY <1>6, <2>1, <2>2 DEF RoleOf, arg
<1>7. QED
    BY <1>5, <1>6

\* Going on by one argument.
LEMMA OneFurther ==
  ASSUME NEW line, NEW n \in Nat \ {0}
  PROVE  /\ OptionsTo(line, n + 1) = IF Role(line)[n] = "option" THEN OptionsTo(line, n) \union {n}
                                     ELSE OptionsTo(line, n)
         /\ OperandsTo(line, n + 1) = IF Role(line)[n] = "operand" THEN OperandsTo(line, n) \union {n}
                                      ELSE OperandsTo(line, n)
         /\ \A k \in OptionsTo(line, n) \union OperandsTo(line, n) : k \in Nat /\ k < n
         /\ (\A j \in 1 .. (n + 1) - 1 : Role(line)[j] # "end")
              <=> (\A j \in 1 .. n - 1 : Role(line)[j] # "end") /\ Role(line)[n] # "end"
<1>1. 1 .. (n + 1) - 1 = (1 .. n - 1) \union {n} /\ \A k \in 1 .. n - 1 : k \in Nat /\ k < n
    OBVIOUS
<1>2. QED
    BY <1>1 DEF OptionsTo, OperandsTo

\* One more directory behind the others.
LEMMA OneDirectoryMore ==
  ASSUME NEW line, NEW dirs \in Seq(DirSet), NEW K \in SUBSET Nat, InOrder(line, dirs, K),
         NEW n \in Nat, \A k \in K : k < n, NEW d \in DirSet, d = Directory(line, n)
  PROVE  InOrder(line, Append(dirs, d), K \union {n})
<1> DEFINE L  == Len(dirs)
           ds == Append(dirs, d)
<1>1. /\ L \in Nat /\ DOMAIN dirs = 1 .. L
      /\ Len(ds) = L + 1 /\ ds \in Seq(DirSet) /\ ds[L + 1] = d
      /\ \A i \in 1 .. L : ds[i] = dirs[i]
    BY LenProperties, AppendProperties
<1>2. DOMAIN ds = 1 .. L + 1
    BY <1>1, LenProperties
<1> HIDE DEF L, ds
<1>3. PICK p \in [1 .. L -> K] :
        /\ \A i \in 1 .. L : dirs[i] = Directory(line, p[i])
        /\ \A i, j \in 1 .. L : i < j => p[i] < p[j]
        /\ \A k \in K : \E i \in 1 .. L : p[i] = k
  <2>1. PICK p \in [DOMAIN dirs -> K] :
          /\ \A i \in DOMAIN p : dirs[i] = Directory(line, p[i])
          /\ \A i, j \in DOMAIN p : i < j => p[i] < p[j]
          /\ \A k \in K : \E i \in DOMAIN p : p[i] = k
      BY DEF InOrder
  <2>2. DOMAIN p = 1 .. L /\ p \in [1 .. L -> K]
      BY <1>1, <2>1
  <2>3. QED
      BY <2>1, <2>2
<1> DEFINE q == [i \in 1 .. L + 1 |-> IF i <= L THEN p[i] ELSE n]
<1>4. /\ \A i \in 1 .. L : i \in 1 .. L + 1 /\ q[i] = p[i] /\ p[i] \in K
      /\ q[L + 1] = n /\ L + 1 \in 1 .. L + 1
      /\ 1 .. L + 1 = (1 .. L) \union {L + 1}
    BY <1>1
<1>5. q \in [1 .. L + 1 -> K \union {n}] /\ DOMAIN q = 1 .. L + 1
    BY <1>1
<1> HIDE DEF q
<1>6. \A i \in 1 .. L + 1 : ds[i] = Directory(line, q[i])
    BY <1>1, <1>3, <1>4
<1>7. ASSUME NEW i \in 1 .. L + 1, NEW j \in 1 .. L + 1, i < j PROVE q[i] < q[j]
  <2>1. i \in 1 .. L
      BY <1>1, <1>7
  <2>2. CASE j \in 1 .. L
      BY <1>3, <1>4, <1>7, <2>1, <2>2
  <2>3. CASE j = L + 1
      BY <1>4, <2>1, <2>3
  <2>4. QED
      BY <1>4, <2>2, <2>3
<1>8. \A k \in K \union {n} : \E i \in 1 .. L + 1 : q[i] = k
    BY <1>3, <1>4
<1>9. InOrder(line, ds, K \union {n})
  <2>1. q \in [DOMAIN ds -> K \union {n}]
      BY <1>2, <1>5
  <2>2. \A i \in DOMAIN q : ds[i] = Directory(line, q[i])
      BY <1>5, <1>6
  <2>3. \A i, j \in DOMAIN q : i < j => q[i] < q[j]
      BY <1>5, <1>7
  <2>4. \A k \in K \union {n} : \E i \in DOMAIN q : q[i] = k
      BY <1>5, <1>8
  <2>5. QED
      BY <2>1, <2>2, <2>3, <2>4 DEF InOrder
<1>10. QED
    BY <1>9 DEF ds

\* What is known of the arguments read, by the argument next.
LEMMA NextFacts ==
  ASSUME ReadSoFar, Reading
  PROVE  /\ next \in Nat \ {0} /\ next <= Len(argv) /\ Len(argv) \in Nat
         /\ next \in DOMAIN argv /\ arg \in STRING /\ arg # None
         /\ \A k \in OptionsTo(argv, next) \union OperandsTo(argv, next) : k \in Nat /\ k < next
<1>1. next \in Nat \ {0} /\ next <= Len(argv)
    BY DEF ReadSoFar, TypedArguments, Reading
<1>2. /\ Len(argv) \in Nat /\ DOMAIN argv = 1 .. Len(argv)
      /\ \A k \in 1 .. Len(argv) : argv[k] \in STRING /\ argv[k] # None
    BY LineFacts DEF ReadSoFar
<1>3. next \in 1 .. Len(argv)
    BY <1>1, <1>2
<1>4. QED
    BY <1>1, <1>2, <1>3, OneFurther DEF arg

\* An argument that is neither an option nor an operand, read.
LEMMA EndOfOptionsReads ==
  ASSUME ReadInv, EndOfOptions
  PROVE  ReadInv'
<1>1. ReadSoFar /\ Reading /\ options /\ arg = "--" /\ pc = "arguments"
    BY DEF ReadInv, EndOfOptions, Reading
<1>2. Role(argv)[next] = "end"
    BY <1>1, RoleOfNext DEF ReadSoFar
<1>3. /\ next' = next + 1 /\ options' = FALSE
      /\ argv' = argv /\ build' = build /\ asked' = asked /\ invocation' = invocation
      /\ pc' = "arguments"
    BY <1>1 DEF EndOfOptions, AfterArguments
<1>4. next \in Nat \ {0} /\ next <= Len(argv) /\ Len(argv) \in Nat
    BY <1>1, NextFacts
<1>5. /\ OptionsTo(argv, next + 1) = OptionsTo(argv, next)
      /\ OperandsTo(argv, next + 1) = OperandsTo(argv, next)
      /\ ~ \A j \in 1 .. (next + 1) - 1 : Role(argv)[j] # "end"
    BY <1>2, <1>4, OneFurther
<1>6. TypedArguments'
  <2>1. options' \in BOOLEAN
      BY <1>3, Zenon
  <2>2. next' \in Nat \ {0} /\ next' <= Len(argv) + 1
      BY <1>3, <1>4
  <2>3. argv' = argv /\ invocation' = invocation
      BY <1>3
  <2>4. QED
      BY <1>1, <2>1, <2>2, <2>3 DEF ReadSoFar, TypedArguments
<1>7. Placed'
  <2>1. Role(argv)[(next + 1) - 1] = "end"
      BY <1>2, <1>4
  <2>2. QED
      BY <1>3, <1>5, <2>1 DEF Placed
<1>8. OptionsKnown' /\ AskedFor' /\ OneOperand' /\ DirectoriesRead'
  <2>1. OptionsTo(argv, next)' = OptionsTo(argv, next) /\ OperandsTo(argv, next)' = OperandsTo(argv, next)
      BY <1>3, <1>5
  <2>2. QED
      BY <1>1, <1>3, <2>1 DEF ReadSoFar, OptionsKnown, AskedFor, OneOperand, DirectoriesRead
<1>9. QED
    BY <1>1, <1>3, <1>6, <1>7, <1>8 DEF ReadInv, ReadSoFar, ReadsCommandLine

\* A refusal is right when the line is not understood.
LEMMA RefusalReads ==
  ASSUME Refuse, ~Understood(argv)
  PROVE  ReadInv'
<1>1. pc' = "refused" /\ argv' = argv /\ build' = build
    BY DEF Refuse, arguments, AfterArguments
<1>2. ~Understood(argv)'
    BY <1>1 DEF Understood
<1>3. QED
    BY <1>1, <1>2 DEF ReadInv, ReadsCommandLine

\* An option that is not a directory's: the options and what is asked for.
LEMMA OptionReads ==
  ASSUME ReadInv, Reading, options, arg \in KnownOptions \ {"--", "-I"},
         arg \notin DOMAIN DirectoryOf,
         arg = "--emit-mlir" => build.mlir,
         next' = next + 1,
         asked' = IF arg \in OutputOptions THEN asked \union {arg} ELSE asked,
         UNCHANGED <<argv, build, options, invocation, pc>>
  PROVE  ReadInv'
<1>1. ReadSoFar /\ pc = "arguments" /\ pc' = "arguments"
    BY DEF ReadInv, Reading
<1>2. Role(argv)[next] = "option" /\ arg # "-I" /\ arg = argv[next]
  <2>1. arg \in Dashed
      BY ArgumentsAssumption
  <2>2. QED
      BY <1>1, <2>1, RoleOfNext DEF ReadSoFar, arg
<1>3. /\ next \in Nat \ {0} /\ next <= Len(argv) /\ Len(argv) \in Nat
      /\ \A k \in OptionsTo(argv, next) \union OperandsTo(argv, next) : k \in Nat /\ k < next
    BY <1>1, NextFacts
<1>4. /\ OptionsTo(argv, next + 1) = OptionsTo(argv, next) \union {next}
      /\ OperandsTo(argv, next + 1) = OperandsTo(argv, next)
      /\ (\A j \in 1 .. (next + 1) - 1 : Role(argv)[j] # "end")
           <=> (\A j \in 1 .. next - 1 : Role(argv)[j] # "end")
    BY <1>2, <1>3, OneFurther
<1>5. TypedArguments'
    BY <1>1, <1>3 DEF ReadSoFar, TypedArguments
<1>6. Placed'
  <2>1. argv[(next + 1) - 1] # "-I"
      BY <1>2, <1>3
  <2>2. QED
      BY <1>1, <1>4, <2>1 DEF ReadSoFar, Placed
<1>7. OptionsTo(argv, next)' = OptionsTo(argv, next) \union {next}
      /\ OperandsTo(argv, next)' = OperandsTo(argv, next)
    BY <1>4
<1>8. OptionsKnown'
  <2>1. ASSUME NEW k \in OptionsTo(argv, next)
        PROVE  /\ argv[k] \in KnownOptions \ {"--"}
               /\ argv[k] = "-I" => k < Len(argv)
               /\ argv[k] = "--emit-mlir" => build.mlir
               /\ argv[k] \in OutputOptions => argv[k] \in asked'
      BY <1>1, <2>1 DEF ReadSoFar, OptionsKnown
  <2>2. QED
      BY <1>2, <1>7, <2>1 DEF OptionsKnown
<1>9. AskedFor'
    BY <1>1, <1>2, <1>7 DEF ReadSoFar, AskedFor
<1>10. OneOperand'
    BY <1>1, <1>7 DEF ReadSoFar, OneOperand
<1>11. DirectoriesRead'
  <2>1. IncludesAmong(argv, OptionsTo(argv, next) \union {next})
          = IncludesAmong(argv, OptionsTo(argv, next))
      BY <1>2 DEF IncludesAmong
  <2>2. QED
      BY <1>1, <1>7, <2>1 DEF ReadSoFar, DirectoriesRead
<1>12. QED
    BY <1>1, <1>5, <1>6, <1>8, <1>9, <1>10, <1>11 DEF ReadInv, ReadSoFar, ReadsCommandLine

LEMMA ColorOptionReads ==
  ASSUME ReadInv, ColorOption
  PROVE  ReadInv'
<1>1. /\ arg \in KnownOptions \ {"--", "-I"} /\ arg \notin DOMAIN DirectoryOf
      /\ arg # "--emit-mlir" /\ arg \notin OutputOptions
    BY ArgumentsAssumption DEF ColorOption, KnownOptions, OutputOptions
<1>2. QED
    BY <1>1, OptionReads DEF ColorOption, AfterArguments

LEMMA OutputOptionReads ==
  ASSUME ReadInv, OutputOption
  PROVE  ReadInv'
<1>1. Reading /\ options /\ arg \in OutputOptions
    BY DEF OutputOption
<1>2. arg \in KnownOptions \ {"--", "-I"} /\ arg \notin DOMAIN DirectoryOf
    BY <1>1, ArgumentsAssumption DEF KnownOptions, OutputOptions
<1>3. CASE arg = "--emit-mlir" /\ ~build.mlir
  <2>1. Role(argv)[next] = "option" /\ next \in DOMAIN argv /\ arg = argv[next]
    <3>1. arg \in Dashed /\ arg # "--" /\ ReadSoFar
        BY <1>1, <1>2, ArgumentsAssumption DEF ReadInv, Reading
    <3>2. QED
        BY <1>1, <3>1, RoleOfNext, NextFacts DEF ReadSoFar, arg
  <2>2. ~Understood(argv)
      BY <1>3, <2>1 DEF Understood, Options
  <2>3. QED
      BY <1>3, <2>2, RefusalReads DEF OutputOption
<1>4. CASE ~(arg = "--emit-mlir" /\ ~build.mlir)
    BY <1>1, <1>2, <1>4, OptionReads DEF OutputOption, AfterArguments
<1>5. QED
    BY <1>3, <1>4

\* A directory's option: one directory more, and behind -I the next argument is
\* passed over.
LEMMA IncludeOptionReads ==
  ASSUME ReadInv, IncludeOption
  PROVE  ReadInv'
<1> DEFINE m == next + ArgumentsOf(arg)
           d == IF arg = "-I" THEN argv[next + 1] ELSE DirectoryOf[arg]
<1>1. /\ ReadSoFar /\ Reading /\ options /\ pc = "arguments"
      /\ arg = "-I" \/ arg \in DOMAIN DirectoryOf
    BY DEF IncludeOption, ReadInv, Reading
<1>2. /\ next \in Nat \ {0} /\ next <= Len(argv) /\ Len(argv) \in Nat
      /\ next \in DOMAIN argv /\ arg = argv[next]
      /\ \A k \in OptionsTo(argv, next) \union OperandsTo(argv, next) : k \in Nat /\ k < next
    BY <1>1, NextFacts DEF arg
<1>3. /\ arg \in KnownOptions \ {"--"} /\ arg \notin OutputOptions /\ arg # "--emit-mlir"
    BY <1>1, ArgumentsAssumption DEF KnownOptions, OutputOptions
<1>4. /\ Role(argv)[next] = "option"
      /\ arg = "-I" /\ next < Len(argv) => Role(argv)[next + 1] = "directory"
  <2>1. arg \in Dashed
      BY <1>3, ArgumentsAssumption
  <2>2. Role(argv)[next] = "option"
      BY <1>1, <1>3, <2>1, RoleOfNext DEF ReadSoFar
  <2>3. QED
      BY <1>1, <2>2, RoleOfNext DEF ReadSoFar
<1>5. CASE arg = "-I" /\ next = Len(argv)
  <2>1. next \in Options(argv) /\ argv[next] = "-I" /\ ~(next < Len(argv))
      BY <1>2, <1>4, <1>5 DEF Options
  <2>2. ~Understood(argv)
      BY <2>1 DEF Understood
  <2>3. QED
      BY <1>5, <2>2, RefusalReads DEF IncludeOption
<1>6. CASE ~(arg = "-I" /\ next = Len(argv))
  <2>1. /\ invocation' = [invocation EXCEPT !.includeDirs = Append(@, d)]
        /\ next' = m /\ argv' = argv /\ options' = options /\ asked' = asked
        /\ build' = build /\ pc' = "arguments"
      BY <1>1, <1>6 DEF IncludeOption, AfterArguments
  <2>2. /\ invocation \in [inputFile : STRING \union {None}, action : Actions, includeDirs : Seq(DirSet)]
        /\ invocation.action = "checkSyntax"
      BY <1>1 DEF ReadSoFar, TypedArguments
  <2>3. d \in DirSet /\ d = Directory(argv, next)
    <3>1. d = Directory(argv, next)
        BY <1>2 DEF Directory
    <3>2. CASE arg = "-I"
      <4>1. next + 1 \in 1 .. Len(argv)
          BY <1>2, <1>6, <3>2
      <4>2. argv[next + 1] \in STRING
          BY <1>1, <4>1, LineFacts DEF ReadSoFar
      <4>3. QED
          BY <3>1, <3>2, <4>2 DEF DirSet
    <3>3. CASE arg # "-I"
        BY <1>1, <3>1, <3>3 DEF DirSet
    <3>4. QED
        BY <3>2, <3>3
  <2> HIDE DEF d
  <2>4. /\ invocation'.inputFile = invocation.inputFile
        /\ invocation'.action = invocation.action
        /\ invocation'.includeDirs = Append(invocation.includeDirs, d)
        /\ invocation.includeDirs \in Seq(DirSet)
        /\ invocation' \in [inputFile : STRING \union {None}, action : Actions, includeDirs : Seq(DirSet)]
    <3>1. invocation.includeDirs \in Seq(DirSet)
        BY <2>2
    <3>2. Append(invocation.includeDirs, d) \in Seq(DirSet)
        BY <2>3, <3>1, AppendProperties
    <3>3. QED
        BY <2>1, <2>2, <3>1, <3>2
  <2>5. /\ m \in Nat \ {0} /\ m <= Len(argv) + 1 /\ m > 1
        /\ OptionsTo(argv, m) = OptionsTo(argv, next) \union {next}
        /\ OperandsTo(argv, m) = OperandsTo(argv, next)
        /\ (\A j \in 1 .. m - 1 : Role(argv)[j] # "end")
             <=> (\A j \in 1 .. next - 1 : Role(argv)[j] # "end")
        /\ ~(Role(argv)[m - 1] = "option" /\ argv[m - 1] = "-I")
    <3>1. /\ OptionsTo(argv, next + 1) = OptionsTo(argv, next) \union {next}
          /\ OperandsTo(argv, next + 1) = OperandsTo(argv, next)
          /\ (\A j \in 1 .. (next + 1) - 1 : Role(argv)[j] # "end")
               <=> (\A j \in 1 .. next - 1 : Role(argv)[j] # "end")
        BY <1>2, <1>4, OneFurther
    <3>2. CASE arg = "-I"
      <4>1. m = (next + 1) + 1 /\ next + 1 \in Nat \ {0} /\ next < Len(argv) /\ m - 1 = next + 1
          BY <1>2, <1>6, <3>2 DEF ArgumentsOf
      <4>2. Role(argv)[next + 1] = "directory"
          BY <1>4, <3>2, <4>1
      <4> HIDE DEF m
      <4>3. /\ OptionsTo(argv, m) = OptionsTo(argv, next + 1)
            /\ OperandsTo(argv, m) = OperandsTo(argv, next + 1)
            /\ (\A j \in 1 .. m - 1 : Role(argv)[j] # "end")
                 <=> (\A j \in 1 .. (next + 1) - 1 : Role(argv)[j] # "end")
          BY <4>1, <4>2, OneFurther
      <4>4. m \in Nat \ {0} /\ m <= Len(argv) + 1 /\ m > 1
          BY <1>2, <4>1
      <4>5. ~(Role(argv)[m - 1] = "option" /\ argv[m - 1] = "-I")
          BY <4>1, <4>2
      <4>6. QED
          BY <3>1, <4>3, <4>4, <4>5
    <3>3. CASE arg # "-I"
      <4>1. m = next + 1 /\ m - 1 = next /\ m \in Nat \ {0} /\ m <= Len(argv) + 1 /\ m > 1
          BY <1>2, <3>3 DEF ArgumentsOf
      <4> HIDE DEF m
      <4>2. QED
          BY <1>2, <3>1, <3>3, <4>1
    <3>4. QED
        BY <3>2, <3>3
  <2> HIDE DEF m
  <2>6. OptionsTo(argv, next)' = OptionsTo(argv, next) \union {next}
        /\ OperandsTo(argv, next)' = OperandsTo(argv, next)
      BY <2>1, <2>5
  <2>7. TypedArguments'
      BY <1>1, <2>1, <2>4, <2>5 DEF ReadSoFar, TypedArguments
  <2>8. Placed'
      BY <1>1, <2>1, <2>5 DEF ReadSoFar, Placed
  <2>9. OptionsKnown'
    <3>1. ASSUME NEW k \in OptionsTo(argv, next)
          PROVE  /\ argv[k] \in KnownOptions \ {"--"}
                 /\ argv[k] = "-I" => k < Len(argv)
                 /\ argv[k] = "--emit-mlir" => build.mlir
                 /\ argv[k] \in OutputOptions => argv[k] \in asked
        BY <1>1, <3>1 DEF ReadSoFar, OptionsKnown
    <3>2. /\ argv[next] \in KnownOptions \ {"--"}
          /\ argv[next] = "-I" => next < Len(argv)
          /\ argv[next] # "--emit-mlir" /\ argv[next] \notin OutputOptions
        BY <1>2, <1>3, <1>6
    <3>3. QED
        BY <2>1, <2>6, <3>1, <3>2 DEF OptionsKnown
  <2>10. AskedFor'
      BY <1>1, <2>1, <2>6 DEF ReadSoFar, AskedFor
  <2>11. OneOperand'
      BY <1>1, <2>1, <2>4, <2>6 DEF ReadSoFar, OneOperand
  <2>12. DirectoriesRead'
    <3> DEFINE K == IncludesAmong(argv, OptionsTo(argv, next))
    <3>1. IncludesAmong(argv, OptionsTo(argv, next) \union {next}) = K \union {next}
        BY <1>1, <1>2 DEF IncludesAmong
    <3>2. K \in SUBSET Nat /\ \A k \in K : k < next
        BY <1>2 DEF IncludesAmong
    <3>3. InOrder(argv, invocation.includeDirs, K)
        BY <1>1 DEF ReadSoFar, DirectoriesRead
    <3> HIDE DEF K
    <3>4. InOrder(argv, Append(invocation.includeDirs, d), K \union {next})
        BY <1>2, <2>3, <2>4, <3>2, <3>3, OneDirectoryMore
    <3>5. QED
        BY <2>1, <2>4, <2>6, <3>1, <3>4 DEF DirectoriesRead
  <2>13. QED
      BY <2>1, <2>2, <2>4, <2>7, <2>8, <2>9, <2>10, <2>11, <2>12
      DEF ReadInv, ReadSoFar, ReadsCommandLine
<1>7. QED
    BY <1>5, <1>6

\* An input file, the first; or a second one or an unknown option, which no
\* line understood has.
LEMMA OperandReads ==
  ASSUME ReadInv, Operand
  PROVE  ReadInv'
<1>1. /\ ReadSoFar /\ Reading /\ pc = "arguments" /\ options \in BOOLEAN
      /\ options => arg \notin KnownOptions
    BY DEF Operand, ReadInv, Reading, ReadSoFar, TypedArguments
<1>2. /\ next \in Nat \ {0} /\ next <= Len(argv) /\ Len(argv) \in Nat
      /\ next \in DOMAIN argv /\ arg = argv[next] /\ arg \in STRING /\ arg # None
      /\ \A k \in OptionsTo(argv, next) \union OperandsTo(argv, next) : k \in Nat /\ k < next
    BY <1>1, NextFacts DEF arg
<1>3. options => arg # "--"
    BY <1>1 DEF KnownOptions
<1>4. CASE options /\ arg \in Dashed
  <2>1. Role(argv)[next] = "option"
      BY <1>1, <1>3, <1>4, RoleOfNext DEF ReadSoFar
  <2>2. next \in Options(argv) /\ argv[next] \notin KnownOptions
      BY <1>1, <1>2, <1>4, <2>1 DEF Options
  <2>3. ~Understood(argv)
      BY <2>2 DEF Understood
  <2>4. QED
      BY <1>4, <2>3, RefusalReads DEF Operand
<1>5. CASE ~(options /\ arg \in Dashed)
  <2>1. Role(argv)[next] = "operand"
      BY <1>1, <1>3, <1>5, RoleOfNext DEF ReadSoFar
  <2>2. CASE invocation.inputFile # None
    <3>1. PICK f \in OperandsTo(argv, next) : OperandsTo(argv, next) = {f}
        BY <1>1, <2>2 DEF ReadSoFar, OneOperand
    <3>2. f \in 1 .. next - 1 /\ Role(argv)[f] = "operand" /\ f \in Nat /\ f < next
        BY <1>2, <3>1 DEF OperandsTo
    <3>3. f \in DOMAIN argv
      <4>1. f \in 1 .. Len(argv)
          BY <1>2, <3>2
      <4>2. QED
          BY <1>1, <4>1, LineFacts DEF ReadSoFar
    <3>4. f \in Operands(argv) /\ next \in Operands(argv) /\ f # next
        BY <1>2, <2>1, <3>2, <3>3 DEF Operands
    <3>5. ~Understood(argv)
        BY <3>4 DEF Understood
    <3>6. QED
        BY <2>2, <3>5, RefusalReads DEF Operand
  <2>3. CASE invocation.inputFile = None
    <3>1. /\ invocation' = [invocation EXCEPT !.inputFile = arg]
          /\ next' = next + 1 /\ argv' = argv /\ options' = options /\ asked' = asked
          /\ build' = build /\ pc' = "arguments"
        BY <1>1, <1>5, <2>3 DEF Operand, AfterArguments
    <3>2. /\ invocation \in [inputFile : STRING \union {None}, action : Actions, includeDirs : Seq(DirSet)]
          /\ invocation.action = "checkSyntax" /\ OperandsTo(argv, next) = {}
        BY <1>1, <2>3 DEF ReadSoFar, TypedArguments, OneOperand
    <3>3. /\ invocation'.inputFile = arg
          /\ invocation'.action = invocation.action
          /\ invocation'.includeDirs = invocation.includeDirs
          /\ invocation' \in [inputFile : STRING \union {None}, action : Actions, includeDirs : Seq(DirSet)]
        BY <1>2, <3>1, <3>2
    <3>4. /\ OptionsTo(argv, next + 1) = OptionsTo(argv, next)
          /\ OperandsTo(argv, next + 1) = {next}
          /\ (\A j \in 1 .. (next + 1) - 1 : Role(argv)[j] # "end")
               <=> (\A j \in 1 .. next - 1 : Role(argv)[j] # "end")
        BY <1>2, <2>1, <3>2, OneFurther
    <3>5. OptionsTo(argv, next)' = OptionsTo(argv, next) /\ OperandsTo(argv, next)' = {next}
        BY <3>1, <3>4
    <3>6. TypedArguments'
        BY <1>1, <1>2, <3>1, <3>3 DEF ReadSoFar, TypedArguments
    <3>7. Placed'
      <4>1. Role(argv)[(next + 1) - 1] # "option"
          BY <1>2, <2>1
      <4>2. QED
          BY <1>1, <3>1, <3>4, <4>1 DEF ReadSoFar, Placed
    <3>8. OptionsKnown' /\ AskedFor'
        BY <1>1, <3>1, <3>5 DEF ReadSoFar, OptionsKnown, AskedFor
    <3>9. OneOperand'
        BY <1>2, <3>1, <3>3, <3>5 DEF OneOperand
    <3>10. DirectoriesRead'
        BY <1>1, <3>1, <3>3, <3>5 DEF ReadSoFar, DirectoriesRead
    <3>11. QED
        BY <3>1, <3>2, <3>3, <3>6, <3>7, <3>8, <3>9, <3>10
        DEF ReadInv, ReadSoFar, ReadsCommandLine
  <2>4. QED
      BY <2>2, <2>3
<1>6. QED
    BY <1>4, <1>5

\* All arguments read, what is known of them is known of the line.
LEMMA AllRead ==
  ASSUME ReadSoFar, next > Len(argv)
  PROVE  OptionsTo(argv, next) = Options(argv) /\ OperandsTo(argv, next) = Operands(argv)
<1>1. Len(argv) \in Nat /\ DOMAIN argv = 1 .. Len(argv)
    BY LineFacts DEF ReadSoFar
<1>2. next - 1 = Len(argv)
    BY <1>1 DEF ReadSoFar, TypedArguments
<1>3. QED
    BY <1>1, <1>2 DEF OptionsTo, OperandsTo, Options, Operands

\* A line with one operand and no conflict is understood, and means what was
\* read of it.
LEMMA AcceptedIsMeant ==
  ASSUME ReadSoFar, next > Len(argv), invocation.inputFile # None, ~Conflict,
         UNCHANGED <<argv, build>>,
         invocation' = [invocation EXCEPT !.action = IF asked = {} THEN @
                                                     ELSE CHOOSE a \in asked : TRUE]
  PROVE  Understood(argv)' /\ Means(argv)'
<1>1. OptionsTo(argv, next) = Options(argv) /\ OperandsTo(argv, next) = Operands(argv)
    BY AllRead
<1>2. ASSUME NEW k \in Options(argv)
      PROVE  /\ argv[k] \in KnownOptions \ {"--"}
             /\ argv[k] = "-I" => k < Len(argv)
             /\ argv[k] = "--emit-mlir" => build.mlir
             /\ argv[k] \in OutputOptions => argv[k] \in asked
    BY <1>1, <1>2 DEF ReadSoFar, OptionsKnown
<1>3. PICK f \in Operands(argv) : Operands(argv) = {f} /\ invocation.inputFile = argv[f]
    BY <1>1 DEF ReadSoFar, OneOperand
<1>4. ASSUME NEW a \in asked, NEW b \in asked PROVE a = b
    BY <1>4 DEF Conflict
<1>5. Understood(argv)'
  <2>1. \A j, k \in Options(argv) :
          argv[j] \in OutputOptions /\ argv[k] \in OutputOptions => argv[j] = argv[k]
      BY <1>2, <1>4
  <2>2. (\E k \in Options(argv) : argv[k] = "--emit-mlir") => build.mlir
      BY <1>2
  <2>3. Understood(argv)
      BY <1>2, <1>3, <2>1, <2>2 DEF Understood
  <2>4. QED
      BY <2>3 DEF Understood
<1>6. invocation \in [inputFile : STRING \union {None}, action : Actions, includeDirs : Seq(DirSet)]
      /\ invocation.action = "checkSyntax"
    BY DEF ReadSoFar, TypedArguments
<1> DEFINE meant == IF asked = {} THEN "checkSyntax" ELSE CHOOSE a \in asked : TRUE
<1>7. /\ invocation'.inputFile = invocation.inputFile
      /\ invocation'.includeDirs = invocation.includeDirs
      /\ invocation'.action = meant
    BY <1>6
<1>8. meant = IF \E k \in Options(argv) : argv[k] \in OutputOptions
              THEN argv[CHOOSE k \in Options(argv) : argv[k] \in OutputOptions]
              ELSE "checkSyntax"
  <2>1. CASE \E k \in Options(argv) : argv[k] \in OutputOptions
    <3> DEFINE one == CHOOSE k \in Options(argv) : argv[k] \in OutputOptions
    <3>1. one \in Options(argv) /\ argv[one] \in OutputOptions
        BY <2>1, Zenon
    <3> HIDE DEF one
    <3>2. argv[one] \in asked
        BY <1>2, <3>1
    <3>3. (CHOOSE a \in asked : TRUE) \in asked
        BY <3>2, Zenon
    <3>4. meant = argv[one]
        BY <1>4, <3>2, <3>3
    <3> HIDE DEF meant
    <3>5. QED
        BY <2>1, <3>4 DEF one
  <2>2. CASE ~ \E k \in Options(argv) : argv[k] \in OutputOptions
    <3>1. asked = {}
        BY <1>1, <2>2 DEF ReadSoFar, AskedFor
    <3>2. QED
        BY <2>2, <3>1
  <2>3. QED
      BY <2>1, <2>2
<1> HIDE DEF meant
<1>9. InOrder(argv, invocation.includeDirs,
              {k \in Options(argv) : argv[k] = "-I" \/ argv[k] \in DOMAIN DirectoryOf})
    BY <1>1 DEF ReadSoFar, DirectoriesRead, IncludesAmong
<1>10. Means(argv)'
  <2>1. \A k \in Operands(argv) : invocation.inputFile = argv[k]
      BY <1>3
  <2>2. QED
      BY <1>7, <1>8, <1>9, <2>1 DEF Means, InOrder
<1>11. QED
    BY <1>5, <1>10

LEMMA CheckUsageReads ==
  ASSUME ReadInv, CheckUsage
  PROVE  ReadInv'
<1>1. ReadSoFar /\ pc = "arguments" /\ next > Len(argv)
    BY DEF ReadInv, CheckUsage
<1>2. OptionsTo(argv, next) = Options(argv) /\ OperandsTo(argv, next) = Operands(argv)
    BY <1>1, AllRead
<1>3. CASE invocation.inputFile = None
  <2>1. Operands(argv) = {}
      BY <1>1, <1>2, <1>3 DEF ReadSoFar, OneOperand
  <2>2. ~Understood(argv)
      BY <2>1 DEF Understood
  <2>3. QED
      BY <1>3, <2>2, RefusalReads DEF CheckUsage
<1>4. CASE Conflict
  <2>1. PICK a \in asked, b \in asked : a # b
      BY <1>4 DEF Conflict
  <2>2. PICK j \in Options(argv) : argv[j] = a
      BY <1>1, <1>2 DEF ReadSoFar, AskedFor
  <2>3. PICK k \in Options(argv) : argv[k] = b
      BY <1>1, <1>2 DEF ReadSoFar, AskedFor
  <2>4. a \in OutputOptions /\ b \in OutputOptions
      BY <1>1 DEF ReadSoFar, AskedFor
  <2>5. ~Understood(argv)
      BY <2>1, <2>2, <2>3, <2>4 DEF Understood
  <2>6. QED
      BY <1>4, <2>5, RefusalReads DEF CheckUsage
<1>5. CASE invocation.inputFile # None /\ ~Conflict
  <2>1. /\ invocation' = [invocation EXCEPT !.action = IF asked = {} THEN @
                                                       ELSE CHOOSE a \in asked : TRUE]
        /\ pc' = "execute" /\ argv' = argv /\ build' = build
      BY <1>5 DEF CheckUsage, arguments, AfterArguments
  <2>2. Understood(argv)' /\ Means(argv)'
      BY <1>1, <1>5, <2>1, AcceptedIsMeant
  <2>3. QED
      BY <2>1, <2>2 DEF ReadInv, ReadsCommandLine
<1>6. QED
    BY <1>3, <1>4, <1>5

\* The steps behind the arguments leave the command line, and what was made of
\* it, alone; none goes back, and none refuses.
LaterStep == /\ pc # "arguments" /\ pc' \notin {"arguments", "execute"}
             /\ pc' = "refused" => pc = "refused"
             /\ UNCHANGED Unread

LEMMA OthersAreLater ==
  Next => \/ EndOfOptions \/ ColorOption \/ OutputOption \/ IncludeOption \/ Operand \/ CheckUsage
          \/ LaterStep
<1> SUFFICES ASSUME Next,
                    ~(EndOfOptions \/ ColorOption \/ OutputOption \/ IncludeOption \/ Operand
                      \/ CheckUsage)
             PROVE  LaterStep
    OBVIOUS
<1> USE DEF LaterStep
<1>1. CASE CannotOpen
    BY <1>1 DEF CannotOpen, Returns
<1>2. CASE Open
    BY <1>2 DEF Open
<1>3. CASE DumpTokens
    BY <1>3 DEF DumpTokens, Returns
<1>4. CASE Preprocess
    BY <1>4 DEF Preprocess, Returns
<1>5. CASE PrintText
    BY <1>5 DEF PrintText, Returns
<1>6. CASE ChooseTarget
    BY <1>6 DEF ChooseTarget, Returns
<1>7. CASE FetchEof \/ Fetch \/ JoinString \/ EndToken
    BY <1>7 DEF FetchEof, Fetch, JoinString, EndToken, Fetching, Parsing, AfterParse
<1>8. CASE Advance \/ SyntaxError
    BY <1>8 DEF Advance, SyntaxError, Parsing, AfterParse
<1>9. CASE ParseReturns
    BY <1>9 DEF ParseReturns, Parsing, Returns
<1>10. CASE DumpAST
    BY <1>10 DEF DumpAST, Returns
<1>11. CASE Analyse
    BY <1>11 DEF Analyse, Returns
<1>12. CASE Finish
    BY <1>12 DEF Finish, Returns
<1>13. CASE Exit
    BY <1>13 DEF Exit
<1>14. QED
    BY <1>1, <1>2, <1>3, <1>4, <1>5, <1>6, <1>7, <1>8, <1>9, <1>10, <1>11, <1>12, <1>13 DEF Next

LEMMA LaterStepReads ==
  ASSUME ReadInv, LaterStep
  PROVE  ReadInv'
<1>1. argv' = argv /\ build' = build /\ invocation' = invocation
    BY DEF LaterStep, Unread, arguments
<1>2. Understood(argv)' <=> Understood(argv)
    BY <1>1 DEF Understood
<1>3. QED
    BY <1>1, <1>2 DEF ReadInv, ReadsCommandLine, LaterStep

LEMMA StutteringReads ==
  ASSUME ReadInv, UNCHANGED vars
  PROVE  ReadInv'
<1>1. /\ argv' = argv /\ build' = build /\ invocation' = invocation /\ pc' = pc
      /\ next' = next /\ options' = options /\ asked' = asked
    BY DEF vars, arguments
<1>2. Understood(argv)' <=> Understood(argv)
    BY <1>1 DEF Understood
<1>3. Means(argv)' <=> Means(argv)
    BY <1>1 DEF Means
<1>4. ReadsCommandLine'
    BY <1>1, <1>2, <1>3 DEF ReadInv, ReadsCommandLine
<1>5. TypedArguments' <=> TypedArguments
    BY <1>1 DEF TypedArguments
<1>6. Placed' <=> Placed
    BY <1>1 DEF Placed
<1>7. OptionsKnown' <=> OptionsKnown
    BY <1>1 DEF OptionsKnown
<1>8. (AskedFor' <=> AskedFor) /\ (OneOperand' <=> OneOperand)
      /\ (DirectoriesRead' <=> DirectoriesRead)
    BY <1>1 DEF AskedFor, OneOperand, DirectoriesRead
<1>9. QED
    BY <1>1, <1>4, <1>5, <1>6, <1>7, <1>8 DEF ReadInv, ReadSoFar

\* Before the first argument, nothing is known of any.
LEMMA NothingReadYet == Init => ReadInv
<1> SUFFICES ASSUME Init PROVE ReadInv
    OBVIOUS
<1>1. /\ pc = "arguments" /\ argv \in CommandLines /\ next = 1 /\ options \in BOOLEAN /\ options
      /\ asked = {}
      /\ invocation = [inputFile |-> None, action |-> "checkSyntax", includeDirs |-> <<>>]
    BY DEF Init
<1>2. OptionsTo(argv, 1) = {} /\ OperandsTo(argv, 1) = {}
    BY DEF OptionsTo, OperandsTo
<1>3. TypedArguments
  <2>1. <<>> \in Seq(DirSet)
      OBVIOUS
  <2>2. "checkSyntax" \in Actions
      BY DEF Actions
  <2>3. invocation \in [inputFile : STRING \union {None}, action : Actions, includeDirs : Seq(DirSet)]
      BY <1>1, <2>1, <2>2
  <2>4. Len(argv) \in Nat
    <3>1. argv \in Seq(STRING \ {None})
        BY <1>1, ArgumentsAssumption
    <3>2. QED
        BY <3>1, LenProperties
  <2>5. next \in Nat \ {0} /\ next <= Len(argv) + 1
      BY <1>1, <2>4
  <2>6. QED
      BY <1>1, <2>3, <2>5 DEF TypedArguments
<1>4. Placed
    BY <1>1 DEF Placed
<1>5. OptionsKnown /\ AskedFor /\ OneOperand
    BY <1>1, <1>2 DEF OptionsKnown, AskedFor, OneOperand
<1>6. DirectoriesRead
  <2>1. IncludesAmong(argv, {}) = {}
      BY DEF IncludesAmong
  <2>2. InOrder(argv, <<>>, {})
    <3>1. DOMAIN <<>> = {}
        OBVIOUS
    <3> DEFINE p == [d \in {} |-> 0]
    <3>2. p \in [{} -> {}] /\ DOMAIN p = {}
        OBVIOUS
    <3> HIDE DEF p
    <3>3. QED
        BY <3>1, <3>2 DEF InOrder
  <2>3. invocation.includeDirs = <<>>
      BY <1>1
  <2>4. QED
      BY <1>1, <1>2, <2>1, <2>2, <2>3 DEF DirectoriesRead
<1>7. QED
    BY <1>1, <1>3, <1>4, <1>5, <1>6 DEF ReadInv, ReadSoFar, ReadsCommandLine

\* Every command line, of any length, is run for what it says or refused:
\* options are known by the arguments before them, so behind -- and as the
\* directory of -I an argument is none, and the invocation has the one operand,
\* the one output option and the directories in their order
\* (parseCompilerInvocation).
THEOREM CommandLineIsRead == Spec => []ReadsCommandLine
<1>1. Init => ReadInv
    BY NothingReadYet
<1>2. ReadInv /\ [Next]_vars => ReadInv'
  <2> SUFFICES ASSUME ReadInv, [Next]_vars PROVE ReadInv'
      OBVIOUS
  <2>1. CASE EndOfOptions \/ ColorOption \/ OutputOption
      BY <2>1, EndOfOptionsReads, ColorOptionReads, OutputOptionReads
  <2>2. CASE IncludeOption \/ Operand \/ CheckUsage
      BY <2>2, IncludeOptionReads, OperandReads, CheckUsageReads
  <2>3. CASE LaterStep
      BY <2>3, LaterStepReads
  <2>4. CASE UNCHANGED vars
      BY <2>4, StutteringReads
  <2>5. QED
      BY <2>1, <2>2, <2>3, <2>4, OthersAreLater
<1>3. ReadInv => ReadsCommandLine
    BY DEF ReadInv
<1>4. QED
    BY <1>1, <1>2, <1>3, PTL DEF Spec
=============================================================================
