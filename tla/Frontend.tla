------------------------------- MODULE Frontend -------------------------------
(* The driver: main, parseCompilerInvocation and CompilerInstance::execute   *)
(* (lib/Frontend).  It reads the command line, then runs the passes up to    *)
(* the one whose result is asked for.  A pass is taken for what it reports:  *)
(* its work is modelled elsewhere.  Preprocessing tokens become tokens while *)
(* the parser asks for them (Preprocessor::next), so that errors of the      *)
(* lexer arise in the middle of a declaration.                               *)
EXTENDS Integers, Sequences

CONSTANTS CommandLines, \* what argv may be
          Dashed,       \* arguments that begin with '-'
          DirectoryOf,  \* of an argument -Idirectory, the directory
          Texts         \* what preprocessing may result in

OutputOptions == {"-E", "--dump-tokens", "--dump-ast", "--dump-sema", "--emit-mlir"}
KnownOptions  == OutputOptions \union {"--", "-I", "-fcolor-diagnostics"}
                               \union DOMAIN DirectoryOf
Actions == OutputOptions \union {"checkSyntax"}

None == "none"  \* no argument: the null pointer that filename is at first

ASSUME ArgumentsAssumption ==
  /\ KnownOptions \subseteq Dashed
  /\ DOMAIN DirectoryOf \intersect
       (OutputOptions \union {"--", "-I", "-fcolor-diagnostics"}) = {}
  /\ \A line \in CommandLines : line \in Seq(STRING \ {None})

\* A preprocessing token: a string literal or not, a token of C or not.
PPToken == [string : BOOLEAN, valid : BOOLEAN]
ASSUME TextsAssumption == Texts \subseteq Seq(PPToken)

VARIABLES build,      \* what cc1 was built with and for: MLIR, a known host
          pc,         \* where the program is
          argv, next, \* the arguments, and the one to read
          options,    \* whether options may still follow
          asked,      \* the output options read
          invocation, \* CompilerInvocation, and the locals it is made from
          refused,    \* an error was reported to an engine made for it alone
          errors,     \* diagnostics.hasErrors()
          output,     \* Preprocessor::_output
          cursor,     \* Preprocessor::_cursor
          part,       \* the token next() is joining string literals to, if any
          hand,       \* _cur and _peek; less than two while next() runs
          unit,       \* the tree: how many tokens were read for it, whether it is checked
          printed,    \* on the output stream
          result,     \* what execute() returns
          status

arguments == <<argv, next, options, asked>>
tokens    == <<output, cursor, part, hand>>
vars == <<build, pc, arguments, invocation, refused, errors, tokens, unit, printed,
          result, status>>

NoPart == [first |-> 0, last |-> 0]
Eof    == [first |-> -1, last |-> -1]
Error  == [first |-> -2, last |-> -2]
Nothing == [action |-> None, whole |-> FALSE]
NoUnit  == [read |-> -1, checked |-> FALSE]

Init == /\ build \in [mlir : BOOLEAN, knownHost : BOOLEAN]
        /\ pc = "arguments"
        /\ argv \in CommandLines
        /\ next = 1 /\ options = TRUE /\ asked = {}
        /\ invocation = [inputFile |-> None, action |-> "checkSyntax", includeDirs |-> <<>>]
        /\ refused = FALSE /\ errors = FALSE
        /\ output = <<>> /\ cursor = 1 /\ part = NoPart /\ hand = <<>>
        /\ unit = NoUnit /\ printed = Nothing /\ result = FALSE /\ status = "running"

-----------------------------------------------------------------------------
(* parseCompilerInvocation: one step per argument.  -fno-color-diagnostics is *)
(* read as -fcolor-diagnostics is.                                           *)

Reading == pc = "arguments" /\ next <= Len(argv)
arg     == argv[next]

AfterArguments == <<build, errors, tokens, unit, printed, result, status>>

\* main returns at once.
Refuse == /\ refused' = TRUE
          /\ pc' = "refused"
          /\ UNCHANGED <<arguments, invocation, AfterArguments>>

EndOfOptions ==
  /\ Reading /\ options /\ arg = "--"
  /\ options' = FALSE
  /\ next' = next + 1
  /\ UNCHANGED <<pc, argv, asked, invocation, refused, AfterArguments>>

ColorOption ==
  /\ Reading /\ options /\ arg = "-fcolor-diagnostics"
  /\ next' = next + 1
  /\ UNCHANGED <<pc, argv, options, asked, invocation, refused, AfterArguments>>

OutputOption ==
  /\ Reading /\ options /\ arg \in OutputOptions
  /\ IF arg = "--emit-mlir" /\ ~build.mlir
     THEN Refuse
     ELSE /\ asked' = asked \union {arg}
          /\ next' = next + 1
          /\ UNCHANGED <<pc, argv, options, invocation, refused, AfterArguments>>

\* The directory of -I is the next argument, whatever it is.
OneArgument(option)  == 1
ArgumentsOf(option) == IF option = "-I" THEN 2 ELSE 1

IncludeOption ==
  /\ Reading /\ options /\ (arg = "-I" \/ arg \in DOMAIN DirectoryOf)
  /\ IF arg = "-I" /\ next = Len(argv)
     THEN Refuse
     ELSE /\ invocation' = [invocation EXCEPT !.includeDirs =
                              Append(@, IF arg = "-I" THEN argv[next + 1] ELSE DirectoryOf[arg])]
          /\ next' = next + ArgumentsOf(arg)
          /\ UNCHANGED <<pc, argv, options, asked, refused, AfterArguments>>

Operand ==
  /\ Reading
  /\ options => arg \notin KnownOptions
  /\ IF (options /\ arg \in Dashed) \/ invocation.inputFile # None
     THEN Refuse
     ELSE /\ invocation' = [invocation EXCEPT !.inputFile = arg]
          /\ next' = next + 1
          /\ UNCHANGED <<pc, argv, options, asked, refused, AfterArguments>>

Conflict == \/ \E a, b \in asked \ {"-E"} : a # b
            \/ "-E" \in asked /\ asked \ {"-E"} # {}

CheckUsage ==
  /\ pc = "arguments" /\ next > Len(argv)
  /\ IF invocation.inputFile = None \/ Conflict
     THEN Refuse
     ELSE /\ invocation' = [invocation EXCEPT !.action = IF asked = {} THEN @
                                                         ELSE CHOOSE a \in asked : TRUE]
          /\ pc' = "execute"
          /\ UNCHANGED <<arguments, refused, AfterArguments>>

-----------------------------------------------------------------------------
(* execute.                                                                  *)

Action(a) == invocation.action = a
Unread    == <<build, arguments, invocation>>

Returns(value) == pc' = "returned" /\ result' = value
Prints(whole)  == printed' = [action |-> invocation.action, whole |-> whole]

CannotOpen ==
  /\ pc = "execute"
  /\ refused' = TRUE
  /\ Returns(FALSE)
  /\ UNCHANGED <<Unread, errors, tokens, unit, printed, status>>

Open ==
  /\ pc = "execute"
  /\ pc' = IF Action("--dump-tokens") THEN "dumpTokens" ELSE "preprocess"
  /\ UNCHANGED <<Unread, refused, errors, tokens, unit, printed, result, status>>

\* tokenizeAll, and then the loop that prints.
DumpTokens ==
  /\ pc = "dumpTokens"
  /\ \E invalid \in BOOLEAN :
       /\ errors' = invalid
       /\ Returns(~invalid)
       /\ IF invalid THEN UNCHANGED printed ELSE Prints(TRUE)
  /\ UNCHANGED <<Unread, refused, tokens, unit, status>>

Preprocess ==
  /\ pc = "preprocess"
  /\ \/ /\ errors' = TRUE
        /\ Returns(FALSE)
        /\ UNCHANGED output
     \/ /\ output' \in Texts
        /\ pc' = IF Action("-E") THEN "printText" ELSE "target"
        /\ UNCHANGED <<errors, result>>
  /\ UNCHANGED <<Unread, refused, cursor, part, hand, unit, printed, status>>

PrintText ==
  /\ pc = "printText"
  /\ Prints(TRUE)
  /\ Returns(TRUE)
  /\ UNCHANGED <<Unread, refused, errors, tokens, unit, status>>

\* The command line names no target: it is the host.
ChooseTarget ==
  /\ pc = "target"
  /\ IF build.knownHost
     THEN pc' = "parse" /\ UNCHANGED <<errors, result>>
     ELSE errors' = TRUE /\ Returns(FALSE)
  /\ UNCHANGED <<Unread, refused, tokens, unit, printed, status>>

-----------------------------------------------------------------------------
(* The parser and the source of its tokens.                                  *)

Parsing == pc = "parse"
AfterParse == <<Unread, pc, refused, output, unit, printed, result, status>>

\* Preprocessor::next runs: for the parser's constructor, then for advance.
Fetching == Parsing /\ Len(hand) < 2
AtEnd    == cursor > Len(output)
Ends     == errors \/ AtEnd
ThisIsString == ~AtEnd /\ output[cursor].string

\* The literal's conversion may fail; then the token is an error.
Convert(value, joined) ==
  /\ cursor' = cursor + 1
  /\ IF ~output[cursor].valid
     THEN errors' = TRUE /\ hand' = Append(hand, Error) /\ part' = NoPart
     ELSE /\ IF output[cursor].string THEN part' = joined /\ UNCHANGED hand
             ELSE hand' = Append(hand, value) /\ UNCHANGED part
          /\ UNCHANGED errors

FetchEof ==
  /\ Fetching /\ part = NoPart /\ Ends
  /\ hand' = Append(hand, Eof)
  /\ UNCHANGED <<AfterParse, errors, cursor, part>>

Fetch ==
  /\ Fetching /\ part = NoPart /\ ~Ends
  /\ LET token == [first |-> cursor, last |-> cursor] IN Convert(token, token)
  /\ UNCHANGED AfterParse

JoinString ==
  /\ Fetching /\ part # NoPart /\ ThisIsString
  /\ Convert(part, [part EXCEPT !.last = cursor])
  /\ UNCHANGED AfterParse

JoinsOnce    == ~ThisIsString \/ part.last > part.first
JoinsNothing == ~ThisIsString
EndToken ==
  /\ Fetching /\ part # NoPart /\ JoinsNothing
  /\ hand' = Append(hand, part)
  /\ part' = NoPart
  /\ UNCHANGED <<AfterParse, errors, cursor>>

HasMore == Len(hand) = 2 /\ hand[1] # Eof
Advance ==
  /\ Parsing /\ HasMore
  /\ hand' = Tail(hand)
  /\ UNCHANGED <<AfterParse, errors, cursor, part>>

SyntaxError ==
  /\ Parsing /\ Len(hand) = 2 /\ ~errors
  /\ errors' = TRUE
  /\ UNCHANGED <<AfterParse, cursor, part, hand>>

\* The loop of parse ends at the end of the tokens or with an error, and only
\* a tree without one is kept.
ParseReturns ==
  /\ Parsing /\ Len(hand) = 2
  /\ hand[1] = Eof \/ errors
  /\ IF errors
     THEN Returns(FALSE) /\ UNCHANGED unit
     ELSE /\ unit' = [read |-> cursor - 1, checked |-> FALSE]
          /\ pc' = IF Action("--dump-ast") THEN "dumpAST" ELSE "analyse"
          /\ UNCHANGED result
  /\ UNCHANGED <<Unread, refused, errors, tokens, printed, status>>

-----------------------------------------------------------------------------
(* What is done with the tree.                                               *)

Whole == ~errors /\ unit.read = Len(output)

DumpAST ==
  /\ pc = "dumpAST"
  /\ Prints(Whole)
  /\ Returns(TRUE)
  /\ UNCHANGED <<Unread, refused, errors, tokens, unit, status>>

KeptUnit   == unit
FailedUnit == NoUnit
Analyse ==
  /\ pc = "analyse"
  /\ \/ /\ errors' = TRUE
        /\ unit' = FailedUnit
        /\ Returns(FALSE)
     \/ /\ unit' = [unit EXCEPT !.checked = TRUE]
        /\ pc' = "checked"
        /\ UNCHANGED <<errors, result>>
  /\ UNCHANGED <<Unread, refused, tokens, printed, status>>

\* A unit that cannot be generated is kept.
Finish ==
  /\ pc = "checked"
  /\ CASE Action("--dump-sema") -> Prints(Whole /\ unit.checked) /\ Returns(TRUE) /\ UNCHANGED errors
       [] Action("--emit-mlir") ->
            \/ Prints(Whole /\ unit.checked) /\ Returns(TRUE) /\ UNCHANGED errors
            \/ errors' = TRUE /\ Returns(FALSE) /\ UNCHANGED printed
       [] OTHER -> Returns(TRUE) /\ UNCHANGED <<errors, printed>>
  /\ UNCHANGED <<Unread, refused, tokens, unit, status>>

\* main.
AlwaysSuccess(value) == "success"
StatusOf(value) == IF value THEN "success" ELSE "failure"
Exit ==
  /\ pc \in {"refused", "returned"} /\ status = "running"
  /\ status' = StatusOf(result)
  /\ UNCHANGED <<Unread, pc, refused, errors, tokens, unit, printed, result>>

Next == \/ EndOfOptions \/ ColorOption \/ OutputOption \/ IncludeOption \/ Operand \/ CheckUsage
        \/ CannotOpen \/ Open \/ DumpTokens \/ Preprocess \/ PrintText \/ ChooseTarget
        \/ FetchEof \/ Fetch \/ JoinString \/ EndToken
        \/ Advance \/ SyntaxError \/ ParseReturns
        \/ DumpAST \/ Analyse \/ Finish \/ Exit

Spec == Init /\ [][Next]_vars

-----------------------------------------------------------------------------
(* Properties.                                                               *)

\* What the arguments are, each by those before it.
Role(line) ==
  LET role[k \in DOMAIN line] ==
        IF k > 1 /\ role[k - 1] = "option" /\ line[k - 1] = "-I" THEN "directory"
        ELSE IF \E j \in 1 .. k - 1 : role[j] = "end" THEN "operand"
        ELSE IF line[k] = "--" THEN "end"
        ELSE IF line[k] \in Dashed THEN "option" ELSE "operand"
  IN  role
Operands(line)  == {k \in DOMAIN line : Role(line)[k] = "operand"}
Options(line)   == {k \in DOMAIN line : Role(line)[k] = "option"}
Directory(line, k) == IF line[k] = "-I" THEN line[k + 1] ELSE DirectoryOf[line[k]]

\* The lines cc1 understands: known options, all complete, one output option
\* at most, one input file.
Understood(line) ==
  /\ \A k \in Options(line) : line[k] \in KnownOptions \ {"--"}
  /\ \A k \in Options(line) : line[k] = "-I" => k < Len(line)
  /\ \E f \in Operands(line) : Operands(line) = {f}
  /\ \A j, k \in Options(line) :
       line[j] \in OutputOptions /\ line[k] \in OutputOptions => line[j] = line[k]
  /\ (\E k \in Options(line) : line[k] = "--emit-mlir") => build.mlir

\* The invocation means what the line says: its one operand, its one output
\* option, its directories in their order.
Means(line) ==
  LET includes == {k \in Options(line) : line[k] = "-I" \/ line[k] \in DOMAIN DirectoryOf}
  IN  /\ \A k \in Operands(line) : invocation.inputFile = line[k]
      /\ invocation.action =
           IF \E k \in Options(line) : line[k] \in OutputOptions
           THEN line[CHOOSE k \in Options(line) : line[k] \in OutputOptions] ELSE "checkSyntax"
      /\ \E position \in [DOMAIN invocation.includeDirs -> includes] :
           /\ \A d \in DOMAIN position : invocation.includeDirs[d] = Directory(line, position[d])
           /\ \A d, e \in DOMAIN position : d < e => position[d] < position[e]
           /\ \A k \in includes : \E d \in DOMAIN position : position[d] = k

\* Every command line is refused or run for what it says, whatever the order
\* of its arguments, behind -- and -I as well.
ReadsCommandLine ==
  /\ pc = "execute" => Understood(argv) /\ Means(argv)
  /\ pc = "refused" => ~Understood(argv)

\* The parser gets every preprocessing token once and in order, and never two
\* string literals in a row.
Real(token) == token \notin {Eof, Error}
JoinsLiterals ==
  Len(hand) = 2 /\ Real(hand[1]) =>
    LET cur == hand[1] peek == hand[2]
    IN  /\ \A k \in cur.first .. cur.last :
             output[k].valid /\ (cur.first < cur.last => output[k].string)
        /\ Real(peek) => /\ peek.first = cur.last + 1
                         /\ peek.last = cursor - 1
                         /\ ~(output[cur.last].string /\ output[peek.first].string)
        /\ peek = Eof /\ ~errors => cur.last = Len(output)

\* A tree the program leaves behind is a whole one: without an error, read from
\* all tokens, and checked if checking was asked for.
UnitIsWhole ==
  status # "running" /\ unit # NoUnit =>
    /\ unit.read = Len(output)
    /\ \A k \in DOMAIN output : output[k].valid
    /\ unit.checked \/ Action("--dump-ast")

\* The program keeps what Invocation promises: docs/sema.md, "Neither mode
\* prints a partial AST after an error in its pipeline", and main's status.
Promise == INSTANCE Invocation
             WITH Results <- [action : OutputOptions, whole : {TRUE}],
                  complained <- errors \/ refused
Implements == Promise!Spec
=============================================================================
