# Verification of the Tensorium C front end

This directory holds TLA+ models of Tensorium_cc, a C compiler front end in C++17
with an optional MLIR back end, TLC configurations that check them, and TLAPS
proofs. The models are translated from `lib/`, `include/` and `tools/`; line
numbers in `PROJECT.json` point at the code each definition stands for.

## The system

One invocation of the compiler is one thread that turns one file into a
diagnosis, a token dump, an AST dump or an MLIR module:

    argv -> CompilerInvocation -> CompilerInstance
      -> SourceManager -> Preprocessor -> Parser -> Sema -> dump | MLIRGen
                                        (all report to DiagnosticEngine)
    tensorium-opt: MLIR module -> TensoriumToMemRef -> MLIR module

The parser pulls tokens with `Preprocessor::next`; the first call runs the
preprocessor to its end. Nothing is persisted and nothing runs concurrently: the
hard behaviours are long legal sequences of lines, declarations or statements
that must keep several tables in agreement, state that is cached and used after
what it describes has changed, limits, and widths of integers.

| Component | State it keeps | Operations | Talks to |
|---|---|---|---|
| Driver (`CompilerInvocation`, `CompilerInstance`) | options, the unit, errors so far, what was printed | parse argv, run the passes up to the requested one | creates every other part |
| `SourceManager` | files by canonical identity, with the spelling first used | `add`, `load` | preprocessor |
| Preprocessor driver (`process`, `include`, `define`, `condition`) | macro table, `_once`, `_visited`, a stack of conditional sections and waiting text per file | one directive or line at a time, one nested call per `#include` | `SourceManager`, `expand`, `#if` evaluator, diagnostics |
| Macro expansion (`expand`) | queue, output, hide sets, the expansion counter | one scan of a text, a nested call per argument | the macro table |
| `#if` expressions (`PPExpression.cpp`) | position, first error, depth | recursive descent that computes while it parses | `condition` |
| `Lexer`, `tokenize`, `normalize` | position, line and column; spaces and line start of the next token; the table of line starts | one token, comment or splice at a time | preprocessor, `--dump-tokens`, diagnostics |
| `Preprocessor::next` | the cursor in the output | one token at a time, literals joined, the end after an error | parser |
| Parser | current token, `_typedefs` | declarations, statements, expressions | preprocessor, `ASTContext`, diagnostics |
| Sema, declarations | `SymbolTable`, `definitions`, tags, `loopDepth`, current function | `declare`, scopes, `analyzeFunction`, `analyzeNode`, end of unit | AST, diagnostics |
| Sema, expressions | none beyond the tree | type a node, insert conversions | AST, `TargetInfo` |
| CodeGen (`MLIRGen`) | `functions`, `values`, `storage`, loop targets, the builder's block | select, declare, emit functions, statements, expressions | the checked AST, MLIR |
| Tensorium dialect, `TensoriumToMemRef` | the module | validate, then convert | MLIR's conversion driver |
| `DiagnosticEngine` | errors so far, source texts | report, render | everything |

What makes each of them correct, and what is hard about it:

- *Preprocessor driver*: a file is accepted exactly when its sections nest; what
  comes out is the text of the live lines, in place, each under the definitions
  in force on its line; skipped groups do nothing; inclusion ends. Hard: state
  that depends on all lines so far, text that waits for its expansion while
  directives change the table, files that include themselves under two names.
- *Macro expansion*: the result is what C's rescanning rules say; it ends, within
  limits; pasting never lacks an operand. Hard: hide sets at the end of an
  invocation that is finished by later text, empty arguments beside `##`.
- *`#if` expressions*: value and type are C's, and what is not evaluated cannot
  fail. Hard: one flag handed through every nesting, overflow at the edges.
- *Lexing and locations*: both lexers split a text into the tokens of C; the place
  a message names is the place in the file; what is quoted is read back. Hard: the
  grammar is written twice, and lines are counted in three places.
- *Parser*: an identifier is a type name exactly where C says so, although the
  parser has no scopes; a text is taken exactly when C's grammar has it, with the
  one tree it has there; no text is skipped unread. Hard: one map, copied and put
  back on every path; declarators built inside out around a placeholder; "no node"
  that means an error to most callers and nothing at all to others.
- *Sema, declarations*: lookup follows scopes; redeclarations agree with all
  earlier ones and share one symbol; one body. Hard: each is compared with the
  last one bound only, and compatibility is not transitive.
- *Sema and CodeGen, expressions*: an expression is taken exactly when C takes it,
  its type is C's on every target, the operations picked from the types compute C's
  values, and no row of assignments makes a const object assignable. Hard: the code
  sees only types, and what it relies on was decided by several conversions below
  and one level of a pointer further in.
- *CodeGen, functions*: one function per name, selected as analysis did, with the
  declared linkage, callable by every checked call.
- *CodeGen, control flow*: blocks verify and run the statements in C's order; a
  parameter's slot is made before its uses on every path.
- *Driver*: one complete result or none, and an exit status that says which. Hard:
  passes stop at errors in different ways, and what an argument is depends on those
  before it.
- *Conversion to memref*: nothing is rewritten unless all of it can be. Not
  modelled: see the plan.

`PROJECT.json` lists the hazards, each at its line with the properties that
would catch it.

## The modules

| Module | Models | State and steps |
|---|---|---|
| `Frontend` | `main`, `parseCompilerInvocation`, `execute`, `Preprocessor::next` | reads one argument or token a step, then runs one pass a step; a pass may report errors wherever its code can |
| `Invocation` | what one run of the program promises | abstract specification that `Frontend` implements |
| `SourceText` | `normalize`, the table of line starts, the Lexer's counting | a step reads one character, as the preprocessor does or as the Lexer does |
| `Tokenizer`, `Lexer` | `tokenize` and what it calls; `Lexer::next` and what it calls | a step takes one token, comment or space; `Lexer` is a function of the text |
| `LexicalGrammar` | the tokens of C99 6.4 by longest match; what a quoted text stands for | reference for both |
| `Preprocess` | `Preprocessor.cpp`: process, include, define, condition, run; `SourceManager` | the members of the innermost `process` call are variables, those of its callers are in `callers`; one step per line |
| `ConditionalGroups` | what conditional inclusion and definitions mean, said of the whole file at once | reference for `Preprocess` |
| `MacroExpansion` | `expand` | one step per iteration of its loops: pass on, invoke, collect an argument, prescan, substitute, paste, requeue |
| `RescanReference` | the rescanning rules as a recursive function of the text | reference for `MacroExpansion` |
| `PPExpression`, `PPExpressionReference` | `PPExpression.cpp`; what such an expression means, told by its main operator | a step appends a token; the evaluator is a function of the tokens |
| `TypedefNames`, `ScopeConstants` | `_typedefs` in `parseDecl`, `parseFuncDecl`, `parseCompoundStmt`, `parseForStmt` | a step takes the next declaration or opens or leaves a construct |
| `Parser` | `ParseDecl.cpp`, `ParseExpr.cpp`, `ParseStmt.cpp`, `Parser.cpp` | every parse function as an operator from a position to a node and the next position |
| `ParserGrammar` | the grammar of C99 6.5 to 6.9 as the sets of trees a stretch of text has | reference for `Parser`; a step appends a piece to the text |
| `Declarations` | `SemaDecl.cpp`, `SemaStmt.cpp`, `Sema.cpp`, `SymbolTable.hpp` | a step takes the next node of some unit; the recursion of `analyzeNode` is `nest` |
| `FunctionSymbols` | what analysis promises of functions | abstract specification that `Declarations` implements |
| `FunctionEmission` | `generate`, `declareFunction`, `emitCall`, on top of `Declarations` | selects, declares and emits the functions of the unit that was analysed |
| `ControlFlow` | `emitBlock`, `emitIf`, `emitWhile`, `emitFor`, parameter slots | a step generates the next item of some body; then the blocks are run, one operation a step |
| `StructuredProgram` | what a body does when it is run | abstract specification that `ControlFlow` implements |
| `ArithmeticTypes` | ranks, widths, promotion, `usualArithmetic` | the target |
| `IntegerExpressions` | arithmetic types in `SemaConversions.cpp` and `SemaExpr.cpp`; `emitExpr`, `emitBinary` | a step adds an operand or applies an operator: Sema's types, then the bits of the code |
| `PointerTypes` | `Type`, `TypePool`; `compatible`, `pointerConvertible`, `commonPointer` | a type is the sequence of its levels, from the outside in |
| `PointerExpressions` | all of `SemaExpr.cpp`, and what `emitExpr`, `emitLValue`, `emitCall` make of it | a step adds an operand or applies an operator: type, value category and conversions, then the lowered type of the code |
| `ConstantObjects` | what the conversions are for: `convert` and its callers, in a program that runs | a step takes an operand, applies `&`, `*` or `?:`, assigns or initializes |
| `Expressions` | expressions of all three kinds on one target | supposes of the operands what `Conventional` says |
| `ArithmeticReference`, `PointerReference` | C99 on arithmetic types and values; on expressions with pointers | references for `IntegerExpressions` and `PointerExpressions` |
| `*_proofs` | | the theorems about the module they are named after; `Declarations_proofs` also those about `FunctionEmission`, `Expressions_proofs` those about what `Expressions` puts together |

Most models do not fix the program that is compiled: each step takes the next
line, declaration, statement or operand of *some* program, so a run covers all
programs within its bounds, and the variables that record the program are
history. `MC*` modules give constants their values and build the inputs;
`MCForms` holds what two of them share. Several kinds of input, and in some runs
two components that do not interact, share a run: a variable that never changes
(`family`, `reading`, `part_`) says which one a behaviour is about and the variables
of the other stay as they are. In `sema_declarations` (`MCSpec`) a step that would
bring a second subject into the unit is not taken, which is sound because all its
properties are safety properties. Deadlock is not checked because every behaviour really ends: the
compiler stops.

## The runs

| Run | What is enumerated | Shows |
|---|---|---|
| `driver` | every command line of three arguments and every one of four that ends in a file name, on eight texts, with an error in any pass | `ReadsCommandLine`, `JoinsLiterals`, `UnitIsWhole`, `Implements` |
| `pp_files` | files of up to five lines that open, continue and close sections, and nests of eight; three lines of 21 kinds, malformed ones too, also in a skipped group; invocations spread over five lines; a main file and headers that include each other, by two spellings, with `#pragma once`, nesting limit 3 | `MatchesReference` (files that include nothing), `SectionsNest`, `NothingWaitsAcrossFiles`, `OnceTextAppearsOnce`, `SkippedGroupsAreInert`, `Terminates` |
| `mx_reference` | 400 tables of three macros with 24 texts, nesting limit 4 and expansion limit 12, which three of the texts meet; and some 16,000 files of up to four pieces | of expansion `MatchesReference`, `NothingLeftToExpand`, `PasteHasOperands`, `Terminates`; of lexing `LocationsPoint`, `TokenizesAsC`, `LexersAgree`, `DiagnosticsPoint`, `QuotingIsUndone` |
| `if_expressions` | expressions of up to seven tokens with what fails or skips, and of up to five with all operators; three-bit numbers | `Agrees` |
| `parser` | two names, two types, five scopes open at once; and every text of thirteen families of three to six pieces, one for each part of the grammar | `ClassifiesAsC`, `SkipsBehindNothing`, `ReadsAsC` |
| `sema_declarations` | four declarations of one function from 17 forms, of one array from 16, of one name three constructs deep, or of a function and one that calls it; then the generation of the unit | `RedeclarationsAgree`, `OneBody`, `OneCanonicalPerName`, `VisibleIsComposite`, `LookupIsVisible`, `NestingAgrees`, `SymbolsOnlyGrow`; of generation `CheckedCallsAreCallable`, `LinkageAsDeclared`, `EveryBodyIsEmitted` |
| `control_flow` | bodies of five items, three constructs deep; bodies of three items that read and assign a parameter, all forms of `for` | `RunsAsWritten`, `Verifies`, `ParameterIsCurrent` |
| `expressions` | every operator on every pair of arithmetic types and values, two targets; every operator on pairs of 31 operands with pointers, arrays, functions, records and null constants, and on the results; eight objects, pointers to them and to those | `TypedAsC`, `ComputesAsC`; `PointersAsC`; `QualifiersAreKept` |
| `sema_tentative_arrays`, `sema_block_redeclaration`, `sema_static_again`, `parser_for_header` | the array, the name and the function of `sema_declarations`; headers of `for` | one sentence of `docs/sema.md` or of a test each, violated: see Findings |

Why the bounds are enough. A conditional section has one bit of memory per level
and kind of group, so five lines reach every combination of taken, skipped and
ended groups two deep, and the eight-line nests reach deeper ones. Redeclaration
needs three declarations to show that compatibility is not transitive and a
fourth to come after a refused one. A typedef map needs a scope around, the
scope itself and one inside it; `for` and function bodies add two. A family of
the parser varies the tokens that one parse function tells apart, between a
fixed beginning and end, so that every pair of neighbouring decisions is made in
every order; expressions of six tokens hold two operators of any two
precedences, declarators of five pieces hold every way to nest pointer, array and
function twice. The tokenizer decides by at most three characters ahead (`%:%:`
is found by its halves), and files of four pieces put every decision behind and
before every other of its family. The driver's arguments influence each other
through a pending `-I`, a `--` and the last action, all of which a line of four holds;
its texts have a literal at each end, rows of three, and something invalid in each
position. The blocks of a construct depend on how its two parts end and on what
follows it, which five items three deep cover. In `expressions` an operator
sees only the types and values of its operands, and the two-element stack holds every
pair of them, so deeper expressions add nothing; calls of two types stand for all,
since a call differs from an object only in what may be assigned; the sizes keep the
only relations the code looks at (int as long as long, long as long as long long, and
each shorter), at one to three bits. Types of pointers are told apart by the first two
levels and by the qualifiers of the second and third, so four levels (`MaxLevels`) hold
one more than any rule looks at; of the arguments of a call the stack holds one and a
second is taken from three operands, which tells a missing, a surplus and a variadic
one apart. Eight objects are an int, a const int, the pointers to either, a const
pointer, and pointers to the three; their assignments are not bounded. `SCHAR`, `SHORT`, `BITOR`, `BITXOR`, `RSHIFT`, `DIV` are left out there
because the code and the model treat them like `CHAR`, `USHORT`, `BITAND`, `LSHIFT`
and `MUL` (which has code) or `COMMA` (which has none). Numbers of three bits have all
the edges of 64-bit ones: the least negative number, -1, the sign bit, a shift by
the width.

*Fairness.* `MacroExpansion` and `Preprocess` assume weak fairness of their next step, `ControlFlow` of a step of the generated code: these are
single-threaded loops that nothing suspends, so a step that can be taken is taken.
`Terminates` and the liveness part of `RunsAsWritten` need it. The other modules
assume nothing: how long a program goes on is up to its author.

## Findings

Three sentences of `docs/sema.md` and one test are not what the code does; each has a
run whose trace is a unit that shows it.

1. `sema_tentative_arrays`: `int a[]; int a[]; int a[3];` leaves the first
   declaration with one element. `declare` passes a size on between neighbours
   only (`SemaDecl.cpp:199`).
2. `sema_block_redeclaration`: a function declared again in a block gets a
   canonical declaration of its own (`SemaDecl.cpp:171`), under which the back
   end has no function.
3. `sema_static_again`: `static int f(void); int f(void); static int f(void);` is
   refused, because `static` is compared with what was written last
   (`SemaDecl.cpp:189`).
4. `parser_for_header`: `void f() { for (int; }` is accepted, as a function with an
   empty body. A declaration without a name yields no node and no error
   (`ParseStmt.cpp:147`), where `ParserTests.cpp:658` asks for one error for every
   malformed header.

### Where the program differs from C

No document promises otherwise, so these are not findings. `ReadsAsC`,
`LocationsPoint` and `PointersAsC` except them by name, or the models leave them out
where it says so below; most were found by letting TLC compare with
the grammar.

- A declaration that names nothing (`int;`, `int *;`) is accepted, and what follows it
  is skipped up to a semicolon or a type name; in a block it is accepted only as the
  last item. `struct`, `union` and `enum` without a tag are accepted.
- Invalid combinations of specifiers are accepted (`float int`), and
  `long unsigned long` is unsigned long. A storage class or qualifier between
  specifiers is refused.
- `sizeof (a)[0]` is refused, `sizeof(int x)` accepted with the name ignored. `(...)`
  alone is a parameter list. `int (T)` with a typedef `T` is always a function. A
  function defined with a typedef'd type has no parameter names.
- After the first error several more may be reported.
- A lone carriage return does not end a line for the raw `Lexer`, which also
  takes `'''`, splits `1.2.3` in two numbers and accepts any letters as a suffix.
- Using `*p` for a `void *p`, and ordering two `void *`, is refused; C99 gives neither a
  meaning worth having but forbids neither.
- A null pointer constant is a literal 0, with `+` or `-` before it at most.
- `?:` between pointers to compatible types that differ (a function with and one without a
  prototype, an array with and one without a size) has the type of the left, where C
  builds the composite.
- With `typedef int A[2]; const A a;` the initializer of `const int (*p)[2] = &a;` is
  refused: `qualified` marks both the array and its elements, and `pointerConvertible`
  asks for the array's qualifiers (`SemaConversions.cpp:143`).

## The proofs

Theorems hold for all values of the constants: any names, files, tables,
declarations, command lines and bounds that satisfy the named assumptions of each
module (sizes are numbers, forms are what the parser delivers, names have types).

- `Frontend_proofs`: `TypeCorrect`, `CommandLineIsRead`, `LiteralsAreJoined`,
  `TreesAreWhole`, `DriverImplementsInvocation`. `ReadInv` is what the driver knows of
  the arguments it has read: the options among them are known ones and complete, there is
  at most one operand, the directories are theirs in order, and a `-I` or `--` just read
  decides what the next one is. The role of an argument depends on the one before it, by
  a recursive function; that its equation has a solution is proved from the least
  argument for which it would fail. Three invariants carry the others: `Staged`, what each stage
  of the pipeline knows of errors, output and unit; `Grown`, how the tree's tokens
  relate to those handed out; `Handed`, that the tokens handed out and those still
  to come are the preprocessed text, a row of literals being finished or not begun. The
  refinement follows from `Staged`: only the last stage prints, all of it at once, and
  every way to fail passes through a state in which nothing is printed.
- `SourceText_proofs`: `PlacesAreTrue`. Between two neighbouring entries of the table
  no line ends, and the next entry is where the counted line goes on
  (`NextLineStarts`), so the count of line ends and the table agree at each
  character.
- `Preprocess_proofs`: `TypeCorrect`, `NestingIsKept`, `NothingIsLeftWaiting`,
  `SkippedGroupsStayInert`, `OnceIsOnce`, `ReferenceIsMatched`. The conjunction of the first three is inductive. What
  a section recorded of its surroundings must be known of *every* call in
  `callers`, or returning from an include would not restore it; that no text
  waits in a skipped group needs that a section inside one is skipped too. `OnceInv`
  says of a file with `#pragma once` that it is unread until the directive is executed and
  that afterwards one invocation at most still reads it, while the lines already
  given lie behind that invocation's place; every file marked must have been
  visited, and text that waits counts as given. `ReferenceIsMatched` relates a driver
  that sees one line at a time to `ConditionalGroups`, which looks at the whole file, for
  files of any length that include nothing. Its invariant (`Track`, `At`) says of the
  lines before the driver's what the reference says of them: the sections that are open and
  where they opened (`Sections`), what each entry of the stack means of its section
  (`Marked`: active when this group and all around it are the first selected
  ones, taken when a group was selected so far), the lines whose text waits (`Chunk`), the
  definition of every name (`Tables`), that no line so far was wrong (`Sound`) and that the
  output is their text (`IsText`). Where a section lies in a group that is not selected
  the driver never evaluates its conditions, so `Marked` claims nothing of `taken` there.
  The reference reads definitions of live lines only and lines are live by the definitions
  before them; that this recursion has a solution (`LiveExists`), and that the solution
  says of each line what its equation does (`LiveIs`), is proved from the least line for
  which it would fail.
- `MacroExpansion_proofs`: `TypeCorrect`, `OperandsExist`, `AllAreExpanded`,
  `WorkIsBounded`. The invariant adds what a call in progress knows: the
  invocation has as many arguments as the macro has parameters, parts
  and `##` alternate in what was substituted so far, and calls that wait stand on
  the parameter they expand. Concatenating an empty argument's placemarker keeps the
  alternation, which is why a chain of `##` never runs dry. `WorkIsBounded` has no
  property in a run: it speaks of all limits, also of that on hide sets, which three
  macros cannot meet.
- `TypedefNames_proofs`: `TypeCorrect`, `ClassificationCorrect`, `CopiesCorrect`. The
  map is right only if the copies it will be replaced by are right for the scopes they
  belong to, so neither of the two is inductive alone.
- `Declarations_proofs`: `TypeCorrect`, `NestingCorrect`, `LookupCorrect`,
  `CanonicalCorrect`, `OneBodyCorrect`, `RedeclarationsCorrect`, `VisibleCorrect` and,
  step by step, the refinement `SymbolsImplemented`; of `FunctionEmission`
  `CallsCorrect`, `LinkageCorrect` and `BodiesCorrect`. `ScopesInv` says that each
  accepted declaration of an open scope has its name bound there, so that lookup and
  history agree; `NestShape` says which activations can stand on which; `FileInv` adds,
  for file scope, that bound declarations and the `definitions` map speak of the first
  declaration. Compatibility is not transitive, so that neighbours agree does not make
  all agree: the invariant relates every accepted declaration to the *bound* one, and
  that to each body, and a new declaration that passes against the bound one is shown
  to pass against all. This rests on what `FormsAssumption` says of the parser's
  declarations: only arrays have sizes, only functions prototypes, and a
  list without a prototype names no types (`ParseDecl.cpp:332`). For generation,
  `WholeInv` adds one part per stage: `SelectionInv` that what is selected is the
  declaration with the body, or else one with a prototype if there is one, among those
  `Covered` so far; `SignaturesInv` that a `FuncOp` stands for each key; `EmissionInv`
  that the bodies emitted are those of the keys passed. `Accepted`, that a unit
  without errors has only accepted declarations, is what lets generation rely on any of it.
- `Expressions_proofs`, of arithmetic expressions: `TypesAsC`, `ValuesAsC`, for targets
  with types of any width (`TargetSizes`). The two are one invariant: each tree on the
  stack has C's type, bits it has are a pattern of that type, and what C calls its
  value is what the pattern stands for (`Carries`). That Sema's ranks and cases choose C's
  common type is shown by what makes a type common (`IsCommon`) and by
  when one type has the values of another (`Included`); that a literal's candidates
  do, by which types a spelling allows (`CandidatesFit`). Operations on patterns
  wrap and those on values do not, so they are related by congruence modulo a power of
  two: a cast, a sum or a product keeps the class, and a type has one value of each class
  (`OneValue`). What the provers do not know of `2 ^ n` comes from counting: `2 ^ n`
  is the number of subsets of `1 .. n` (`FS_SUBSET` of the library), hence it grows and
  doubles.
- `Expressions_proofs`, of expressions with pointers: `PointersTypedAsC`, for any operands,
  operators, targets and lengths of types. Supposed of the operands (`PointerOperands`,
  which TLC evaluates for those of the run): their types are made as C makes types, a function's
  parameters have types of the set, and functions of compatible types are of one type, so
  that composite types do not arise. Sema speaks of compatible types and of `Type` objects,
  C99 of versions of one type; `CompatibleIs` shows, level by level, that under that
  supposition the two are the same, and `ConvertIs` and `CommonPointerIs` that then `convert`
  and `commonPointer` take what 6.5.16.1 and 6.5.15 take. Each operator follows on its own
  (`CompareAgrees`, `AdditiveAgrees`, ..., `CallAgrees`), with the answer of a kind that
  operands have (`Answers`). The invariant (`PointerInv`) says that of every tree on the
  stack, and of its code more than `PointersAsC` does: an address is only had for
  arithmetic objects that are not volatile, or `&x` could be given a pointer that
  `lowerType` has no type for.
- `Expressions_proofs`, of `ConstantObjects`: `TypesAreKept`, `KeepsQualifiers`,
  `ConstIsNeverAssigned`, for any number of objects and pointers of any depth. What is proved of lvalues must be
  known of values and of the memory as well: what a pointer points to *fits* the type
  one level in, that is, has this type but for qualifiers it may lack on the
  outermost level. Compatible types are equal below that level, which is what keeps
  the invariant through a store by way of a pointer to a pointer.
- `ControlFlow_proofs`: `FunctionsVerify`, `ParameterStaysCurrent`, for bodies of any
  length and depth. Verification is a claim about a finished function, so the
  invariant (`Emitted`) speaks of unfinished ones: which blocks are open, which open
  construct will go on with each (`Pends`), and that a construct opened inside another one
  was given later blocks (`Nested`), so that no block has two owners. The block behind an
  `if` may be erased only if no branch leads there, and what tells that, `continues`, was
  computed when the first part ended: `Unreached` keeps the two in step, which also needs
  that `break` and `continue` lead to blocks of loops only (`LoopsMatch`). For the
  parameter, the slot is made in the first block or nowhere, and everything behind the
  first block comes after it (`SlotSound`, `Stored`); `Running` relates the machine's place
  to it. The pieces generation is made of (`EmitRow`, `EmitFresh`, `EmitInto`, `EmitMove`,
  `EmitPush`, `EmitPop`, `EmitErase`) are shown to keep `Emitted` once each, and every
  step is put together from them. `StepsAsWritten` is a simulation: a generated function
  refines `StructuredProgram`, the statements run as C orders them. Its invariant labels
  every block with the place in the source it begins at (a statement, the condition, body
  or round of a loop, or what lies behind a construct), and says of every operation
  already written that it is what the source has there, and that the operation behind it,
  or the blocks its branch names, carry the label of the place C goes on at (`Written`,
  `InProgress`). While generation is under way the source is only known up to the
  last item, so the claim is about the part of it that is closed, and the constructs still
  open are matched with the frames of the stack (`Faithful`). A run (`OnTrack`) stands
  before an operation whose place in the source leads, through the ends of constructs at
  which C executes nothing, to the token that is next in C's order (`ArrivedAt`); so every
  operation either executes just that token (`Executes`) or is a branch or slot that keeps
  the place (`RunsSilently`). That those ends lead somewhere at all (`ArriveExists`) is an
  induction over how far they are from the end of the body.

Only model-checked: equality with the references whose definitions are recursive, but
for `ConditionalGroups`; all of
liveness, so also that a generated function does not stop before its source does; lexing except for places; and
everything of `Parser` and `PPExpression`. Liveness, `ENABLED` and induction over
recursive definitions are beyond the prover.

## What the models leave out

- In `Preprocess` and `MacroExpansion`: white space and locations of tokens;
  `#include` with a macro; the text of a definition, of which only well-formedness
  is kept.
- In `Tokenizer` and `Lexer`: the values and the range of numbers, the character 0,
  `peek` (nothing calls it), colours, tabs and the length of the underline of a
  diagnostic, and the table of names for printing tokens.
- In `Frontend`: what is printed is whether it is whole. After a failed generation
  the checked unit is kept; only a failed parse or analysis drops it. Usage errors and
  files that cannot be opened are reported to engines of their own.
- In `Parser`: locations and the wording of diagnostics.
- In `Declarations`: pointers to types, qualifiers, return types, record
  parameters; expressions are names and calls. `FunctionEmission` keeps only calls.
- In `TypedefNames`: the grammar of declarators. A function declared in a block
  hides a typedef for Sema (and in C) but not for the parser, which goes on taking
  the name for a type; `ClassifiesAsC` excepts such names, about which the
  documents promise nothing, and the hazards list them.
- In `ControlFlow`: local variables, values and types. Pointer parameters stay
  SSA values and have no slot.
- In `IntegerExpressions`: enumerations, which cannot be defined. A conversion to a signed type that lacks the value is
  implementation-defined in C; the reference takes the value with the same low bits.
  C leaves signed overflow undefined, and so does the reference.
- In `PointerExpressions`: values, of which the lowered type is kept; casts, for which
  the parser has no syntax; member access to a complete record, since records are
  never defined; objects of incomplete array type, composite types in `?:`, typedefs of
  arrays that are qualified. Where the generator refuses an
  expression it supports no code is expected, so nothing is said about which ones it
  supports. A difference of pointers, which it does not support, is refused as
  "operand types do not match the AST".
- In `ConstantObjects`: `void *`, through which C itself loses qualifiers, arrays and
  functions; a program stops where it would dereference a null pointer.
- Parts not modelled at all are listed in `PROJECT.json` with the reason.

## Plan

Done, in this order: `Preprocess`, `MacroExpansion`, `Declarations` with
`FunctionSymbols`, `FunctionEmission`, `ControlFlow` with `StructuredProgram`,
`TypedefNames`, `PPExpression`, `IntegerExpressions`, `Parser` with `ParserGrammar`,
`Frontend` with `Invocation`, `SourceText`, `Tokenizer` and `Lexer` with
`LexicalGrammar`, `PointerExpressions` and `ConstantObjects`.

Next:

1. Slots of local variables and of pointers in `ControlFlow`, once the code has them.
2. `TensoriumToMemRef`: what validation lets through can be converted.
