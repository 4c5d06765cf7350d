---------------------------- MODULE Declarations ----------------------------
(* Semantic analysis of declarations (lib/Sema): the walk over one           *)
(* translation unit, its symbol table, and what declare() accepts, binds and *)
(* completes.  The unit is not fixed in advance: every step takes the next   *)
(* node of some unit the parser can deliver, so the behaviours are the walks *)
(* over all units within the bounds.  The recursion of analyzeBlock and      *)
(* analyzeNode is the stack `nest`, one frame per C++ activation.            *)
(*                                                                           *)
(* Types keep what declare() tells apart: array sizes, prototypes, parameter *)
(* shapes and tags.  Pointers to types, qualifiers and return types are      *)
(* left out, and so is the typing of expressions.                            *)
EXTENDS Integers, Sequences, FiniteSets

CONSTANTS Names,     \* identifiers
          Forms,     \* the declarations a unit may contain, as parsed
          MaxDecls,  \* bound: declarations in one unit, parameters included
          MaxDepth,  \* bound: constructs open at once
          MaxCalls,  \* bound: accepted calls
          MaxArgs    \* bound: arguments in one call

NoName == ""
NoDecl == 0

StorageClasses == {"NONE", "AUTO", "REGISTER", "STATIC", "EXTERN"}
Tagged         == {"struct", "union", "enum"}
Shapes         == {"void", "int", "char", "ptr", "array", "func"} \union Tagged

\* Parameter types as normalizeType leaves them: arrays and functions have
\* become pointers.  Record parameters are left out.
Params == [name : Names \union {NoName}, shape : {"void", "int", "char", "ptr"}]
Types  == [shape : Shapes, size : Int, proto : BOOLEAN, variadic : BOOLEAN,
           params : Seq(Params), tag : Names \union {NoName}]

\* What the parser delivers for one declaration.
FormSet == [kind : {"var", "func", "typedef", "tag"}, name : Names,
            sc : StorageClasses, type : Types, body : BOOLEAN]

\* A Decl node after declare(): `depth` is the number of scopes open then,
\* `ok` what declare() returned.
DeclSet == [kind : {"var", "func", "typedef", "tag", "param"},
            name : Names \union {NoName}, sc : StorageClasses, type : Types,
            body : BOOLEAN, depth : Nat, ok : BOOLEAN, canonical : Nat]

ASSUME FormsAssumption ==
  /\ NoName \notin Names
  /\ \A f \in Forms : /\ f \in FormSet
                      /\ f.kind = "func" => f.type.shape = "func"
                      /\ f.kind = "var" => f.type.shape # "func"
                      /\ f.body => f.kind = "func"
                      /\ f.kind = "tag" => f.type.shape \in Tagged /\ f.type.tag = f.name
                      /\ f.type.size >= 0 => f.type.shape = "array"
                      /\ f.type.proto => f.type.shape = "func"
                      /\ ~f.type.proto => f.type.params = <<>>

ASSUME BoundsAssumption == /\ MaxDecls \in Nat /\ MaxDepth \in Nat
                           /\ MaxCalls \in Nat /\ MaxArgs \in Nat

VARIABLES decls,       \* every Decl met, in order
          scopes,      \* SymbolTable::scopes: name -> declaration, innermost last
          opened,      \* history: Len(decls) when each of those scopes was pushed
          nest,        \* activations of analyzeBlock and of the loops
          tags,        \* Sema::tags: tag -> kind of record, or "none"
          definitions, \* Sema::definitions: canonical declaration -> body
          function,    \* currentFunction
          loopDepth,
          errors,      \* diag.hasErrors()
          calls,       \* accepted call expressions, in order
          phase

vars == <<decls, scopes, opened, nest, tags, definitions, function, loopDepth,
          errors, calls, phase>>

-----------------------------------------------------------------------------
(* Types.                                                                    *)

\* Type::isComplete; record bodies are not parsed, so a record never is.
Complete(t) == \/ t.shape \in {"int", "char", "ptr"}
               \/ t.shape = "array" /\ t.size > 0

\* Sema::validateType.
ValidType(t) ==
  /\ t.shape = "array" => t.size # 0
  /\ t.shape = "func" => /\ t.variadic => t.params # <<>>
                         /\ \A i \in DOMAIN t.params : t.params[i].shape # "void"

\* What the default argument promotions change: rank(p) < 3.
Narrow == {"char"}

\* Compatibility of function types: an unprototyped one fits a prototype only
\* if the promoted arguments would reach its parameters unchanged.
FitsUnprototyped(proto) ==
  /\ ~proto.variadic
  /\ \A i \in DOMAIN proto.params : proto.params[i].shape \notin Narrow

SameParameters(a, b) ==
  /\ a.variadic = b.variadic
  /\ Len(a.params) = Len(b.params)
  /\ \A i \in DOMAIN a.params : a.params[i].shape = b.params[i].shape

CompatibleFunctions(a, b) ==
  CASE a.proto /\ b.proto   -> SameParameters(a, b)
    [] a.proto /\ ~b.proto  -> FitsUnprototyped(a)
    [] ~a.proto /\ b.proto  -> FitsUnprototyped(b)
    [] OTHER                -> TRUE

\* Sema::compatible.  A record without a tag is compatible with itself only,
\* and every declaration is taken to have one of its own.
Compatible(a, b) ==
  /\ a.shape = b.shape
  /\ a.shape = "array" => a.size < 0 \/ b.size < 0 \/ a.size = b.size
  /\ a.shape = "func" => CompatibleFunctions(a, b)
  /\ a.shape \in Tagged => a.tag # NoName /\ a.tag = b.tag

\* Sema::normalizeType on a record: a tag already used for another kind of
\* record is diagnosed, and the type becomes the one the tag first named.
TagClash(t) == /\ t.shape \in Tagged
               /\ t.tag # NoName
               /\ tags[t.tag] \notin {"none", t.shape}

Normalized(t) == IF TagClash(t) THEN [t EXCEPT !.shape = tags[t.tag]] ELSE t

TagsWith(t) == IF t.shape \in Tagged /\ t.tag # NoName /\ tags[t.tag] = "none"
               THEN [tags EXCEPT ![t.tag] = t.shape]
               ELSE tags

-----------------------------------------------------------------------------
(* declare(): the checks, in the order the code makes them.                  *)

LookupOutermostFirst(n) ==
  LET bound == {k \in DOMAIN scopes : scopes[k][n] # NoDecl}
  IN  IF bound = {} THEN NoDecl
      ELSE scopes[CHOOSE k \in bound : \A j \in bound : k <= j][n]

Lookup(n) ==
  LET bound == {k \in DOMAIN scopes : scopes[k][n] # NoDecl}
  IN  IF bound = {} THEN NoDecl
      ELSE scopes[CHOOSE k \in bound : \A j \in bound : j <= k][n]

LookupCurrent(n) == scopes[Len(scopes)][n]

\* An object needs a complete type, unless it is extern or a tentative array.
ObjectAllowed(f, t, global) ==
  /\ t.shape \notin {"void", "func"}
  /\ \/ f.sc = "EXTERN"
     \/ Complete(t)
     \/ global /\ t.shape = "array" /\ t.size < 0
  /\ global => f.sc \notin {"AUTO", "REGISTER"}

DistinctParameters(t) ==
  \A i, j \in DOMAIN t.params :
     i # j /\ t.params[i].name # NoName => t.params[i].name # t.params[j].name

WellFormed(f, global) ==
  LET t == Normalized(f.type)
  IN  /\ ValidType(t)
      /\ f.kind = "var" => ObjectAllowed(f, t, global)
      /\ f.kind = "func" => /\ DistinctParameters(t)
                            /\ f.sc \notin {"AUTO", "REGISTER"}

\* The previous declaration of the name in the scope being filled.  Tags have
\* a namespace of their own, and return before the lookup.
Previous(f) == IF f.kind = "tag" THEN NoDecl ELSE LookupCurrent(f.name)

LinkageConflict(old, f) ==
  \/ /\ f.kind = "var" /\ old.kind = "var"
     /\ \/ f.sc = "STATIC" /\ old.sc # "STATIC"
        \/ old.sc = "STATIC" /\ f.sc = "NONE"
  \/ /\ f.kind = "func" /\ old.kind = "func"
     /\ f.sc = "STATIC" /\ old.sc # "STATIC"

RedeclaresUnsized(old, f, global) ==
  /\ old.kind = f.kind
  /\ f.kind \in {"func", "var", "typedef"}
  /\ global \/ f.kind = "typedef"
  /\ ~LinkageConflict(old, f)
  /\ old.type.shape = Normalized(f.type).shape

\* May f follow the previous declaration `old` of its name in this scope?
Redeclares(old, f, global) ==
  /\ old.kind = f.kind
  /\ f.kind \in {"func", "var", "typedef"}
  /\ global \/ f.kind = "typedef"
  /\ ~LinkageConflict(old, f)
  /\ Compatible(old.type, Normalized(f.type))

CanonicalIsPrevious(f) ==
  IF Previous(f) = NoDecl THEN Len(decls) + 1 ELSE Previous(f)

\* d->canonicalDecl: a redeclaration takes that of the previous one.
Canonical(f) ==
  IF Previous(f) = NoDecl THEN Len(decls) + 1 ELSE decls[Previous(f)].canonical

HasParameters(t) == t.proto /\ t.params # <<>>

BodyConflictOnlyForBodies(f) ==
  /\ f.kind = "func" /\ f.body
  /\ \/ /\ ~f.type.proto /\ Previous(f) # NoDecl
        /\ HasParameters(decls[Previous(f)].type)
     \/ definitions[Canonical(f)] # NoDecl

\* A definition without a prototype and a prototype with parameters exclude
\* each other, whichever comes first; and a function has one body.
BodyConflict(f) ==
  LET defined == definitions[Canonical(f)]
      old     == Previous(f)
  IN  /\ f.kind = "func"
      /\ \/ /\ f.body /\ ~f.type.proto /\ old # NoDecl
            /\ HasParameters(decls[old].type)
         \/ /\ defined # NoDecl
            /\ ~decls[defined].type.proto /\ HasParameters(f.type)
         \/ f.body /\ defined # NoDecl

\* What declare() returns.
Accepts(f, global) ==
  /\ WellFormed(f, global)
  /\ Previous(f) # NoDecl => Redeclares(decls[Previous(f)], f, global)
  /\ ~BodyConflict(f)

\* An unprototyped redeclaration leaves the prototype visible.
Binds(f) ==
  /\ f.kind # "tag"
  /\ ~ /\ Previous(f) # NoDecl
       /\ f.type.shape = "func" /\ ~f.type.proto
       /\ decls[Previous(f)].type.proto

OwnSize(f) == Normalized(f.type).size

\* The array sizes two declarations share: d's own and, if it was unknown,
\* the one of the declaration before it.
SharedSize(f) ==
  LET t == Normalized(f.type)
  IN  IF t.shape = "array" /\ t.size < 0 /\ Previous(f) # NoDecl
      THEN decls[Previous(f)].type.size
      ELSE t.size

CompletesPrevious(f) ==
  /\ Previous(f) # NoDecl
  /\ f.type.shape = "array" /\ f.type.size >= 0
  /\ decls[Previous(f)].type.size < 0

-----------------------------------------------------------------------------
(* The state after declare(f, global).                                       *)

NewDecl(f, global) ==
  LET ok == Accepts(f, global)
  IN  [kind |-> f.kind, name |-> f.name, sc |-> f.sc, body |-> f.body,
       type |-> [Normalized(f.type) EXCEPT
                   !.size = IF ok THEN SharedSize(f) ELSE @],
       depth |-> Len(scopes), ok |-> ok,
       canonical |-> IF WellFormed(f, global) THEN Canonical(f) ELSE NoDecl]

DeclsAfter(f, global) ==
  Append(IF Accepts(f, global) /\ CompletesPrevious(f)
         THEN [decls EXCEPT ![Previous(f)].type.size = f.type.size]
         ELSE decls,
         NewDecl(f, global))

ScopesAfter(f, global) ==
  IF Accepts(f, global) /\ Binds(f)
  THEN [scopes EXCEPT ![Len(scopes)][f.name] = Len(decls) + 1]
  ELSE scopes

DefinitionsOfLast(f, global) ==
  IF Accepts(f, global) /\ f.kind = "func"
  THEN [definitions EXCEPT ![Canonical(f)] = IF f.body THEN Len(decls) + 1 ELSE NoDecl]
  ELSE definitions

DefinitionsAfter(f, global) ==
  IF Accepts(f, global) /\ f.body
  THEN [definitions EXCEPT ![Canonical(f)] = Len(decls) + 1]
  ELSE definitions

\* declare() as a whole, for a declaration that opens no body.
Declare(f, global) ==
  /\ decls' = DeclsAfter(f, global)
  /\ scopes' = ScopesAfter(f, global)
  /\ definitions' = DefinitionsAfter(f, global)
  /\ tags' = TagsWith(f.type)
  /\ errors' = (errors \/ TagClash(f.type) \/ ~Accepts(f, global))

-----------------------------------------------------------------------------
(* The walk: each action is one node of the unit, or the end of one.         *)

Top == nest[Len(nest)]

\* A block takes any number of statements and declarations, a loop one
\* statement.  `if` opens no scope and no loop: its branches are statements of
\* the construct it stands in.
InBlock  == nest # <<>> /\ Top.kind \in {"body", "block"}
CanTake  == nest # <<>> /\ (Top.kind \in {"for", "while"} => ~Top.taken)
CanStart == CanTake /\ Top.kind # "header"
Took     == IF Top.kind \in {"for", "while"}
            THEN [nest EXCEPT ![Len(nest)].taken = TRUE]
            ELSE nest
Frame(k) == [kind |-> k, taken |-> FALSE]

StayInLoop == UNCHANGED loopDepth

\* --loopDepth, when the body of a loop has been walked.
LeaveLoop == loopDepth' = loopDepth - 1

Unbound == [n \in Names |-> NoDecl]

PushScope(bindings) == /\ scopes' = Append(scopes, bindings)
                       /\ opened' = Append(opened, Len(decls))
PopScope == /\ scopes' = SubSeq(scopes, 1, Len(scopes) - 1)
            /\ opened' = SubSeq(opened, 1, Len(opened) - 1)

\* A declaration at file scope with no body, or one that is refused: the walk
\* goes on with the next declaration either way.
DeclareAtFileScope ==
  /\ phase = "analyze" /\ nest = <<>>
  /\ Len(decls) < MaxDecls
  /\ \E f \in Forms : /\ ~(f.body /\ Accepts(f, TRUE))
                      /\ Declare(f, TRUE)
  /\ UNCHANGED <<opened, nest, function, loopDepth, calls, phase>>

\* analyzeFunction declares a parameter that has a name and a complete type.
Declarable(p) == p.name # NoName /\ p.shape \in {"int", "char", "ptr"}

ParameterType(p) == [shape |-> p.shape, size |-> -1, proto |-> FALSE,
                     variadic |-> FALSE, params |-> <<>>, tag |-> NoName]

\* The i-th parameter of a function about to be declared.
Parameter(p, i) ==
  [kind |-> "param", name |-> p.name, sc |-> "NONE", body |-> FALSE,
   type |-> ParameterType(p), depth |-> Len(scopes) + 1,
   canonical |-> Len(decls) + 1 + i, ok |-> Declarable(p)]

Parameters(t) == [i \in DOMAIN t.params |-> Parameter(t.params[i], i)]

ParameterScope(t) ==
  [n \in Names |->
     LET at == {i \in DOMAIN t.params :
                  t.params[i].name = n /\ Declarable(t.params[i])}
     IN  IF at = {} THEN NoDecl ELSE Len(decls) + 1 + (CHOOSE i \in at : TRUE)]

\* declare() of a function with a body, and analyzeFunction up to its first
\* statement: the parameters share the scope of the body.
DefineFunction ==
  /\ phase = "analyze" /\ nest = <<>>
  /\ MaxDepth > 0
  /\ \E f \in Forms :
       /\ Len(decls) + 1 + Len(f.type.params) <= MaxDecls
       /\ f.body /\ Accepts(f, TRUE)
       /\ decls' = DeclsAfter(f, TRUE) \o Parameters(f.type)
       /\ definitions' = DefinitionsAfter(f, TRUE)
       /\ tags' = TagsWith(f.type)
       /\ scopes' = Append(ScopesAfter(f, TRUE), ParameterScope(f.type))
       /\ opened' = Append(opened, Len(decls) + 1)
       /\ errors' = (errors \/ \E i \in DOMAIN f.type.params :
                                  ~Declarable(f.type.params[i]))
  /\ function' = Len(decls) + 1
  /\ loopDepth' = 0
  /\ nest' = <<Frame("body")>>
  /\ UNCHANGED <<calls, phase>>

\* A declaration among the items of a block.  The parser refuses a nested
\* function definition.
DeclareInBlock ==
  /\ InBlock
  /\ Len(decls) < MaxDecls
  /\ \E f \in Forms : ~f.body /\ Declare(f, FALSE)
  /\ UNCHANGED <<opened, nest, function, loopDepth, calls, phase>>

OpenBlock ==
  /\ CanStart /\ Len(nest) < MaxDepth
  /\ PushScope(Unbound)
  /\ nest' = Append(Took, Frame("block"))
  /\ UNCHANGED <<decls, tags, definitions, function, loopDepth, errors, calls, phase>>

CloseBlock ==
  /\ nest # <<>> /\ Top.kind = "block"
  /\ PopScope
  /\ nest' = SubSeq(nest, 1, Len(nest) - 1)
  /\ UNCHANGED <<decls, tags, definitions, function, loopDepth, errors, calls, phase>>

\* The end of a function body.
EndFunction ==
  /\ nest # <<>> /\ Top.kind = "body"
  /\ PopScope
  /\ nest' = <<>>
  /\ function' = NoDecl
  /\ UNCHANGED <<decls, tags, definitions, loopDepth, errors, calls, phase>>

\* A `for` opens a scope for its header, where an initializer may be declared.
OpenFor ==
  /\ CanStart /\ Len(nest) < MaxDepth
  /\ PushScope(Unbound)
  /\ nest' = Append(Took, Frame("header"))
  /\ UNCHANGED <<decls, tags, definitions, function, loopDepth, errors, calls, phase>>

\* Only an automatic or register object may be declared there; anything else
\* is diagnosed and not declared at all.
ForInitializer(f) == f.kind = "var" /\ f.sc \in {"NONE", "AUTO", "REGISTER"}

DeclareForInitializer ==
  /\ nest # <<>> /\ Top = Frame("header")
  /\ Len(decls) < MaxDecls
  /\ \E f \in Forms :
       /\ ~f.body
       /\ IF ForInitializer(f)
          THEN Declare(f, FALSE)
          ELSE errors' = TRUE /\ UNCHANGED <<decls, scopes, definitions, tags>>
  /\ nest' = [nest EXCEPT ![Len(nest)].taken = TRUE]
  /\ UNCHANGED <<opened, function, loopDepth, calls, phase>>

EnterForBody ==
  /\ nest # <<>> /\ Top.kind = "header"
  /\ nest' = [nest EXCEPT ![Len(nest)] = Frame("for")]
  /\ loopDepth' = loopDepth + 1
  /\ UNCHANGED <<decls, scopes, opened, tags, definitions, function, errors, calls, phase>>

CloseFor ==
  /\ nest # <<>> /\ Top.kind = "for" /\ Top.taken
  /\ PopScope
  /\ LeaveLoop
  /\ nest' = SubSeq(nest, 1, Len(nest) - 1)
  /\ UNCHANGED <<decls, tags, definitions, function, errors, calls, phase>>

OpenWhile ==
  /\ CanStart /\ Len(nest) < MaxDepth
  /\ nest' = Append(Took, Frame("while"))
  /\ loopDepth' = loopDepth + 1
  /\ UNCHANGED <<decls, scopes, opened, tags, definitions, function, errors, calls, phase>>

CloseWhile ==
  /\ nest # <<>> /\ Top.kind = "while" /\ Top.taken
  /\ LeaveLoop
  /\ nest' = SubSeq(nest, 1, Len(nest) - 1)
  /\ UNCHANGED <<decls, scopes, opened, tags, definitions, function, errors, calls, phase>>

\* break and continue.
Jump ==
  /\ CanStart
  /\ nest' = Took
  /\ errors' = (errors \/ loopDepth = 0)
  /\ UNCHANGED <<decls, scopes, opened, tags, definitions, function, loopDepth, calls, phase>>

\* Is the name a usable identifier here?  A typedef name is not.
Usable(n) == Lookup(n) # NoDecl /\ decls[Lookup(n)].kind # "typedef"

\* An expression naming n, as a statement or in the header of a `for`.
Use(n) ==
  /\ CanTake
  /\ nest' = Took
  /\ errors' = (errors \/ ~Usable(n))
  /\ UNCHANGED <<decls, scopes, opened, tags, definitions, function, loopDepth, calls, phase>>

CallAllowedUpTo(n, args) ==
  /\ Usable(n)
  /\ LET t == decls[Lookup(n)].type
     IN  /\ t.shape = "func"
         /\ t.proto => args <= Len(t.params) \/ t.variadic

\* A call with a prototype in sight is checked against it.
CallAllowed(n, args) ==
  /\ Usable(n)
  /\ LET t == decls[Lookup(n)].type
     IN  /\ t.shape = "func"
         /\ t.proto => \/ args = Len(t.params)
                       \/ t.variadic /\ args > Len(t.params)

\* A call n(...) of `args` arguments; `live` is whether control can reach it
\* (generation leaves out what follows a return or a jump).
Call(n, args, live) ==
  /\ CanTake
  /\ nest' = Took
  /\ IF CallAllowed(n, args)
     THEN /\ Len(calls) < MaxCalls
          /\ calls' = Append(calls, [fn |-> function, decl |-> Lookup(n),
                                     args |-> args, live |-> live])
          /\ UNCHANGED errors
     ELSE errors' = TRUE /\ UNCHANGED calls
  /\ UNCHANGED <<decls, scopes, opened, tags, definitions, function, loopDepth, phase>>

\* The end of the unit: an incomplete tentative array gets one element.
Tentative(d) == /\ d.depth = 1 /\ d.kind = "var" /\ d.sc # "EXTERN"
                /\ d.type.shape = "array" /\ d.type.size < 0

EndOfUnit ==
  /\ phase = "analyze" /\ nest = <<>>
  /\ decls' = [i \in DOMAIN decls |->
                 IF Tentative(decls[i]) THEN [decls[i] EXCEPT !.type.size = 1]
                                        ELSE decls[i]]
  /\ phase' = "analyzed"
  /\ UNCHANGED <<scopes, opened, nest, tags, definitions, function, loopDepth,
                 errors, calls>>

Init ==
  /\ decls = <<>>
  /\ scopes = <<Unbound>>
  /\ opened = <<0>>
  /\ nest = <<>>
  /\ tags = [n \in Names |-> "none"]
  /\ definitions = [i \in 1..MaxDecls |-> NoDecl]
  /\ function = NoDecl
  /\ loopDepth = 0
  /\ errors = FALSE
  /\ calls = <<>>
  /\ phase = "analyze"

Statement ==
  \/ DeclareInBlock
  \/ OpenBlock \/ CloseBlock
  \/ OpenFor \/ DeclareForInitializer \/ EnterForBody \/ CloseFor
  \/ OpenWhile \/ CloseWhile
  \/ Jump
  \/ \E n \in Names : Use(n)
  \/ \E n \in Names, args \in 0..MaxArgs, live \in BOOLEAN : Call(n, args, live)

Next == DeclareAtFileScope \/ DefineFunction \/ Statement \/ EndFunction \/ EndOfUnit

Spec == Init /\ [][Next]_vars

-----------------------------------------------------------------------------
(* Properties.                                                               *)

\* The state keeps its types: every index is that of a declaration met, every
\* accepted declaration has a canonical one, and recorded calls are made by and
\* to declarations of the unit.
TypeOK ==
  /\ decls \in Seq(DeclSet) /\ Len(decls) <= MaxDecls
  /\ \A i \in DOMAIN decls : /\ decls[i].canonical \in 0..Len(decls)
                             /\ decls[i].ok => decls[i].canonical # NoDecl
  /\ scopes \in Seq([Names -> 0..Len(decls)]) /\ scopes # <<>>
  /\ opened \in Seq(0..Len(decls)) /\ Len(opened) = Len(scopes)
  /\ nest \in Seq([kind : {"body", "block", "header", "for", "while"}, taken : BOOLEAN])
  /\ tags \in [Names -> Tagged \union {"none"}]
  /\ definitions \in [1..MaxDecls -> 0..Len(decls)]
  /\ function \in 0..Len(decls)
  /\ loopDepth \in Int
  /\ errors \in BOOLEAN
  /\ calls \in Seq([fn : 1..Len(decls), decl : 1..Len(decls), args : 0..MaxArgs,
                    live : BOOLEAN])
  /\ phase \in {"analyze", "analyzed"}

Frames(kinds) == {k \in DOMAIN nest : nest[k].kind \in kinds}

\* The scopes and loopDepth that analyzeFunction, analyzeBlock and analyzeNode
\* raise and lower are those of the constructs open at this point, whichever
\* way the walk came here: what `break` and every lookup rely on.
NestingAgrees ==
  /\ Len(scopes) = 1 + Cardinality(Frames({"body", "block", "header", "for"}))
  /\ loopDepth = Cardinality(Frames({"for", "while"}))
  /\ function # NoDecl <=> nest # <<>>

\* Accepted declarations of ordinary names at file scope.
AtFileScope(i) == decls[i].ok /\ decls[i].depth = 1 /\ decls[i].kind # "tag"
SameName(i, j) == AtFileScope(i) /\ AtFileScope(j) /\ decls[i].name = decls[j].name

\* Every accepted declaration of a name at file scope has the canonical
\* declaration of the first one, which is its own canonical declaration: one
\* symbol for the backend, however many redeclarations came and whichever of
\* them were refused or left unbound.
OneCanonicalPerName ==
  \A i, j \in DOMAIN decls : SameName(i, j) =>
     /\ decls[i].canonical = decls[j].canonical
     /\ decls[i].canonical <= i
     /\ decls[decls[i].canonical].canonical = decls[i].canonical

\* Two accepted declarations of a name agree, although declare() compares
\* each with the last one bound only and compatibility is not transitive:
\* f(int), f() and f(char) do not pass one after the other.
RedeclarationsAgree ==
  phase = "analyze" =>
    \A i, j \in DOMAIN decls : SameName(i, j) /\ i # j =>
       /\ decls[i].kind = decls[j].kind
       /\ Compatible(decls[i].type, decls[j].type)

\* At most one accepted declaration of a function carries a body, and no
\* accepted prototype with parameters stands beside a body without a prototype.
OneBody ==
  \A i, j \in DOMAIN decls : SameName(i, j) /\ decls[i].body =>
     /\ decls[j].body => i = j
     /\ HasParameters(decls[j].type) => decls[i].type.proto

\* What later uses of a name see knows all that its accepted declarations have
\* said: the prototype if there is one, and the size of the array.
VisibleIsComposite ==
  phase = "analyze" =>
    \A i \in DOMAIN decls : AtFileScope(i) =>
       LET seen == decls[scopes[1][decls[i].name]].type
       IN  /\ decls[i].type.proto => seen.proto
           /\ decls[i].type.size > 0 => seen.size = decls[i].type.size

\* The accepted declarations of n that stand in a scope still open.
InScope(n) == {i \in DOMAIN decls :
                 /\ decls[i].ok /\ decls[i].kind # "tag" /\ decls[i].name = n
                 /\ decls[i].depth <= Len(scopes)
                 /\ i > opened[decls[i].depth]}

\* Name lookup finds a declaration of the innermost open scope that declares
\* the name, and none once every scope that declared it has closed.
LookupIsVisible ==
  \A n \in Names :
     IF InScope(n) = {} THEN Lookup(n) = NoDecl
     ELSE /\ Lookup(n) \in InScope(n)
          /\ \A i \in InScope(n) : decls[i].depth <= decls[Lookup(n)].depth

\* docs/sema.md: incomplete tentative arrays get one element "unless a later
\* declaration completes them"; all declarations of one array end alike.
TentativeArraysComplete ==
  phase = "analyzed" =>
    \A i, j \in DOMAIN decls :
       SameName(i, j) /\ decls[i].type.size > 0 /\ decls[j].type.size > 0
          => decls[i].type.size = decls[j].type.size

\* docs/sema.md: "Compatible redeclarations share a canonical declaration".
\* A function declared in a block with external linkage is a redeclaration of
\* the one declared at file scope.
RedeclarationsShareCanonical ==
  \A i, j \in DOMAIN decls :
     /\ AtFileScope(i) /\ decls[decls[i].canonical].sc # "STATIC"
     /\ decls[j].ok /\ j > i
     /\ decls[i].kind = "func" /\ decls[j].kind = "func"
     /\ decls[i].name = decls[j].name
     /\ Compatible(decls[i].type, decls[j].type)
     => decls[i].canonical = decls[j].canonical

\* docs/sema.md: compatible redeclarations share a canonical declaration, and
\* "incompatible declarations and multiple function bodies are diagnosed".
\* A function first declared static may be declared static again.
CompatibleAreAccepted ==
  \A j \in DOMAIN decls :
     /\ decls[j].kind = "func" /\ decls[j].depth = 1 /\ ~decls[j].body
     /\ decls[j].sc \in {"NONE", "EXTERN", "STATIC"}
     /\ \E i \in 1..(j - 1) : AtFileScope(i) /\ decls[i].name = decls[j].name
     /\ \A i \in 1..(j - 1) :
          AtFileScope(i) /\ decls[i].name = decls[j].name =>
            /\ decls[i].kind = "func" /\ ~decls[i].body
            /\ Compatible(decls[i].type, decls[j].type)
            /\ decls[j].sc = "STATIC" => decls[decls[i].canonical].sc = "STATIC"
     => decls[j].ok

-----------------------------------------------------------------------------
(* Refinement: the bindings of functions at file scope, with the bodies      *)
(* recorded for their canonical declarations, are FunctionSymbols.           *)

SymbolOf(n) ==
  LET b == scopes[1][n]
      t == decls[b].type
  IN  IF b = NoDecl \/ decls[b].kind # "func"
      THEN [known |-> "nothing", params |-> <<>>, variadic |-> FALSE, body |-> 0]
      ELSE [known    |-> IF t.proto THEN "prototype" ELSE "unspecified",
            params   |-> [i \in DOMAIN t.params |-> t.params[i].shape],
            variadic |-> t.variadic,
            body     |-> definitions[decls[b].canonical]]

Symbols == INSTANCE FunctionSymbols WITH symbol <- [n \in Names |-> SymbolOf(n)]

\* What is known of a function is never taken back: declare() with its
\* unbound redeclarations and its definitions map implements FunctionSymbols.
SymbolsOnlyGrow == Symbols!Spec
=============================================================================
