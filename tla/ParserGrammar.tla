---------------------------- MODULE ParserGrammar ----------------------------
(* The reference for the parser: what the grammar of C derives from a text,  *)
(* for the constructs the parser takes (C99 6.5, 6.7, 6.8 and 6.9).  For each*)
(* nonterminal, the set of its readings from a position on, of every length: *)
(* no reading is preferred, no token is looked at in advance, no placeholder *)
(* is replaced.  A context `c` is a text with the types of its typedef names.*)
(*                                                                           *)
(* Left to semantic analysis, as in the parser: what may be assigned to, and *)
(* whether a name in an expression is an object's.                           *)
EXTENDS Parser, FiniteSets

Context(tokens) == [in |-> tokens, types |-> <<>>]
At(c, i) == IF i <= Len(c.in) THEN c.in[i] ELSE "eof"

\* The readings that token t follows, up to it and including it.
Through(c, readings, t) ==
  {[r EXCEPT !.end = @ + 1] : r \in {r \in readings : At(c, r.end) = t}}
If(condition, readings) == IF condition THEN readings ELSE {}

NamesType(c, t) == t \in TypeWords \/ t \in DOMAIN c.types
Hiding(c, names) == [c EXCEPT !.types = [n \in DOMAIN @ \ names |-> @[n]]]

Read(end, node) == [end |-> end, node |-> node]

RECURSIVE Readings(_, _, _)
\* The nonterminals that contain each other.
Expressions(c, i) == Readings("expressions", c, i)
Assignments(c, i) == Readings("assignments", c, i)
Unaries(c, i)     == Readings("unaries", c, i)
Declared(c, i)    == Readings("declarators", c, i)
Statements(c, i)  == Readings("statements", c, i)
Blocks(c, i)      == Readings("blocks", c, i)
External(c, i, global) == Readings(IF global THEN "externals" ELSE "locals", c, i)

-----------------------------------------------------------------------------
(* Expressions.                                                              *)

Operators == <<{"||"}, {"&&"}, {"|"}, {"^"}, {"&"}, {"==", "!="}, {"<", "<=", ">", ">="},
               {"<<", ">>"}, {"+", "-"}, {"*", "/", "%"}>>

Primaries(c, i) ==
  If(At(c, i) \in Identifiers \union Literals, {Read(i + 1, Leaf(At(c, i)))})
  \union If(At(c, i) = "(", Through(c, Expressions(c, i + 1), ")"))

RECURSIVE Lists(_, _)
Lists(c, i) ==
  UNION {{[end |-> e.end, args |-> <<e.node>>]}
         \union If(At(c, e.end) = ",",
                   {[l EXCEPT !.args = <<e.node>> \o @] : l \in Lists(c, e.end + 1)}) :
         e \in Assignments(c, i)}

RECURSIVE Postfixed(_, _)
\* What `left`, a postfix expression, is the beginning of.
Postfixed(c, left) ==
  LET i == left.end
      longer ==
        CASE At(c, i) = "(" ->
               {Read(l.end, Node("call", <<left.node>> \o l.args)) :
                  l \in Through(c, Lists(c, i + 1) \union {[end |-> i + 1, args |-> <<>>]}, ")")}
          [] At(c, i) = "[" -> {Read(e.end, Node("index", <<left.node, e.node>>)) :
                                  e \in Through(c, Expressions(c, i + 1), "]")}
          [] At(c, i) \in {".", "->"} ->
               If(At(c, i + 1) \in Identifiers,
                  {Read(i + 2, Member(left.node, At(c, i), At(c, i + 1)))})
          [] At(c, i) \in {"++", "--"} ->
               {Read(i + 1, Node("post " \o At(c, i), <<left.node>>))}
          [] OTHER -> {}
  IN  {left} \union UNION {Postfixed(c, l) : l \in longer}

\* sizeof takes all of an operand that is in parentheses.
Sizes(c, i) ==
  IF At(c, i) # "(" THEN {Read(e.end, Node("sizeof", <<e.node>>)) : e \in Unaries(c, i)}
  ELSE IF NamesType(c, At(c, i + 1))
  THEN {Read(d.end, SizeofType(d.type)) : d \in Through(c, Declared(c, i + 1), ")")}
  ELSE {Read(e.end, Node("sizeof", <<e.node>>)) : e \in Through(c, Expressions(c, i + 1), ")")}

UnariesFrom(c, i) ==
  UNION {Postfixed(c, p) : p \in Primaries(c, i)}
  \union If(At(c, i) \in UnaryOps,
            {Read(e.end, Node(At(c, i), <<e.node>>)) : e \in Unaries(c, i + 1)})
  \union If(At(c, i) = "sizeof", Sizes(c, i + 1))

RECURSIVE Chains(_, _, _), Binaries(_, _, _)
\* What `left` begins, with operators of one level and operands above it.
Chains(c, left, level) ==
  {left} \union
  If(At(c, left.end) \in Operators[level],
     UNION {Chains(c, Read(right.end, Node(At(c, left.end), <<left.node, right.node>>)), level) :
              right \in Binaries(c, left.end + 1, level + 1)})

Binaries(c, i, level) ==
  IF level > Len(Operators) THEN Unaries(c, i)
  ELSE UNION {Chains(c, left, level) : left \in Binaries(c, i, level + 1)}

RECURSIVE Conditionals(_, _)
Conditionals(c, i) ==
  UNION {
    {cond} \union
    If(At(c, cond.end) = "?",
       UNION {{Read(els.end, Node("?", <<cond.node, then.node, els.node>>)) :
                 els \in Conditionals(c, then.end)} :
              then \in Through(c, Expressions(c, cond.end + 1), ":")}) :
    cond \in Binaries(c, i, 1)}

AssignmentsFrom(c, i) ==
  UNION {
    {left} \union
    If(At(c, left.end) \in AssignOps,
       {Read(right.end, Node(At(c, left.end), <<left.node, right.node>>)) :
          right \in Assignments(c, left.end + 1)}) :
    left \in Conditionals(c, i)}

RECURSIVE Commas(_, _)
Commas(c, left) ==
  {left} \union
  If(At(c, left.end) = ",",
     UNION {Commas(c, Read(right.end, Node(",", <<left.node, right.node>>))) :
              right \in Assignments(c, left.end + 1)})

ExpressionsFrom(c, i) == UNION {Commas(c, left) : left \in Assignments(c, i)}

-----------------------------------------------------------------------------
(* Declarations.  A declarator is read from its name outwards.               *)

Bagged(words) == [t \in Specifiers |-> Cardinality({i \in DOMAIN words : words[i] = t})]

\* C99 6.7.2, each set of specifiers in one of its orders.
typeSpecifiers ==
  LET Type(kind, spellings) == {[kind |-> kind, bag |-> Bagged(w)] : w \in spellings}
  IN  Type("void", {<<"void">>}) \union Type("float", {<<"float">>})
      \union Type("double", {<<"double">>}) \union Type("long double", {<<"long", "double">>})
      \union Type("char", {<<"char">>}) \union Type("signed char", {<<"signed", "char">>})
      \union Type("unsigned char", {<<"unsigned", "char">>})
      \union Type("short", {<<"short">>, <<"signed", "short">>, <<"short", "int">>,
                            <<"signed", "short", "int">>})
      \union Type("unsigned short", {<<"unsigned", "short">>, <<"unsigned", "short", "int">>})
      \union Type("int", {<<"int">>, <<"signed">>, <<"signed", "int">>})
      \union Type("unsigned int", {<<"unsigned">>, <<"unsigned", "int">>})
      \union Type("long", {<<"long">>, <<"signed", "long">>, <<"long", "int">>,
                           <<"signed", "long", "int">>})
      \union Type("unsigned long", {<<"unsigned", "long">>, <<"unsigned", "long", "int">>})
      \union Type("long long", {<<"long", "long">>, <<"signed", "long", "long">>,
                                <<"long", "long", "int">>,
                                <<"signed", "long", "long", "int">>})
      \union Type("unsigned long long", {<<"unsigned", "long", "long">>,
                                         <<"unsigned", "long", "long", "int">>})

\* Where a run of words from a set that begins at i may end.
Runs(c, i, words) ==
  {j \in i .. Len(c.in) + 1 : \A k \in i .. j - 1 : At(c, k) \in words}

\* A qualifier of an array is one of its elements.
QualifiedBy(type, quals) ==
  LET plain == CHOOSE k \in DOMAIN type : /\ type[k].kind # "array"
                                          /\ \A j \in 1 .. k - 1 : type[j].kind = "array"
  IN  [k \in DOMAIN type |->
         [type[k] EXCEPT !.quals = IF k <= plain THEN @ \union quals ELSE @,
            !.params = IF k = 1 THEN [p \in DOMAIN @ |-> [@[p] EXCEPT !.name = ""]] ELSE @]]

TypeSpecifiers(c, i) ==
  If(At(c, i) \in DOMAIN c.types, {[end |-> i + 1, type |-> c.types[At(c, i)]]})
  \union If(At(c, i) \in Tagged,
            LET named == At(c, i + 1) \in Identifiers
            IN  {[end |-> IF named THEN i + 2 ELSE i + 1,
                  type |-> <<[Basic(At(c, i)) EXCEPT !.tag = IF named THEN At(c, i + 1) ELSE ""]>>]})
  \union {[end |-> r[1], type |-> <<Basic(r[2].kind)>>] :
            r \in {r \in Runs(c, i, Specifiers) \X typeSpecifiers :
                     Bagged(SubSeq(c.in, i, r[1] - 1)) = r[2].bag}}

QualifiedSpecs(c, i) ==
  LET words(a, b) == {At(c, k) : k \in a .. b - 1}
  IN  UNION {UNION {{[end |-> j, type |-> QualifiedBy(spec.type, words(i, a)
                                                       \union words(spec.end, j))] :
                       j \in Runs(c, spec.end, Qualifying)} :
                    spec \in TypeSpecifiers(c, a)} :
             a \in Runs(c, i, Qualifying)}

RECURSIVE Pointers(_, _)
\* Pointers in front of a declarator: the first is the farthest from the name.
Pointers(c, i) ==
  {[end |-> i, type |-> <<>>]}
  \union UNION {{[p EXCEPT !.type = Append(@, pointer({At(c, k) : k \in i + 1 .. j - 1}))] :
                   p \in Pointers(c, j)} :
                j \in IF At(c, i) = "*" THEN Runs(c, i + 1, Qualifying) ELSE {}}

RECURSIVE ParameterLists(_, _)
ParameterLists(c, i) ==
  If(At(c, i) = "...", {[end |-> i + 1, params |-> <<>>, variadic |-> TRUE]})
  \union UNION {
    LET param == <<[name |-> d.name, type |-> d.type]>>
    IN  {[end |-> d.end, params |-> param, variadic |-> FALSE]}
        \union If(At(c, d.end) = ",",
                  {[l EXCEPT !.params = param \o @] : l \in ParameterLists(c, d.end + 1)}) :
    d \in Declared(c, i)}

FunctionSuffixes(c, i) ==
  LET Plain(end, hasPrototype) == {[end |-> end, type |-> function(<<>>, FALSE, hasPrototype)]}
  IN  IF At(c, i) # "(" THEN {}
      ELSE IF At(c, i + 1) = ")" THEN Plain(i + 2, FALSE)
      ELSE IF At(c, i + 1) = "void" /\ At(c, i + 2) = ")" THEN Plain(i + 3, TRUE)
      ELSE {[end |-> l.end, type |-> function(l.params, l.variadic, TRUE)] :
              l \in Through(c, ParameterLists(c, i + 1), ")")}

\* A bound is an integer literal an int can hold.
ArraySuffixes(c, i) ==
  If(At(c, i) = "[" /\ At(c, i + 1) = "]", {[end |-> i + 2, type |-> array(-1)]})
  \union If(At(c, i) = "[",
            {[end |-> e.end, type |-> array(intLiterals[e.node.name])] :
               e \in {e \in Through(c, Expressions(c, i + 1), "]") :
                        IsIntLit(e.node) /\ intLiterals[e.node.name] < Huge}})

RECURSIVE Suffixed(_, _)
Suffixed(c, d) ==
  {d} \union UNION {Suffixed(c, [d EXCEPT !.end = x.end, !.type = Append(@, x.type)]) :
                      x \in FunctionSuffixes(c, d.end) \union ArraySuffixes(c, d.end)}

RECURSIVE Declarators(_, _)
\* Named or abstract.  Before a type name or a closing parenthesis, an opening
\* one begins parameters (6.7.5.3).
Declarators(c, i) ==
  UNION {
    LET j == p.end
        inner == If(/\ At(c, j) = "(" /\ At(c, j + 1) # ")"
                    /\ ~NamesType(c, At(c, j + 1)), Declarators(c, j + 1))
        direct == {[end |-> j, name |-> "", type |-> <<>>]} \union Through(c, inner, ")")
                  \union If(At(c, j) \in Identifiers,
                            {[end |-> j + 1, name |-> At(c, j), type |-> <<>>]})
    IN  {[d EXCEPT !.type = @ \o p.type] : d \in UNION {Suffixed(c, x) : x \in direct}} :
    p \in Pointers(c, i)}

\* Specifiers and a declarator, with its type (6.7.5).
DeclaredFrom(c, i) == UNION {{[d EXCEPT !.type = @ \o spec.type] : d \in Declarators(c, spec.end)} :
                           spec \in QualifiedSpecs(c, i)}

\* One declaration, and the context behind it.  What names nothing has a node
\* only if it declares a tag.
ExternalFrom(c, i, global) ==
  LET sc == IF At(c, i) \in StorageClasses THEN At(c, i) ELSE ""
      With(r, kind, kids, d, context) ==
        [end |-> r.end, node |-> Declaring(kind, sc, kids, d), after |-> context]
      hidden(d) == IF global THEN c ELSE Hiding(c, {d.name})
      body(d) == Hiding(c, {Head(d.type).params[k].name : k \in DOMAIN Head(d.type).params})
      Ended(d) == Through(c, {d}, ";")
  IN  UNION {
        CASE sc = "typedef" ->
               {With(r, "typedef", <<>>, d, [c EXCEPT !.types = (d.name :> d.type) @@ @]) :
                  r \in {r \in Ended(d) : d.name # ""}}
          [] sc # "typedef" /\ d.name = "" ->
               LET type == Head(d.type)
                   tag  == [Node(type.kind, <<>>) EXCEPT !.name = type.tag, !.type = d.type]
               IN  {[end |-> r.end, node |-> IF type.tag = "" THEN Null ELSE tag, after |-> c] :
                      r \in Ended(d)}
          [] sc # "typedef" /\ d.name # "" /\ Head(d.type).kind = "function" ->
               {With(r, "function", <<Null>>, d, c) : r \in Ended(d)}
               \union If(global, {With(b, "function", <<b.node>>, d, c) :
                                   b \in Blocks(body(d), d.end)})
          [] OTHER ->
               {With(r, "variable", <<Null>>, d, hidden(d)) : r \in Ended(d)}
               \union If(~global /\ At(c, d.end) = "=",
                         {With(e, "variable", <<e.node>>, d, hidden(d)) :
                            e \in Through(c, Assignments(hidden(d), d.end + 1), ";")}) :
        d \in Declared(c, IF sc = "" THEN i ELSE i + 1)}

-----------------------------------------------------------------------------
(* Statements.                                                               *)

RECURSIVE ItemLists(_, _)
\* An item that names nothing is the last of its block.
ItemLists(c, i) ==
  LET List(end, items) == [end |-> end, items |-> items]
      Behind(context, r) == {[l EXCEPT !.items = <<r.node>> \o @] : l \in ItemLists(context, r.end)}
  IN  {List(i, <<>>)} \union
      IF NamesType(c, At(c, i))
      THEN UNION {IF d.node = Null THEN {List(d.end, <<>>)} ELSE Behind(d.after, d) :
                    d \in External(c, i, FALSE)}
      ELSE UNION {Behind(c, r) : r \in Statements(c, i)}

BlocksFrom(c, i) == If(At(c, i) = "{", {Read(l.end, Node("block", l.items)) :
                                      l \in Through(c, ItemLists(c, i + 1), "}")})

Optional(c, i, end) == Through(c, {Read(i, Null)} \union Expressions(c, i), end)
Parenthesized(c, i) == If(At(c, i) = "(", Through(c, Expressions(c, i + 1), ")"))

\* An else belongs to the nearest if (6.8.4.1).
Ifs(c, i) ==
  UNION {UNION {
    If(At(c, then.end) # "else", {Read(then.end, Node("if", <<cond.node, then.node>>))})
    \union If(At(c, then.end) = "else",
              {Read(els.end, Node("if", <<cond.node, then.node, els.node>>)) :
                 els \in Statements(c, then.end + 1)}) :
    then \in Statements(c, cond.end)} : cond \in Parenthesized(c, i + 1)}

Whiles(c, i) ==
  UNION {{Read(body.end, Node("while", <<cond.node, body.node>>)) :
            body \in Statements(c, cond.end)} : cond \in Parenthesized(c, i + 1)}

\* What a for declares is known in the rest of it.
Fors(c, i) ==
  LET first == If(At(c, i + 1) = "(",
                  IF NamesType(c, At(c, i + 2))
                  THEN {d \in External(c, i + 2, FALSE) : d.node # Null}
                  ELSE {[end |-> e.end, node |-> e.node, after |-> c] :
                          e \in Optional(c, i + 2, ";")})
  IN  UNION {UNION {UNION {
        {Read(body.end, Node("for", <<init.node, cond.node, incr.node, body.node>>)) :
           body \in Statements(init.after, incr.end)} :
        incr \in Optional(init.after, cond.end, ")")} :
        cond \in Optional(init.after, init.end, ";")} : init \in first}

StatementsFrom(c, i) ==
  CASE At(c, i) = "if"     -> Ifs(c, i)
    [] At(c, i) = "while"  -> Whiles(c, i)
    [] At(c, i) = "for"    -> Fors(c, i)
    [] At(c, i) = "{"      -> Blocks(c, i)
    [] At(c, i) = "return" -> {Read(e.end, Node("return", <<e.node>>)) :
                                 e \in Optional(c, i + 1, ";")}
    [] At(c, i) \in {"break", "continue"} ->
         If(At(c, i + 1) = ";", {Read(i + 2, Node(At(c, i), <<>>))})
    [] OTHER -> {Read(e.end, Node("expr", <<e.node>>)) : e \in Optional(c, i, ";")}

Readings(what, c, i) ==
  CASE what = "expressions" -> ExpressionsFrom(c, i)
    [] what = "assignments" -> AssignmentsFrom(c, i)
    [] what = "unaries"     -> UnariesFrom(c, i)
    [] what = "declarators" -> DeclaredFrom(c, i)
    [] what = "externals"   -> ExternalFrom(c, i, TRUE)
    [] what = "locals"      -> ExternalFrom(c, i, FALSE)
    [] what = "statements"  -> StatementsFrom(c, i)
    [] what = "blocks"      -> BlocksFrom(c, i)

-----------------------------------------------------------------------------
(* Translation units: the declarations from i to the end.                    *)

RECURSIVE Units(_, _)
Units(c, i) ==
  IF i > Len(c.in) THEN {<<>>}
  ELSE IF At(c, i) = ";" THEN Units(c, i + 1)
  ELSE UNION {{IF d.node = Null THEN rest ELSE <<d.node>> \o rest : rest \in Units(d.after, d.end)} :
                d \in External(c, i, TRUE)}

TranslationUnits(tokens) == Units(Context(tokens), 1)

-----------------------------------------------------------------------------
(* What the parser takes beside C, and the properties.                       *)

\* Specifiers that name no type of C, or keep the two words of long long apart.
Lax(tokens) ==
  \E i \in DOMAIN tokens : \E j \in i .. Len(tokens) :
    LET words == SubSeq(tokens, i, j)
        longs == {k \in DOMAIN words : words[k] = "long"}
    IN  /\ ToSet(words) \subseteq Specifiers
        /\ i = 1 \/ tokens[i - 1] \notin Specifiers
        /\ j = Len(tokens) \/ tokens[j + 1] \notin Specifiers
        /\ \/ \A t \in typeSpecifiers : Bagged(words) # t.bag
           \/ \E k \in longs : \E l \in longs : l > k + 1

\* The tokens that are not skipped.
Kept(tokens, skipped) ==
  LET upTo[i \in 0 .. Len(tokens)] ==
        IF i = 0 THEN <<>>
        ELSE upTo[i - 1] \o (IF i \in skipped THEN <<>> ELSE <<tokens[i]>>)
  IN  upTo[Len(tokens)]

-----------------------------------------------------------------------------
(* Properties, of what parse returns for a text.                             *)

\* The parser takes a text exactly if the grammar of C derives it, and builds
\* the one tree the grammar gives it: precedence, associativity, the binding of
\* else, types and names, and which identifiers are type names.  Lax texts are
\* left out, and what the parser skips is no part of the text.
TakenAsC(r) ==
  IF hasErrors(r.s) THEN TranslationUnits(Complete) = {}
  ELSE Lax(Complete) \/ TranslationUnits(Kept(Complete, r.s.skipped)) = {r.decls}
ReadsAsC == TakenAsC(parse(Complete))

\* Tokens the parser passes over without an error stand behind a declaration
\* that names nothing, and none of them ends or begins a declaration.
NamesNothing(c, i, end) == \E d \in External(c, i, TRUE) : d.end = end /\ d.node = Null
PassesOver(c, skipped) ==
  \A i \in skipped :
    /\ At(c, i) # ";" /\ ~NamesType(c, At(c, i))
    /\ i - 1 \in skipped \/ \E j \in 1 .. i - 1 : NamesNothing(c, j, i)
SkipsSilently(r) ==
  hasErrors(r.s) \/ PassesOver([in |-> Complete, types |-> r.s.typedefs], r.s.skipped)
SkipsBehindNothing == SkipsSilently(parse(Complete))

\* ParserTests.cpp, rejects_malformed_for_headers: a text in which the header
\* of a for is malformed is refused.
RejectsMalformedForHeaders ==
  hasErrors(parse(Complete).s) \/ TranslationUnits(Complete) # {}
=============================================================================
