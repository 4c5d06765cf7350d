-------------------------------- MODULE Parser -------------------------------
(* The parser: recursive descent over the token source with two tokens in    *)
(* hand, building the untyped tree (Parser.cpp, ParseExpr.cpp, ParseDecl.cpp *)
(* and ParseStmt.cpp).  A token is its spelling.  Each operator that stands  *)
(* for a parse function takes the state of the parser and returns it with    *)
(* what the function returns: a node, Null for nullptr, or a type.           *)
(*                                                                           *)
(* A text is built piece by piece: it goes on growing while all the parser   *)
(* can complain of is that the text ends.  TLC's runs use this module, no    *)
(* theorem does.                                                             *)
EXTENDS Integers, Sequences, SequencesExt

CONSTANTS Identifiers, \* tokens that are identifiers
          Families     \* bounds: [before, pieces, most, after], a text being
                       \* before, at most `most` of the pieces, and after

VARIABLES text,   \* the pieces
          family  \* the member of Families the text belongs to

-----------------------------------------------------------------------------
(* Tokens.                                                                   *)

\* The values of the integer literals; Huge is more than an int can hold.
Huge == 2147483647
intLiterals == ("0" :> 0) @@ ("1" :> 1) @@ ("2" :> 2) @@ ("9999999999" :> Huge)
Literals == DOMAIN intLiterals \union {"1.5", "'c'", "\"s\""}

StorageClasses == {"auto", "register", "static", "extern", "typedef"}
Qualifying     == {"const", "volatile"}
Specifiers     == {"void", "char", "short", "int", "long", "float", "double",
                   "signed", "unsigned"}
Tagged         == {"struct", "union", "enum"}
TypeWords      == StorageClasses \union Qualifying \union Specifiers \union Tagged

AssignOps == {"=", "+=", "-=", "*=", "/=", "%=", "&=", "|=", "^=", "<<=", ">>="}
UnaryOps  == {"++", "--", "+", "-", "!", "~", "*", "&"}

\* infixPrec, the operators of each precedence from the loosest.
Precedences == <<{","}, AssignOps, {}, {"||"}, {"&&"}, {"|"}, {"^"}, {"&"}, {"==", "!="},
                 {"<", "<=", ">", ">="}, {"<<", ">>"}, {"+", "-"}, {"*", "/", "%"}>>
precedence == [op \in UNION {Precedences[p] : p \in DOMAIN Precedences} |->
                 CHOOSE p \in DOMAIN Precedences : op \in Precedences[p]]
infixPrec(t)    == IF t \in DOMAIN precedence THEN precedence[t] ELSE -1
ternaryPrec     == 3
LeftAssoc(t)    == FALSE
isRightAssoc(t) == t \in AssignOps

-----------------------------------------------------------------------------
(* The tree.  Identifiers and literals are leaves, an operator's node has    *)
(* its token as `op`.  A type is the list of its derivations, the outermost  *)
(* first: an array of pointers to int is <<array, pointer, int>>.            *)

NoType == <<>>
Node(op, kids) == [op |-> op, kids |-> kids, name |-> "", type |-> NoType]
Leaf(name)     == [Node("leaf", <<>>) EXCEPT !.name = name]
Null           == Node("null", <<>>)

Basic(kind) == [kind |-> kind, quals |-> {}, size |-> -1, params |-> <<>>,
                variadic |-> FALSE, hasPrototype |-> TRUE, tag |-> ""]
pointer(quals)    == [Basic("pointer") EXCEPT !.quals = quals]
array(size)       == [Basic("array") EXCEPT !.size = size]
function(params, variadic, hasPrototype) ==
  [Basic("function") EXCEPT !.params = params, !.variadic = variadic,
                            !.hasPrototype = hasPrototype]

RECURSIVE qualified(_, _)
\* TypePool::qualified: a copy, which _functionParams does not know of.
qualified(type, quals) ==
  LET copy == [Head(type) EXCEPT !.quals = quals,
                 !.params = [i \in DOMAIN @ |-> [@[i] EXCEPT !.name = ""]]]
      rest == Tail(type)
  IN  IF copy.kind = "array" THEN <<copy>> \o qualified(rest, Head(rest).quals \union quals)
      ELSE <<copy>> \o rest

-----------------------------------------------------------------------------
(* The state of the parser.  The source answers EOF after an error, whatever *)
(* is left: only the two tokens in hand are still seen.  `at` is where the   *)
(* first error arose, `skipped` what syncToNextDecl passed over (history).   *)

Reading(tokens) == [lex |-> tokens, pos |-> 1, seen |-> Len(tokens), errs |-> 0, at |-> 0,
                    typedefs |-> <<>>, skipped |-> {}]

TokenAt(s, i) == IF i <= s.seen THEN s.lex[i] ELSE "eof"
cur(s)  == TokenAt(s, s.pos)
peek(s) == TokenAt(s, s.pos + 1)
isEof(s) == cur(s) = "eof"
hasErrors(s) == s.errs > 0

advance(s) == [s EXCEPT !.pos = @ + 1]
error(s)   == IF hasErrors(s) THEN [s EXCEPT !.errs = @ + 1]
              ELSE [s EXCEPT !.errs = 1, !.at = s.pos,
                             !.seen = IF s.pos + 1 < @ THEN s.pos + 1 ELSE @]
expect(s, t) == IF cur(s) = t THEN advance(s) ELSE error(s)

isTypeName(s, t) == t \in TypeWords \/ t \in DOMAIN s.typedefs
Defined(s, name, type) == [s EXCEPT !.typedefs = (name :> type) @@ @]
Erased(s, names) == [s EXCEPT !.typedefs = [n \in DOMAIN @ \ names |-> @[n]]]

\* _typedefs = std::move(savedTypedefs)
TypedefsRestored(s, saved) == [s EXCEPT !.typedefs = saved.typedefs]

Returns(s, node) == [s |-> s, node |-> node]
NoNode(s)       == Returns(s, Null)
Has(r)           == r.node # Null
Typed(s, type, name) == [s |-> s, type |-> type, name |-> name]
Untyped(s)           == Typed(s, NoType, "")

RECURSIVE Parse(_, _, _)
\* The functions that call each other, with the argument some of them have.
parseExpr(s, minPrec)    == Parse("expression", s, minPrec)
parseUnary(s)            == Parse("unary", s, 0)
parseDeclarator(s, base) == Parse("declarator", s, base)
parseSuffix(s, base)     == Parse("suffix", s, base)
parseDecl(s, global)     == Parse("declaration", s, global)
parseStmt(s)             == Parse("statement", s, 0)
parseCompoundStmt(s)     == Parse("block", s, 0)
\* Qualifiers on either side of a type specifier, as in a declaration.
QualifiedTypeSpec(s)     == Parse("specifiers", s, 0)

-----------------------------------------------------------------------------
(* Specifiers and declarators.                                               *)

RECURSIVE Qualified(_, _)
\* parseQualifiers
Qualified(s, quals) == IF cur(s) \in Qualifying THEN Qualified(advance(s), quals \union {cur(s)})
                       ELSE [s |-> s, quals |-> quals]
parseQualifiers(s) == Qualified(s, {})

RECURSIVE Specified(_, _)
\* The flags of parseTypeSpec, each named by its keyword.
Specified(s, flags) ==
  IF cur(s) = "long" /\ peek(s) = "long"
  THEN Specified(advance(advance(s)), flags \union {"long long"})
  ELSE IF cur(s) \in Specifiers THEN Specified(advance(s), flags \union {cur(s)})
  ELSE [s |-> s, flags |-> flags]

SpecifiedType(flags) ==
  LET unsigned(kind) == IF "unsigned" \in flags THEN "unsigned " \o kind ELSE kind
  IN  IF "void" \in flags THEN "void"
      ELSE IF "float" \in flags THEN "float"
      ELSE IF "double" \in flags THEN IF "long" \in flags THEN "long double" ELSE "double"
      ELSE IF "char" \in flags
           THEN IF "signed" \in flags /\ "unsigned" \notin flags THEN "signed char"
                ELSE unsigned("char")
      ELSE IF "short" \in flags THEN unsigned("short")
      ELSE IF "long long" \in flags THEN unsigned("long long")
      ELSE IF "long" \in flags THEN unsigned("long") ELSE unsigned("int")

RECURSIVE Skipped(_, _)
\* Past the braces of a definition, `depth` of them open.
Skipped(s, depth) ==
  IF depth = 0 \/ isEof(s) THEN s
  ELSE Skipped(advance(s), CASE cur(s) = "{" -> depth + 1
                             [] cur(s) = "}" -> depth - 1 [] OTHER -> depth)

\* parseStructOrUnion, parseEnum
TaggedType(s) ==
  LET tag   == advance(s)
      named == cur(tag) \in Identifiers
      body  == IF named THEN advance(tag) ELSE tag
      type  == <<[Basic(cur(s)) EXCEPT !.tag = IF named THEN cur(tag) ELSE ""]>>
  IN  Typed(IF cur(body) = "{" THEN Skipped(error(advance(body)), 1) ELSE body, type, "")

parseTypeSpec(s) ==
  IF cur(s) \in Tagged THEN TaggedType(s)
  ELSE IF cur(s) \in DOMAIN s.typedefs THEN Typed(advance(s), s.typedefs[cur(s)], "")
  ELSE LET found == Specified(s, {})
       IN  IF found.flags = {} THEN Untyped(s)
           ELSE Typed(found.s, <<Basic(SpecifiedType(found.flags))>>, "")

Specs(s) ==
  LET leading  == parseQualifiers(s)
      spec     == parseTypeSpec(leading.s)
      trailing == parseQualifiers(spec.s)
      quals    == leading.quals \union trailing.quals \union Head(spec.type).quals
  IN  IF spec.type = NoType THEN spec
      ELSE Typed(trailing.s, qualified(spec.type, quals), "")

RECURSIVE parsePointer(_, _)
parsePointer(s, base) ==
  IF cur(s) # "*" THEN Typed(s, base, "")
  ELSE LET found == parseQualifiers(advance(s))
       IN  parsePointer(found.s, <<pointer(found.quals)>> \o base)

\* replacePlaceholder follows the one chain from the declarator's outermost
\* derivation to the placeholder at its end.
Placeholder == <<Basic("placeholder")>>
replacePlaceholder(inner, type) == Front(inner) \o type

Declarator(s, base) ==
  LET pointed == parsePointer(s, base)
      p       == pointed.s
      inner   == parseDeclarator(advance(p), Placeholder)
      outer   == parseSuffix(expect(inner.s, ")"), pointed.type)
  IN  IF cur(p) = "(" /\ ~isTypeName(p, peek(p)) /\ peek(p) # ")"
      THEN IF inner.type = NoType THEN inner
           ELSE IF outer.type = NoType THEN outer
           ELSE Typed(outer.s, replacePlaceholder(inner.type, outer.type), inner.name)
      ELSE IF cur(p) \in Identifiers
           THEN [parseSuffix(advance(p), pointed.type) EXCEPT !.name = cur(p)]
      ELSE parseSuffix(p, pointed.type)

RECURSIVE Parameters(_, _)
\* The parameters so far; `type` is NoType after one that cannot be parsed.
Parameters(s, params) ==
  LET spec == QualifiedTypeSpec(s)
      p    == parseDeclarator(spec.s, spec.type)
      all  == Append(params, [name |-> p.name, type |-> p.type])
      list(t, ps, variadic) == [s |-> t, ok |-> TRUE, params |-> ps, variadic |-> variadic]
      bad(t) == [s |-> t, ok |-> FALSE, params |-> <<>>, variadic |-> FALSE]
  IN  IF cur(s) = "..." THEN list(advance(s), params, TRUE)
      ELSE IF spec.type = NoType THEN bad(error(spec.s))
      ELSE IF p.type = NoType THEN bad(p.s)
      ELSE IF cur(p.s) = "," THEN Parameters(advance(p.s), all)
      ELSE list(p.s, all, FALSE)

parseFuncType(s, ret) ==
  LET open == advance(s)
      list == IF cur(open) = ")"
              THEN [s |-> open, ok |-> TRUE, params |-> <<>>, variadic |-> FALSE]
              ELSE IF cur(open) = "void" /\ peek(open) = ")"
              THEN [s |-> advance(open), ok |-> TRUE, params |-> <<>>, variadic |-> FALSE]
              ELSE Parameters(open, <<>>)
      close == expect(list.s, ")")
  IN  IF ~list.ok THEN Untyped(list.s)
      ELSE IF hasErrors(close) THEN Untyped(close)
      ELSE Typed(close, <<function(list.params, list.variadic, cur(open) # ")")>> \o ret, "")

IsIntLit(node) == node.op = "leaf" /\ node.name \in DOMAIN intLiterals

\* parseArrayType up to the bracket's end: the size, -1 without a bound.
Bound(s) ==
  LET e == parseExpr(s, 0)
      value == intLiterals[e.node.name]
  IN  IF cur(s) = "]" THEN [s |-> s, size |-> -1]
      ELSE IF IsIntLit(e.node)
           THEN IF value = Huge THEN [s |-> error(e.s), size |-> -1]
                ELSE [s |-> e.s, size |-> value]
      ELSE [s |-> IF hasErrors(e.s) THEN e.s ELSE error(e.s), size |-> -1]

parseArrayType(s, elem) ==
  LET bound == Bound(advance(s))
      of    == parseSuffix(expect(bound.s, "]"), elem)
  IN  Typed(of.s, <<array(bound.size)>> \o of.type, "")

\* The suffixes that follow a function's parameters apply to what it returns.
Suffix(s, base) ==
  LET fn  == parseFuncType(s, base)
      ret == parseSuffix(fn.s, Tail(fn.type))
  IN  IF cur(s) = "[" THEN parseArrayType(s, base)
      ELSE IF cur(s) # "(" THEN Typed(s, base, "")
      ELSE IF fn.type = NoType THEN fn
      ELSE Typed(ret.s, <<Head(fn.type)>> \o ret.type, "")

-----------------------------------------------------------------------------
(* Expressions.                                                              *)

RECURSIVE Infix(_, _, _)
\* The loop of parseExpr, with what it has read so far.
Infix(s, lhs, minPrec) ==
  LET prec  == infixPrec(cur(s))
      rhs   == parseExpr(advance(s), IF isRightAssoc(cur(s)) THEN prec ELSE prec + 1)
      then  == parseExpr(advance(s), 0)
      colon == expect(then.s, ":")
      els   == parseExpr(colon, ternaryPrec)
  IN  IF cur(s) = "?"
      THEN IF ternaryPrec < minPrec THEN Returns(s, lhs)
           ELSE IF ~Has(then) THEN then
           ELSE IF hasErrors(colon) THEN NoNode(colon)
           ELSE IF ~Has(els) THEN els
           ELSE Infix(els.s, Node("?", <<lhs, then.node, els.node>>), minPrec)
      ELSE IF prec < minPrec THEN Returns(s, lhs)
      ELSE IF ~Has(rhs) THEN rhs
      ELSE Infix(rhs.s, Node(cur(s), <<lhs, rhs.node>>), minPrec)

Expression(s, minPrec) ==
  LET lhs == parseUnary(s)
  IN  IF Has(lhs) THEN Infix(lhs.s, lhs.node, minPrec) ELSE lhs

SizeofType(type) == [Node("sizeof type", <<>>) EXCEPT !.type = type]

\* The case KW_SIZEOF of parseUnary, behind the keyword.
Sizeof(s) ==
  LET open    == advance(s)
      spec    == QualifiedTypeSpec(open)
      d       == parseDeclarator(spec.s, spec.type)
      e       == parseExpr(open, 0)
      operand == parseUnary(s)
  IN  IF cur(s) # "(" THEN Returns(operand.s, Node("sizeof", <<operand.node>>))
      ELSE IF ~isTypeName(open, cur(open))
           THEN Returns(expect(e.s, ")"), Node("sizeof", <<e.node>>))
      ELSE IF spec.type = NoType THEN Returns(expect(error(spec.s), ")"), SizeofType(NoType))
      ELSE IF d.type = NoType THEN NoNode(d.s)
      ELSE Returns(expect(d.s, ")"), SizeofType(d.type))

parsePrimary(s) ==
  LET inner == parseExpr(advance(s), 0)
      close == expect(inner.s, ")")
  IN  IF cur(s) \in Identifiers \union Literals THEN Returns(advance(s), Leaf(cur(s)))
      ELSE IF cur(s) # "(" THEN NoNode(error(s))
      ELSE IF ~Has(inner) THEN inner
      ELSE IF hasErrors(close) THEN NoNode(close) ELSE Returns(close, inner.node)

RECURSIVE Arguments(_, _)
\* The arguments of a call, each an assignment; `ok` is FALSE after one that
\* cannot be parsed.
Arguments(s, args) ==
  LET arg == parseExpr(s, infixPrec("="))
      all == Append(args, arg.node)
  IN  IF ~Has(arg) THEN [s |-> arg.s, ok |-> FALSE, args |-> <<>>]
      ELSE IF cur(arg.s) = "," THEN Arguments(advance(arg.s), all)
      ELSE [s |-> arg.s, ok |-> TRUE, args |-> all]

Postfixes == {"++", "--"}
Member(base, access, name) == [Node(access, <<base>>) EXCEPT !.name = name]

RECURSIVE parsePostfix(_, _)
parsePostfix(s, base) ==
  LET next  == advance(s)
      args  == IF cur(next) = ")" THEN [s |-> next, ok |-> TRUE, args |-> <<>>]
               ELSE Arguments(next, <<>>)
      close == expect(args.s, ")")
      index == parseExpr(next, 0)
  IN  CASE cur(s) = "(" ->
             IF ~args.ok THEN NoNode(args.s)
             ELSE IF hasErrors(close) THEN NoNode(close)
             ELSE parsePostfix(close, Node("call", <<base>> \o args.args))
        [] cur(s) = "[" -> parsePostfix(expect(index.s, "]"), Node("index", <<base, index.node>>))
        [] cur(s) \in {".", "->"} ->
             IF cur(next) \notin Identifiers THEN Returns(error(next), base)
             ELSE parsePostfix(advance(next), Member(base, cur(s), cur(next)))
        [] cur(s) \in Postfixes -> parsePostfix(next, Node("post " \o cur(s), <<base>>))
        [] OTHER -> Returns(s, base)

Unary(s) ==
  LET operand == parseUnary(advance(s))
      primary == parsePrimary(s)
  IN  IF cur(s) \in UnaryOps
      THEN IF Has(operand) THEN Returns(operand.s, Node(cur(s), <<operand.node>>)) ELSE operand
      ELSE IF cur(s) = "sizeof" THEN Sizeof(advance(s))
      ELSE IF Has(primary) THEN parsePostfix(primary.s, primary.node) ELSE primary

-----------------------------------------------------------------------------
(* Declarations.                                                             *)

Declaring(kind, sc, kids, d) ==
  [Node(kind, <<Leaf(sc)>> \o kids) EXCEPT !.name = d.name, !.type = d.type]

\* Declares nothing but, maybe, a tag.
TagDecl(d, base) ==
  LET end == expect(d.s, ";")
  IN  IF hasErrors(end) \/ d.type # base \/ Head(base).tag = "" THEN NoNode(end)
      ELSE Returns(end, [Node(Head(base).kind, <<>>) EXCEPT !.name = Head(base).tag,
                                                            !.type = base])

\* fn->params, the type's entry of _functionParams.
ParamNames(type) == {Head(type).params[i].name : i \in DOMAIN Head(type).params}

parseFuncDecl(s, sc, d) ==
  LET body == parseCompoundStmt(Erased(s, ParamNames(d.type)))
  IN  IF cur(s) = "{"
      THEN Returns(TypedefsRestored(body.s, s), Declaring("function", sc, <<body.node>>, d))
      ELSE Returns(expect(s, ";"), Declaring("function", sc, <<Null>>, d))

RECURSIVE SkippedTo(_, _)
\* Both errors of parseVarDecl are followed by what skips the rest, of which
\* the source gives two tokens at most.
SkippedTo(s, ends) == IF isEof(s) \/ cur(s) \in ends THEN s ELSE SkippedTo(advance(s), ends)

parseVarDecl(s, sc, d, global) ==
  LET init  == parseExpr(advance(s), infixPrec("="))
      v     == IF cur(s) # "=" THEN NoNode(s)
               ELSE IF global THEN NoNode(SkippedTo(error(advance(s)), {",", ";"}))
               ELSE init
      after == IF cur(v.s) = "," THEN SkippedTo(error(advance(v.s)), {";"}) ELSE v.s
  IN  Returns(expect(after, ";"), Declaring("variable", sc, <<v.node>>, d))

Declaration(s, global) ==
  LET sc   == IF cur(s) \in StorageClasses THEN cur(s) ELSE ""
      spec == QualifiedTypeSpec(IF sc = "" THEN s ELSE advance(s))
      d    == parseDeclarator(spec.s, spec.type)
  IN  IF spec.type = NoType THEN NoNode(error(spec.s))
      ELSE IF d.type = NoType THEN NoNode(d.s)
      ELSE IF sc = "typedef"
           THEN IF d.name = "" THEN NoNode(error(d.s))
                ELSE Returns(Defined(expect(d.s, ";"), d.name, d.type),
                             Declaring("typedef", sc, <<>>, d))
      ELSE IF d.name = "" THEN TagDecl(d, spec.type)
      ELSE IF Head(d.type).kind = "function"
           THEN IF ~global /\ cur(d.s) = "{" THEN NoNode(error(d.s))
                ELSE parseFuncDecl(d.s, sc, d)
      ELSE parseVarDecl(IF global THEN d.s ELSE Erased(d.s, {d.name}), sc, d, global)

-----------------------------------------------------------------------------
(* Statements.                                                               *)

\* Where a function of the parser returns nullptr after a nullptr or an error.
Good(r) == Has(r) /\ ~hasErrors(r.s)

\* What an if and a while have in common: the condition in parentheses.
Condition(s) ==
  LET open  == expect(s, "(")
      cond  == parseExpr(open, 0)
      close == expect(cond.s, ")")
  IN  IF hasErrors(open) THEN NoNode(open)
      ELSE IF ~Good(cond) THEN NoNode(cond.s)
      ELSE IF hasErrors(close) THEN NoNode(close) ELSE Returns(close, cond.node)

parseIfStmt(s) ==
  LET cond == Condition(advance(s))
      then == parseStmt(cond.s)
      els  == parseStmt(advance(then.s))
  IN  IF ~Has(cond) THEN cond
      ELSE IF ~Good(then) THEN NoNode(then.s)
      ELSE IF cur(then.s) # "else" THEN Returns(then.s, Node("if", <<cond.node, then.node>>))
      ELSE IF ~Good(els) THEN NoNode(els.s)
      ELSE Returns(els.s, Node("if", <<cond.node, then.node, els.node>>))

parseWhileStmt(s) ==
  LET cond == Condition(advance(s))
      body == parseStmt(cond.s)
  IN  IF ~Has(cond) THEN cond
      ELSE IF ~Good(body) THEN NoNode(body.s)
      ELSE Returns(body.s, Node("while", <<cond.node, body.node>>))

\* A clause of a for, which may be empty, and the token behind it.
Clause(s, end) ==
  LET e     == IF cur(s) = end THEN Returns(s, Null) ELSE parseExpr(s, 0)
      close == expect(e.s, end)
  IN  IF cur(s) # end /\ ~Good(e) THEN [s |-> e.s, ok |-> FALSE, node |-> Null]
      ELSE [s |-> close, ok |-> ~hasErrors(close), node |-> e.node]

parseForStmt(s) ==
  LET open == expect(advance(s), "(")
      decl == parseDecl(open, FALSE)
      init == IF isTypeName(open, cur(open))
              THEN [s |-> decl.s, ok |-> Good(decl), node |-> decl.node] ELSE Clause(open, ";")
      cond == Clause(init.s, ";")
      incr == Clause(cond.s, ")")
      body == parseStmt(incr.s)
      fail(t) == NoNode(TypedefsRestored(t, s))
  IN  IF hasErrors(open) THEN fail(open)
      ELSE IF ~init.ok THEN fail(init.s)
      ELSE IF ~cond.ok THEN fail(cond.s)
      ELSE IF ~incr.ok THEN fail(incr.s)
      ELSE IF ~Good(body) THEN fail(body.s)
      ELSE Returns(TypedefsRestored(body.s, s),
                   Node("for", <<init.node, cond.node, incr.node, body.node>>))

parseReturnStmt(s) ==
  LET value == IF cur(advance(s)) = ";" THEN NoNode(advance(s)) ELSE parseExpr(advance(s), 0)
  IN  Returns(IF hasErrors(value.s) THEN value.s ELSE expect(value.s, ";"),
              Node("return", <<value.node>>))

Statement(s) ==
  LET jump == expect(advance(s), ";")
      e    == parseExpr(s, 0)
  IN  CASE cur(s) = "if"     -> parseIfStmt(s)
        [] cur(s) = "while"  -> parseWhileStmt(s)
        [] cur(s) = "for"    -> parseForStmt(s)
        [] cur(s) = "{"      -> parseCompoundStmt(s)
        [] cur(s) = "return" -> parseReturnStmt(s)
        [] cur(s) \in {"break", "continue"} ->
             IF hasErrors(jump) THEN NoNode(jump) ELSE Returns(jump, Node(cur(s), <<>>))
        [] cur(s) = ";" -> Returns(advance(s), Node("expr", <<Null>>))
        [] OTHER -> Returns(IF hasErrors(e.s) THEN e.s ELSE expect(e.s, ";"),
                            Node("expr", <<e.node>>))

RECURSIVE Items(_, _)
\* The loop of parseCompoundStmt.
Items(s, items) ==
  LET item == IF isTypeName(s, cur(s)) THEN parseDecl(s, FALSE) ELSE parseStmt(s)
  IN  IF cur(s) = "}" \/ isEof(s) \/ hasErrors(s) \/ ~Has(item)
      THEN [s |-> IF cur(s) = "}" \/ isEof(s) \/ hasErrors(s) THEN s ELSE item.s,
            items |-> items]
      ELSE Items(item.s, Append(items, item.node))

Block(s) ==
  LET open == expect(s, "{")
      list == Items(open, <<>>)
      end  == IF hasErrors(list.s) THEN list.s ELSE expect(list.s, "}")
  IN  Returns(TypedefsRestored(end, open), Node("block", list.items))

Parse(what, s, arg) ==
  CASE what = "expression"  -> Expression(s, arg)
    [] what = "unary"       -> Unary(s)
    [] what = "specifiers"  -> Specs(s)
    [] what = "declarator"  -> Declarator(s, arg)
    [] what = "suffix"      -> Suffix(s, arg)
    [] what = "declaration" -> Declaration(s, arg)
    [] what = "statement"   -> Statement(s)
    [] what = "block"       -> Block(s)

-----------------------------------------------------------------------------
(* The translation unit.                                                     *)

RECURSIVE SyncToType(_)
SyncToType(s) ==
  IF isEof(s) \/ isTypeName(s, cur(s)) THEN s
  ELSE SyncToType([advance(s) EXCEPT !.skipped = @ \union {s.pos}])

RECURSIVE syncToNextDecl(_)
syncToNextDecl(s) ==
  IF isEof(s) \/ isTypeName(s, cur(s)) THEN s
  ELSE IF cur(s) = ";" THEN advance(s)
  ELSE syncToNextDecl([advance(s) EXCEPT !.skipped = @ \union {s.pos}])

RECURSIVE Declarations(_, _)
Declarations(s, decls) ==
  LET d == parseDecl(s, TRUE)
  IN  IF isEof(s) \/ hasErrors(s) THEN [s |-> s, decls |-> decls]
      ELSE IF cur(s) = ";" THEN Declarations(advance(s), decls)
      ELSE IF Has(d) THEN Declarations(d.s, Append(decls, d.node))
      ELSE Declarations(syncToNextDecl(d.s), decls)

parse(tokens) == Declarations(Reading(tokens), <<>>)

-----------------------------------------------------------------------------
(* Texts.                                                                    *)

Written  == family.before \o FlattenSeq(text)
Complete == Written \o family.after

TextInit == /\ family \in Families
            /\ text = <<>>

\* The end of the text is all that is missing.
EndsEarly(s) == ~hasErrors(s) \/ s.at > Len(Written)
Unfinished == EndsEarly(parse(Written).s)

Extend == /\ Len(text) < family.most
          /\ Unfinished
          /\ \E piece \in family.pieces : text' = Append(text, piece)
          /\ UNCHANGED family

TextNext == Extend
=============================================================================
