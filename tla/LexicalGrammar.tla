---------------------------- MODULE LexicalGrammar ----------------------------
(* What the tokens of a text are, by the rules of C and without a loop: the  *)
(* translation phases 1 to 3 and the lexical grammar of C99, 5.1.1.2 and     *)
(* 6.4; and what is promised of the tokens found.                            *)
EXTENDS Tokenizer

LOCAL INSTANCE SequencesExt

(* Phases 1 and 2: one character for every line end, and no backslash before *)
(* one.                                                                      *)

SecondHalf(i) == i > 1 /\ IsPair(content, i - 1)
InSplice(i)   == \E j \in DOMAIN content : AtSplice(content, j) /\ i \in j .. BehindLineEnd(content, j + 1) - 1
KeptOffsets         == SelectSeq([i \in DOMAIN content |-> i], LAMBDA i : ~SecondHalf(i) /\ ~InSplice(i))
KeptText      == [k \in DOMAIN KeptOffsets |-> IF AtLineEnd(content, KeptOffsets[k]) THEN LF ELSE content[KeptOffsets[k]]]

-----------------------------------------------------------------------------
(* Phase 3: what a word is.                                                  *)

IsIdentifier(w) == w[1] \in Alphabetic /\ \A i \in DOMAIN w : w[i] \in Alphanumeric
IsNumber(w) ==
  /\ w[1] \in Digits \/ (Len(w) > 1 /\ w[1] = "." /\ w[2] \in Digits)
  /\ \A i \in 2 .. Len(w) : \/ w[i] \in Alphanumeric \union {"."}
                            \/ w[i] \in {"+", "-"} /\ w[i - 1] \in {"e", "E", "p", "P"}

\* Behind an odd number of backslashes.
IsEscaped(w, i) == \E j \in 1 .. i - 1 : /\ (i - j) % 2 = 1
                                         /\ \A q \in j .. i - 1 : w[q] = Backslash
                                         /\ j > 1 => w[j - 1] # Backslash
IsLiteral(w) ==
  /\ Len(w) > 1 /\ w[1] \in QuoteMarks
  /\ \A i \in 2 .. Len(w) : w[i] # LF /\ (w[i] = w[1] /\ ~IsEscaped(w, i) <=> i = Len(w))

\* 6.4.6
PunctuatorsOfC ==
  {<<c>> : c \in {"[", "]", "(", ")", "{", "}", ".", "&", "*", "+", "-", "~", "!", "/", "%", "<", ">",
                  "^", "|", "?", ":", ";", "=", ",", "#"}}
  \union {<<c, c>> : c \in {"+", "-", "<", ">", "=", "&", "|", "#"}}
  \union {<<c, "=">> : c \in {"<", ">", "!", "*", "/", "%", "+", "-", "&", "^", "|"}}
  \union {<<"-", ">">>, <<".", ".", ".">>, <<"<", "<", "=">>, <<">", ">", "=">>}
SpellingOf == [w \in PunctuatorsOfC |-> w] @@ digraphs

IsHeader(w) ==
  /\ Len(w) > 1
  /\ <<w[1], w[Len(w)]>> \in {<<"<", ">">>, <<"\"", "\"">>}
  /\ \A i \in 2 .. Len(w) - 1 : w[i] # LF /\ w[i] # w[Len(w)]

\* What a word is, headers being looked for or not; the longest is taken.
Kinds(w, include) ==
  {k \in {"header", "identifier", "number", "string", "character", "punct"} :
     CASE k = "header"     -> include /\ IsHeader(w)
       [] k = "identifier" -> IsIdentifier(w)
       [] k = "number"     -> IsNumber(w)
       [] k = "string"     -> ~include /\ IsLiteral(w) /\ w[1] = "\""
       [] k = "character"  -> IsLiteral(w) /\ w[1] = "'"
       [] k = "punct"      -> w \in DOMAIN SpellingOf /\ ~(include /\ w[1] = "<")}

\* Comments are blanks.
IsComment(w) ==
  \/ /\ Len(w) > 3 /\ SubSeq(w, 1, 2) = <<"/", "*">> /\ SubSeq(w, Len(w) - 1, Len(w)) = <<"*", "/">>
     /\ \A i \in 3 .. Len(w) - 2 : ~(w[i] = "*" /\ w[i + 1] = "/")
  \/ lineComments /\ Len(w) > 1 /\ w[1] = "/" /\ w[2] = "/" /\ \A i \in DOMAIN w : w[i] # LF
IsBlank(w) == w \in {<<c>> : c \in Blanks \ {LF}} \/ IsComment(w)

\* The line so far: "" when it is empty, "#" and "include" behind these words.
AfterWord(line, w) == CASE line = "" /\ w = Directive      -> "#"
                        [] line = "#" /\ w = Include       -> "include"
                        [] OTHER                           -> "other"

Word(kind, w, s, first, lead) ==
  [kind |-> kind, text |-> w, originalSpelling |-> SubSeq(s, first, first + Len(w) - 1), first |-> first,
   leadingSpace |-> lead]

\* Every token of s is the longest word that can be read; quotes that are not
\* closed, and comments, are refused, and what is no word stands for itself.
WordsOf(s) ==
  LET Words(i, include) == {j \in i .. Len(s) : Kinds(SubSeq(s, i, j), include) # {}}
      Passed(i)         == {j \in i .. Len(s) : IsBlank(SubSeq(s, i, j))}
      from[i \in 1 .. Len(s) + 1, line \in {"", "#", "include", "other"}, lead \in BOOLEAN] ==
        LET include == line = "include"
            w       == SubSeq(s, i, Max(Words(i, include)))
            spelled == IF w \in DOMAIN SpellingOf THEN SpellingOf[w] ELSE w
            kind    == CHOOSE k \in Kinds(w, include) : TRUE
            Alone(k) == [Word(k, <<s[i]>>, s, i, lead /\ k = "other") EXCEPT !.first = i]
        IN  CASE i > Len(s) -> <<>>
              [] i <= Len(s) /\ s[i] = LF -> <<Alone("newline")>> \o from[i + 1, "", FALSE]
              [] Passed(i) # {} -> from[Max(Passed(i)) + 1, line, TRUE]
              [] i <= Len(s) /\ AtComment(s, i, "*") /\ Passed(i) = {} -> <<Alone("refused")>>
              [] OTHER ->
                   IF Words(i, include) # {}
                   THEN <<[Word(kind, w, s, i, lead) EXCEPT !.text = spelled]>>
                        \o from[i + Len(w), AfterWord(line, spelled), FALSE]
                   ELSE IF s[i] \in QuoteMarks \/ (include /\ s[i] = "<") THEN <<Alone("refused")>>
                   ELSE <<Alone("other")>> \o from[i + 1, "other", FALSE]
  IN  from[1, "", FALSE]

-----------------------------------------------------------------------------
Done == reading \in {"tokenized", "refused"}

Observed(token) == [field \in {"kind", "text", "originalSpelling", "first", "leadingSpace"} |-> token[field]]

(* TokenizesAsC: the loops of normalize and tokenize find the tokens the     *)
(* rules of C find, spelled alike and with the same white space between      *)
(* them, and refuse the texts in which a comment, a literal or a header name *)
(* has no end, at its beginning.                                             *)
TokenizesAsC ==
  Done =>
    LET words == WordsOf(KeptText)
    IN  /\ text = KeptText /\ origins = KeptOffsets
        /\ IF reading = "tokenized" THEN [k \in DOMAIN tokens |-> Observed(tokens[k])] = words
           ELSE words # <<>> /\ Last(words).kind = "refused" /\ Last(words).first = complaint

-----------------------------------------------------------------------------
HasDirective == \E k \in DOMAIN tokens : /\ tokens[k].text = Directive
                                         /\ k > 1 => tokens[k - 1].kind = "newline"
\* The lines that are no directives, joined: the end of a line is a space.
OnOneLine ==
  SelectSeq([k \in DOMAIN tokens |->
               [tokens[k] EXCEPT !.leadingSpace = @ \/ (k > 1 /\ tokens[k - 1].kind = "newline")]],
            LAMBDA t : t.kind # "newline")
WrittenPlainly == /\ ~HasDirective
                  /\ \A k \in DOMAIN tokens : tokens[k].originalSpelling = tokens[k].text
                  /\ \A i \in DOMAIN content : ~AtSplice(content, i)

SameToken(a, b) == /\ a.kind = b.kind /\ a.text = b.text /\ a.value = b.value
                   /\ ~LoneReturn => a.loc = b.loc

(* LexersAgree: --dump-tokens shows what the parser is given: where a file   *)
(* has no directives, splices and digraphs and all its preprocessing tokens  *)
(* are tokens of C, the Lexer reads the same tokens from the file itself, of *)
(* the same values and at the same places.                                   *)
LexersAgree ==
  reading = "tokenized" /\ WrittenPlainly =>
    LET program == [k \in DOMAIN OnOneLine |-> convert(OnOneLine[k])]
        dumped  == tokenizeAll(Lexing(content, FirstPlace, <<>>, lineComments))
    IN  (\A k \in DOMAIN program : ~IsError(program[k])) =>
          /\ Len(dumped) = Len(program) + 1 /\ IsEof(Last(dumped))
          /\ \A k \in DOMAIN program : SameToken(program[k], dumped[k])

(* DiagnosticsPoint: every token, and every complaint about one, is located  *)
(* where it begins in the file; one about an escape sequence at its          *)
(* backslash, also when the literal is continued on further lines.           *)
DiagnosticsPoint ==
  /\ reading = "refused" => /\ Shows(locations[complaint], origins[complaint])
                            /\ text[complaint] \in {"/", "\"", "'", "<"}
  /\ reading = "tokenized" /\ ~HasDirective =>
       \A k \in DOMAIN OnOneLine :
         LET raw   == OnOneLine[k]
             token == convert(raw)
         IN  \E i \in raw.first .. raw.first + Len(raw.originalSpelling) - 1 :
               /\ Shows(token.loc, origins[i])
               /\ i = raw.first \/ (IsError(token) /\ text[i] = Backslash)

\* The characters of an argument, with one space where there was any.
Spoken(argument) ==
  FlattenSeq([k \in DOMAIN argument |->
                (IF k > 1 /\ argument[k].leadingSpace THEN <<" ">> ELSE <<>>)
                \o argument[k].originalSpelling])

Means(literal, value) ==
  LET lexer == Lexing(literal, FirstPlace, <<>>, lineComments)
      token == LexNext(lexer, 1)
  IN  token.kind = "string" /\ token.value = value /\ IsEof(LexNext(lexer, token.end))

(* QuotingIsUndone: the string literal that # makes of an argument, and the  *)
(* one a predefined macro makes of a file's name, are read back as one token *)
(* whose value is the text that was quoted.  A backslash outside of literals *)
(* is no token of C.                                                         *)
QuotingIsUndone ==
  /\ (reading = "tokenized" /\ ~HasDirective
        /\ \A k \in DOMAIN tokens : tokens[k].text # <<Backslash>>) =>
       Means(stringify(OnOneLine), Spoken(OnOneLine))
  /\ Done => Means(quote(content), content)
=============================================================================
