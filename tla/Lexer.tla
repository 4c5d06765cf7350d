-------------------------------- MODULE Lexer ---------------------------------
(* The Lexer (Lexer.cpp): from characters to tokens of C.  It reads a whole  *)
(* file for --dump-tokens, and the spelling of one preprocessing token when  *)
(* the parser asks the preprocessor for the next token.                      *)
(*                                                                           *)
(* A text is a sequence of characters.  A word in Letters is read like a     *)
(* letter.  Of the values of tokens only those of characters and strings are *)
(* kept; numbers too large for their type and the character 0 are left out.  *)
EXTENDS SourceText, FiniteSetsExt

CONSTANT Letters

Tab == "tab"
NUL == "nul"
Blanks      == {" ", Tab, LF, CR}
Digits      == {"0", "1", "8"}
OctalDigits == {"0", "1"}
HexLetters  == {"a", "b", "c", "d", "e", "f", "A", "B", "C", "D", "E", "F"}
Alphabetic  == Letters \union {"_"}
Alphanumeric == Alphabetic \union Digits
Exponents   == {"e", "E"}
Signs       == {"+", "-"}
NumberSuffixes    == {"u", "U", "l", "L", "f", "F"}
QuoteMarks      == {"\"", "'"}

\* Of the keywords those that are two letters long.
_keywords == {<<"d", "o">>, <<"i", "f">>}

ThreeLong == {<<".", ".", ".">>, <<"<", "<", "=">>, <<">", ">", "=">>}
TwoLong ==
  {<<"#", "#">>, <<"-", ">">>, <<"&", "&">>, <<"|", "|">>, <<"<", "<">>, <<">", ">">>,
   <<"+", "+">>, <<"-", "-">>}
  \union {<<c, "=">> : c \in {"+", "-", "*", "/", "%", "&", "|", "^", "!", "=", "<", ">"}}
OneLong == {"(", ")", "{", "}", "[", "]", ";", ":", ",", "?", "~", ".", "#", "+", "-", "*", "/",
            "%", "&", "|", "^", "!", "=", "<", ">"}

\* The escape sequences, and what they stand for.
Escapes == {"n", "t", "r", "0", Backslash, "'", "\""}
Escaped(c) == CASE c = "n" -> LF [] c = "t" -> Tab [] c = "r" -> CR [] c = "0" -> NUL [] OTHER -> c

\* The offset behind the characters of a class that begin at i.
Past(s, i, class) == Min({j \in i .. Len(s) + 1 : CharAt(s, j) \notin class})
Until(s, i, class) == Min({j \in i .. Len(s) + 1 : CharAt(s, j) \in class \union {"eof"}})
Excerpt(s, i, j) == SubSeq(s, i, IF j <= Len(s) THEN j ELSE Len(s))

-----------------------------------------------------------------------------
(* A lexer knows its text and where each character of it stands: as far as   *)
(* it was told (sourceLocations), else by counting from where it started.    *)

Counted(s, start) ==
  LET where[i \in 1 .. Len(s) + 1] ==
        IF i = 1 THEN start ELSE Advanced(where[i - 1], s[i - 1])
  IN  where

Lexing(s, start, sourceLocations, options) ==
  LET counted == Counted(s, start)
  IN  [src |-> s, allowLineComments |-> options,
       loc |-> [i \in DOMAIN counted |-> IF i \in DOMAIN sourceLocations THEN sourceLocations[i]
                                         ELSE counted[i]]]

\* A token and the offset behind it.
Lexed(l, kind, i, end, spelling, value) ==
  [kind |-> kind, text |-> spelling, value |-> value, loc |-> l.loc[i], end |-> end]
Spelled(l, kind, i, end) == Lexed(l, kind, i, end, SubSeq(l.src, i, end - 1), <<>>)
Error(l, i)     == Lexed(l, "error", i, i, <<>>, <<>>)
EndOfFile(l)    == Lexed(l, "eof", Len(l.src) + 1, Len(l.src) + 1, <<>>, <<>>)
IsError(token)  == token.kind = "error"
IsEof(token)    == token.kind = "eof"

At(l, i) == CharAt(l.src, i)
AtComment(s, i, second) == CharAt(s, i) = "/" /\ CharAt(s, i + 1) = second

CommentEndsEarly(s, i) == {j \in i + 1 .. Len(s) - 1 : s[j] = "*" /\ s[j + 1] = "/"}

\* The offsets at which a block comment that begins at i may end.
CommentEnds(s, i) == {j \in i + 2 .. Len(s) - 1 : s[j] = "*" /\ s[j + 1] = "/"}
BehindComment(s, i) == Min(CommentEnds(s, i)) + 2

StopsAtNewline   == {LF}
LineCommentStops == LineEnds

\* Behind white space and comments; a comment without an end stops it.
skipWhiteSpaceAndComments(l, i) ==
  LET skip[j \in i .. Len(l.src) + 1] ==
        IF At(l, j) \in Blanks THEN skip[j + 1]
        ELSE IF l.allowLineComments /\ AtComment(l.src, j, "/") THEN skip[Until(l.src, j, LineCommentStops)]
        ELSE IF AtComment(l.src, j, "*") /\ CommentEnds(l.src, j) # {} THEN skip[BehindComment(l.src, j)]
        ELSE j
  IN  skip[i]

lexIdent(l, i) ==
  LET end  == Past(l.src, i, Alphanumeric)
      word == SubSeq(l.src, i, end - 1)
  IN  Spelled(l, IF word \in _keywords THEN "keyword" ELSE "identifier", i, end)

-----------------------------------------------------------------------------
(* Numbers.                                                                  *)

lexHexadecimal(l, i) ==
  LET end == Past(l.src, i + 2, Digits \union HexLetters)
  IN  [kind |-> "int", end |-> end, valid |-> end > i + 2]

\* The exponent that may begin at i.
lexExponent(l, i) ==
  LET first == IF At(l, i + 1) \in Signs THEN i + 2 ELSE i + 1
      end   == Past(l.src, first, Digits)
  IN  IF At(l, i) \in Exponents THEN [float |-> TRUE, end |-> end, valid |-> end > first]
      ELSE [float |-> FALSE, end |-> i, valid |-> TRUE]

lexDecimal(l, i) ==
  LET whole    == Past(l.src, i, Digits)
      fraction == At(l, whole) = "."
      exponent == lexExponent(l, IF fraction THEN Past(l.src, whole + 1, Digits) ELSE whole)
      octal    == At(l, i) = "0"
  IN  IF fraction \/ exponent.float
      THEN [kind |-> "float", end |-> exponent.end, valid |-> exponent.valid]
      ELSE [kind |-> "int", end |-> whole,
            valid |-> octal => \A j \in i .. whole - 1 : At(l, j) \in OctalDigits]

\* Any letters of suffixes may follow, whatever the number.
lexNumber(l, i) ==
  LET number == IF At(l, i) = "0" /\ At(l, i + 1) \in {"x", "X"} THEN lexHexadecimal(l, i)
                ELSE lexDecimal(l, i)
      end    == Past(l.src, number.end, NumberSuffixes)
  IN  IF number.valid THEN Spelled(l, number.kind, i, end) ELSE Error(l, i)

-----------------------------------------------------------------------------
(* Literals.                                                                 *)

lexChar(l, i) ==
  LET escape == At(l, i + 1) = Backslash
      last   == IF escape THEN i + 2 ELSE i + 1
      value  == IF escape THEN Escaped(At(l, last)) ELSE At(l, last)
  IN  IF At(l, i + 1) \in {"eof", LF} THEN Error(l, i)
      ELSE IF escape /\ At(l, last) \notin Escapes THEN Error(l, i + 1)
      ELSE IF At(l, last + 1) # "'" THEN Error(l, i)
      ELSE Lexed(l, "char", i, last + 2, SubSeq(l.src, i + 1, last), <<value>>)

lexString(l, i) ==
  LET Prefixed(c, token) == [token EXCEPT !.value = <<c>> \o @]
      from[j \in i + 1 .. Len(l.src) + 1] ==
        CASE At(l, j) = "\"" -> Lexed(l, "string", i, j + 1, SubSeq(l.src, i + 1, j - 1), <<>>)
          [] At(l, j) \in {"eof", LF} -> Error(l, i)
          [] At(l, j) = Backslash ->
               IF At(l, j + 1) \in Escapes THEN Prefixed(Escaped(At(l, j + 1)), from[j + 2])
               ELSE Error(l, j)
          [] OTHER -> Prefixed(At(l, j), from[j + 1])
      token == from[i + 1]
  IN  IF IsError(token) THEN [token EXCEPT !.value = <<>>] ELSE token

-----------------------------------------------------------------------------
lexPunct(l, i) ==
  LET Reads(n, spellings) == Excerpt(l.src, i, i + n - 1) \in spellings
  IN  IF Reads(3, ThreeLong) THEN Spelled(l, "punctuator", i, i + 3)
      ELSE IF Reads(2, TwoLong) THEN Spelled(l, "punctuator", i, i + 2)
      ELSE IF At(l, i) \in OneLong THEN Spelled(l, "punctuator", i, i + 1)
      ELSE Error(l, i)

BeginsNumber(s, i) == \/ CharAt(s, i) \in Digits
                      \/ CharAt(s, i) = "." /\ CharAt(s, i + 1) \in Digits

\* Lexer::next
LexNext(l, i) ==
  LET first == skipWhiteSpaceAndComments(l, i)
  IN  CASE At(l, first) = "eof"                -> EndOfFile(l)
        [] AtComment(l.src, first, "*")        -> Error(l, first)
        [] At(l, first) \in Alphabetic         -> lexIdent(l, first)
        [] BeginsNumber(l.src, first)          -> lexNumber(l, first)
        [] At(l, first) = "'"                  -> lexChar(l, first)
        [] At(l, first) = "\""                 -> lexString(l, first)
        [] OTHER                               -> lexPunct(l, first)

tokenizeAll(l) ==
  LET from[i \in 1 .. Len(l.src) + 1] ==
        LET token == LexNext(l, i)
        IN  IF IsEof(token) \/ IsError(token) THEN <<token>> ELSE <<token>> \o from[token.end]
  IN  from[1]
=============================================================================
