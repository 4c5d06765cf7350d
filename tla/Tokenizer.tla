------------------------------ MODULE Tokenizer -------------------------------
(* From a file to preprocessing tokens (tokenize in Preprocessor.cpp), from  *)
(* these to tokens of C (Preprocessor::next), and back to text (stringify,   *)
(* quote).  Every action is one turn of the loop of tokenize, over the text  *)
(* that normalize has left (SourceText).                                     *)
EXTENDS Lexer, TLC

LOCAL INSTANCE SequencesExt

VARIABLES lineComments, \* LangOptions::allowLineComments
          tokens,       \* the tokens found
          space,        \* whether white space came before
          lineStart,    \* how many tokens the earlier lines have
          complaint     \* the offsets in text of the error, if there was one

tokenVars == <<sourceVars, lineComments, tokens, space, lineStart, complaint>>
scanVars  == <<tokens, space, lineStart, complaint>>

-----------------------------------------------------------------------------
(* The loop.  A turn begins at the character at.                             *)

ThisChar == CharAt(text, at)
NextChar == CharAt(text, at + 1)

Turn == /\ reading = "tokenize"
        /\ MoreOf(text)
        /\ UNCHANGED <<content, lineStarts, place, text, locations, origins, lineComments>>

Goto(i) == at' = i /\ UNCHANGED <<reading, complaint>>

NotLocated(kind, first, end) == <<>>
\* Where each character of a literal was found.
SpellingLocations(kind, first, end) ==
  IF kind \in {"string", "character"} THEN SubSeq(locations, first, end - 1) ELSE <<>>

PPToken(kind, first, end, spelling) ==
  [kind |-> kind, text |-> spelling, loc |-> locations[first], leadingSpace |-> space,
   originalSpelling |-> SubSeq(text, first, end - 1), first |-> first,
   spellingLocations |-> SpellingLocations(kind, first, end)]

Push(kind, end, spelling) == /\ tokens' = Append(tokens, PPToken(kind, at, end, spelling))
                             /\ space' = FALSE
                             /\ Goto(end)

\* An error leaves no tokens.
Refuse == /\ reading' = "refused"
          /\ complaint' = at
          /\ tokens' = <<>>
          /\ UNCHANGED <<at, space, lineStart>>

PassTo(i) == Goto(i) /\ space' = TRUE /\ UNCHANGED <<tokens, lineStart>>

Newline == /\ Turn
           /\ ThisChar = LF
           /\ tokens' = Append(tokens, [PPToken("newline", at, at + 1, <<LF>>) EXCEPT !.leadingSpace = FALSE])
           /\ lineStart' = Len(tokens')
           /\ space' = FALSE
           /\ Goto(at + 1)

Blank == /\ Turn
         /\ ThisChar \in Blanks \ {LF}
         /\ PassTo(at + 1)

BlockComment == /\ Turn
                /\ AtComment(text, at, "*")
                /\ IF CommentEnds(text, at) = {} THEN Refuse ELSE PassTo(BehindComment(text, at))

LineComment == /\ Turn
               /\ lineComments
               /\ AtComment(text, at, "/")
               /\ PassTo(Until(text, at, {LF}))

-----------------------------------------------------------------------------
(* Tokens.                                                                   *)

AtToken == /\ Turn
           /\ ThisChar \notin Blanks
           /\ ~AtComment(text, at, "*")
           /\ ~(lineComments /\ AtComment(text, at, "/"))
           /\ UNCHANGED lineStart

Directive == <<"#">>
Include   == <<"include">>
\* The third token of the line, behind "# include".
header == /\ Len(tokens) = lineStart + 2
          /\ tokens[lineStart + 1].text = Directive
          /\ tokens[lineStart + 2].text = Include
AtHeader == header /\ ThisChar \in {"<", "\""}

\* Up to the closing character, which must come before the line ends.
Delimited(kind, close, end) ==
  IF CharAt(text, end) = close THEN Push(kind, end + 1, SubSeq(text, at, end)) ELSE Refuse

HeaderName == /\ AtToken
              /\ AtHeader
              /\ LET close == IF ThisChar = "<" THEN ">" ELSE "\""
                 IN  Delimited("header", close, Until(text, at + 1, {close, LF}))

Taken(kind, end) == Push(kind, end, SubSeq(text, at, end - 1))

Name == /\ AtToken
        /\ ThisChar \in Alphabetic
        /\ Taken("identifier", Past(text, at, Alphanumeric))

\* A sign continues a number behind the letter of an exponent.
ContinuesNumber(s, j) == \/ s[j] \in Alphanumeric \union {"."}
                         \/ s[j] \in Signs /\ s[j - 1] \in {"e", "E", "p", "P"}
BehindNumber(s, i) == Min({j \in i + 1 .. Len(s) + 1 : j <= Len(s) => ~ContinuesNumber(s, j)})

Number == /\ AtToken
          /\ BeginsNumber(text, at)
          /\ Taken("number", BehindNumber(text, at))

\* Where a literal that began before i closes, or fails to.
ClosesAt(s, i, mark) ==
  LET from[j \in i .. Len(s) + 1] ==
        IF CharAt(s, j) \in {mark, LF, "eof"} THEN j
        ELSE IF s[j] = Backslash /\ CharAt(s, j + 1) \notin {LF, "eof"} THEN from[j + 2]
        ELSE from[j + 1]
  IN  from[i]

Literal == /\ AtToken
           /\ ThisChar \in QuoteMarks
           /\ ~AtHeader
           /\ Delimited(IF ThisChar = "'" THEN "character" ELSE "string", ThisChar,
                        ClosesAt(text, at + 1, ThisChar))

\* In the order in which they are tried.
punctuators ==
  << <<"%", ":", "%", ":">>, <<"<", "<", "=">>, <<">", ">", "=">>, <<".", ".", ".">>, <<"#", "#">>,
     <<"+", "+">>, <<"-", "-">>, <<"-", ">">>, <<"&", "&">>, <<"|", "|">>, <<"<", "=">>, <<">", "=">>,
     <<"=", "=">>, <<"!", "=">>, <<"<", "<">>, <<">", ">">>, <<"+", "=">>, <<"-", "=">>, <<"*", "=">>,
     <<"/", "=">>, <<"%", "=">>, <<"&", "=">>, <<"|", "=">>, <<"^", "=">>, <<"<", "%">>, <<"%", ">">>,
     <<"<", ":">>, <<":", ">">>, <<"%", ":">> >>

Matches(s, i, spelling) == Excerpt(s, i, i + Len(spelling) - 1) = spelling
Found(s, i) == {k \in DOMAIN punctuators : Matches(s, i, punctuators[k])}
Punct(s, i) == IF Found(s, i) = {} THEN <<s[i]>> ELSE punctuators[Min(Found(s, i))]

\* The other spellings of six tokens.
digraphs == (<<"%", ":">> :> <<"#">>) @@ (<<"%", ":", "%", ":">> :> <<"#", "#">>)
            @@ (<<"<", "%">> :> <<"{">>) @@ (<<"%", ">">> :> <<"}">>)
            @@ (<<"<", ":">> :> <<"[">>) @@ (<<":", ">">> :> <<"]">>)
Canonical(spelling) == IF spelling \in DOMAIN digraphs THEN digraphs[spelling] ELSE spelling

Punctuator == /\ AtToken
              /\ ~AtHeader
              /\ ThisChar \notin Alphabetic \union QuoteMarks
              /\ ~BeginsNumber(text, at)
              /\ LET punct == Punct(text, at)
                     kind  == IF Len(punct) > 1 \/ ThisChar \in OneLong THEN "punct" ELSE "other"
                 IN  Push(kind, at + Len(punct), Canonical(punct))

-----------------------------------------------------------------------------
(* What becomes of the tokens.                                               *)

\* Preprocessor::next: a preprocessing token must be one token of C.
convert(raw) ==
  LET lexer == Lexing(raw.text, raw.loc, raw.spellingLocations, lineComments)
      token == LexNext(lexer, 1)
  IN  IF ~IsError(token) /\ ~IsEof(LexNext(lexer, token.end)) THEN Error(lexer, 1) ELSE token

EscapesQuotesOnly(part, c) ==
  part.kind \in {"string", "character"} /\ c = "\""
IsToEscape(part, c) ==
  part.kind \in {"string", "character"} /\ c \in {Backslash, "\""}

\* The operator # spells its argument.
stringify(argument) ==
  LET written(part, c) == IF IsToEscape(part, c) THEN <<Backslash, c>> ELSE <<c>>
      spelled(k) ==
        LET part == argument[k]
        IN  (IF k > 1 /\ part.leadingSpace THEN <<" ">> ELSE <<>>)
            \o FlattenSeq([i \in DOMAIN part.originalSpelling |-> written(part, part.originalSpelling[i])])
  IN  <<"\"">> \o FlattenSeq([k \in DOMAIN argument |-> spelled(k)]) \o <<"\"">>

\* The predefined macros that are strings spell any text.
quote(s) ==
  LET quoted(c) == CASE c = LF -> <<Backslash, "n">> [] c = CR -> <<Backslash, "r">>
                     [] c = Tab -> <<Backslash, "t">> [] c \in {Backslash, "\""} -> <<Backslash, c>>
                     [] OTHER -> <<c>>
  IN  <<"\"">> \o FlattenSeq([i \in DOMAIN s |-> quoted(s[i])]) \o <<"\"">>

-----------------------------------------------------------------------------
BeginTokens == /\ reading = "normalize"
               /\ ~MoreOf(content)
               /\ reading' = "tokenize"
               /\ at' = 1
               /\ UNCHANGED <<content, lineStarts, place, text, locations, origins, lineComments>>
               /\ UNCHANGED scanVars

EndTokens == /\ reading = "tokenize"
             /\ ~MoreOf(text)
             /\ reading' = "tokenized"
             /\ UNCHANGED <<at, content, lineStarts, place, text, locations, origins, lineComments>>
             /\ UNCHANGED scanVars

\* Where no "//" is written the options make no difference.
WritesLineComment(s) == \E i \in DOMAIN s : AtComment(s, i, "/")

TokensInit == /\ SourceInit
              /\ lineComments \in IF WritesLineComment(content) THEN BOOLEAN ELSE {TRUE}
              /\ tokens = <<>> /\ space = FALSE /\ lineStart = 0 /\ complaint = 0

TokensNext == \/ SourceNext /\ UNCHANGED <<lineComments, scanVars>>
              \/ BeginTokens
              \/ Newline \/ Blank \/ BlockComment \/ LineComment
              \/ HeaderName \/ Name \/ Number \/ Literal \/ Punctuator
              \/ EndTokens

TokensSpec == TokensInit /\ [][TokensNext]_tokenVars
=============================================================================
