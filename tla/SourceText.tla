----------------------------- MODULE SourceText ------------------------------
(* Where a character stands.  Lines are counted three times: by the table    *)
(* from which a diagnostic takes the line it prints (addSource), by the      *)
(* normalisation of a file before it is preprocessed, which takes spliced    *)
(* lines together and makes every line end one character, and by the Lexer   *)
(* that reads a file as it is.  All must mean the same place.  Every step    *)
(* is one turn of one of the three loops.                                    *)
(*                                                                           *)
(* Offsets are counted from 1, the first character, and not from 0.          *)
EXTENDS Integers, Sequences

CONSTANTS Characters, \* elements of a source text
          Contents    \* the files that are read

LF        == "lf"
CR        == "cr"
Backslash == "backslash"
LineEnds  == {LF, CR}

ASSUME CharactersAssumption == Contents \subseteq Seq(Characters)

VARIABLES content,    \* SourceFile::content, which never changes
          reading,    \* whose loop runs
          at,         \* its index
          lineStarts, \* the table of the DiagnosticEngine
          place,      \* line and column of the loop's next character
          text,       \* Input::text; what the Lexer has passed
          locations,  \* where each element of text was found
          origins     \* history: the offset of each of them in content

sourceVars == <<content, reading, at, lineStarts, place, text, locations, origins>>

Location   == [line : Nat \ {0}, col : Nat \ {0}]
FirstPlace == [line |-> 1, col |-> 1]

CharAt(s, i)     == IF i <= Len(s) THEN s[i] ELSE "eof"
MoreOf(s)        == at <= Len(s)
IsPair(s, i)     == CharAt(s, i) = CR /\ CharAt(s, i + 1) = LF
\* The offset behind the line end at i, of which "\r\n" is one.
BehindLineEnd(s, i) == IF IsPair(s, i) THEN i + 2 ELSE i + 1
AtLineEnd(s, i)  == CharAt(s, i) \in LineEnds

NextLine(p)   == [line |-> p.line + 1, col |-> 1]
NextColumn(p) == [p EXCEPT !.col = @ + 1]

Turns(loop) == /\ reading = loop
               /\ MoreOf(content)
               /\ UNCHANGED <<content, reading>>

-----------------------------------------------------------------------------
(* addSource                                                                 *)

Tabulate == /\ Turns("table")
            /\ UNCHANGED <<place, text, locations, origins>>

StartLine == /\ Tabulate
             /\ AtLineEnd(content, at)
             /\ at' = BehindLineEnd(content, at)
             /\ lineStarts' = Append(lineStarts, BehindLineEnd(content, at))

PassCharacter == /\ Tabulate
                 /\ ~AtLineEnd(content, at)
                 /\ at' = at + 1
                 /\ UNCHANGED lineStarts

\* The file is in the table before anyone reads it.  The preprocessor and the
\* Lexer's own reading of a file (--dump-tokens) are two modes of the driver.
BeginReading ==
  /\ reading = "table"
  /\ ~MoreOf(content)
  /\ reading' \in {"normalize", "lex"}
  /\ at' = 1
  /\ UNCHANGED <<content, lineStarts, place, text, locations, origins>>

-----------------------------------------------------------------------------
(* normalize                                                                 *)

AtSplice(s, i) == CharAt(s, i) = Backslash /\ AtLineEnd(s, i + 1)

Keep(c) == /\ text' = Append(text, c)
           /\ locations' = Append(locations, place)
           /\ origins' = Append(origins, at)

Normalize == Turns("normalize") /\ UNCHANGED lineStarts

SpliceInLine == /\ Normalize
                /\ AtSplice(content, at)
                /\ at' = BehindLineEnd(content, at + 1)
                /\ place' = NextColumn(place)
                /\ UNCHANGED <<text, locations, origins>>

Splice == /\ Normalize
          /\ AtSplice(content, at)
          /\ at' = BehindLineEnd(content, at + 1)
          /\ place' = NextLine(place)
          /\ UNCHANGED <<text, locations, origins>>

EndLine == /\ Normalize
           /\ AtLineEnd(content, at)
           /\ Keep(LF)
           /\ at' = BehindLineEnd(content, at)
           /\ place' = NextLine(place)

KeepCharacter == /\ Normalize
                 /\ ~AtSplice(content, at)
                 /\ ~AtLineEnd(content, at)
                 /\ Keep(content[at])
                 /\ at' = at + 1
                 /\ place' = NextColumn(place)

-----------------------------------------------------------------------------
(* Lexer::advance                                                            *)

Advanced(p, c) == IF c = LF THEN NextLine(p) ELSE NextColumn(p)

Advance == /\ Turns("lex")
           /\ Keep(content[at])
           /\ at' = at + 1
           /\ place' = Advanced(place, content[at])
           /\ UNCHANGED lineStarts

-----------------------------------------------------------------------------
SourceInit == /\ content \in Contents
              /\ reading = "table"
              /\ at = 1
              /\ lineStarts = <<1>>
              /\ place = FirstPlace
              /\ text = <<>> /\ locations = <<>> /\ origins = <<>>

SourceNext == \/ StartLine \/ PassCharacter \/ BeginReading
              \/ Splice \/ EndLine \/ KeepCharacter
              \/ Advance

SourceSpec == SourceInit /\ [][SourceNext]_sourceVars

-----------------------------------------------------------------------------
\* What render shows of a diagnostic: the line from its start in the table up
\* to a line end, and a caret under the column.
Shows(p, offset) ==
  /\ p.line \in DOMAIN lineStarts
  /\ offset = lineStarts[p.line] + p.col - 1
  /\ \A q \in lineStarts[p.line] .. offset - 1 : ~AtLineEnd(content, q)

\* The Lexer takes only "\n" for the end of a line.
LoneReturn == \E i \in DOMAIN content : content[i] = CR /\ ~IsPair(content, i)
CountsLines == (reading = "normalize") \/ (reading = "lex" /\ ~LoneReturn)

(* LocationsPoint: a diagnostic for any character of a file, spliced lines   *)
(* and every kind of line end before it, is shown at that character, for the *)
(* place the preprocessor or the Lexer has counted is one of the line table; *)
(* so is one for the end of the file.                                        *)
LocationsPoint ==
  CountsLines =>
    /\ \A k \in DOMAIN text : ~(text[k] \in LineEnds) => Shows(locations[k], origins[k])
    /\ ~MoreOf(content) => Shows(place, at)
=============================================================================
