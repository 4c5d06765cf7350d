-------------------------- MODULE SourceText_proofs ---------------------------
(* Proof that every character of every file is shown where it stands.  What  *)
(* carries it is that between two entries of the line table no line ends:    *)
(* when the loop of normalize, or the Lexer, steps behind a line end, the    *)
(* place it steps to must be the next entry (NextLineStarts).                *)
EXTENDS SourceText, SequenceTheorems, TLAPS

\* Shows, of any table and content.
ShowsIn(s, starts, p, offset) ==
  /\ p.line \in DOMAIN starts
  /\ offset = starts[p.line] + p.col - 1
  /\ \A q \in starts[p.line] .. offset - 1 : ~AtLineEnd(s, q)

\* Not between "\r" and "\n".
Whole(s, i) == i = 1 \/ ~IsPair(s, i - 1)

\* The table of the first n - 1 characters.
Rising(starts) == \A j, k \in DOMAIN starts : j < k => starts[j] < starts[k]
Listed(s, starts, n) ==
  \A i \in 1 .. n - 1 : AtLineEnd(s, i) => \E k \in DOMAIN starts : starts[k] = BehindLineEnd(s, i)
Genuine(s, starts, n) ==
  \A k \in DOMAIN starts : k = 1 \/ \E i \in 1 .. n - 1 : AtLineEnd(s, i) /\ starts[k] = BehindLineEnd(s, i)
Table(s, starts, n) == /\ 1 \in DOMAIN starts /\ starts[1] = 1
                       /\ Rising(starts)
                       /\ Listed(s, starts, n)
                       /\ Genuine(s, starts, n)
WholeTable(s, starts) == Table(s, starts, Len(s) + 1)

Typed ==
  /\ content \in Seq(Characters)
  /\ reading \in {"table", "normalize", "lex"}
  /\ at \in Nat \ {0}
  /\ at <= Len(content) + 1
  /\ lineStarts \in Seq(Nat \ {0})
  /\ place \in Location
  /\ text \in Seq(Characters \union {LF})
  /\ locations \in Seq(Location) /\ Len(locations) = Len(text)
  /\ origins \in Seq(Nat \ {0}) /\ Len(origins) = Len(text)

Tabulated ==
  /\ reading = "table" =>
       /\ Table(content, lineStarts, at)
       /\ \A k \in DOMAIN lineStarts : lineStarts[k] <= at
       /\ place = FirstPlace /\ text = <<>>
  /\ reading # "table" => WholeTable(content, lineStarts)
  /\ reading # "lex" => Whole(content, at)

\* Where the loop is; between "\r" and "\n" the Lexer is one column too far.
Previous(p) == [p EXCEPT !.col = @ - 1]
Here(s, starts, p, i) ==
  IF Whole(s, i) THEN ShowsIn(s, starts, p, i)
  ELSE p.col > 1 /\ ShowsIn(s, starts, Previous(p), i - 1)
Placed == CountsLines => Here(content, lineStarts, place, at)

ShownBefore ==
  CountsLines =>
    \A k \in DOMAIN text : ~(text[k] \in LineEnds) => Shows(locations[k], origins[k])

IInv == Typed /\ Tabulated /\ Placed /\ ShownBefore

-----------------------------------------------------------------------------
LEMMA Marks == LF # CR /\ LF # Backslash /\ CR # Backslash /\ LF # "eof" /\ CR # "eof"
  BY DEF LF, CR, Backslash

\* Appending to a sequence.
LEMMA Appended ==
  ASSUME NEW S, NEW s \in Seq(S), NEW e \in S
  PROVE  /\ Append(s, e) \in Seq(S)
         /\ Len(Append(s, e)) = Len(s) + 1 /\ Len(s) \in Nat
         /\ DOMAIN Append(s, e) = 1 .. Len(s) + 1 /\ DOMAIN s = 1 .. Len(s)
         /\ \A i \in 1 .. Len(s) : Append(s, e)[i] = s[i]
         /\ Append(s, e)[Len(s) + 1] = e
  BY AppendProperties, LenProperties

\* A line end is one character or two.
LEMMA Widths ==
  ASSUME NEW s, NEW i \in Nat \ {0}
  PROVE  /\ BehindLineEnd(s, i) \in {i + 1, i + 2}
         /\ BehindLineEnd(s, i) = i + 2 <=> IsPair(s, i)
         /\ BehindLineEnd(s, i) \in Nat \ {0}
  BY DEF BehindLineEnd

\* Behind the first character of "\r\n" is a line end, behind that none of it.
LEMMA Pairs ==
  ASSUME NEW s, NEW i \in Nat \ {0}, IsPair(s, i)
  PROVE  /\ AtLineEnd(s, i) /\ AtLineEnd(s, i + 1) /\ ~IsPair(s, i + 1)
         /\ BehindLineEnd(s, i + 1) = BehindLineEnd(s, i)
  BY Marks DEF IsPair, AtLineEnd, LineEnds, BehindLineEnd

\* Behind a line end no pair is open.
LEMMA WholeBehind ==
  ASSUME NEW s, NEW i \in Nat \ {0}, AtLineEnd(s, i)
  PROVE  Whole(s, BehindLineEnd(s, i))
  BY Widths, Pairs, Marks DEF Whole, BehindLineEnd

\* The line that begins behind a line end is the next one of the table.
LEMMA NextLineStarts ==
  ASSUME NEW s \in Seq(Characters), NEW starts \in Seq(Nat \ {0}), WholeTable(s, starts),
         NEW p \in Location, NEW i \in 1 .. Len(s), AtLineEnd(s, i), Whole(s, i),
         ShowsIn(s, starts, p, i)
  PROVE  ShowsIn(s, starts, NextLine(p), BehindLineEnd(s, i)) /\ NextLine(p) \in Location
<1>0. /\ Len(s) \in Nat /\ DOMAIN starts = 1 .. Len(starts) /\ Len(starts) \in Nat
      /\ p.line \in DOMAIN starts /\ p.line \in Nat /\ p.col \in Nat \ {0}
      /\ \A k \in DOMAIN starts : starts[k] \in Nat \ {0}
  BY LenProperties DEF ShowsIn, Location
<1>1. starts[p.line] <= i
  BY <1>0 DEF ShowsIn
<1>2. PICK k \in DOMAIN starts : starts[k] = BehindLineEnd(s, i)
  BY <1>0 DEF WholeTable, Table, Listed
<1>3. p.line < k
  <2>1. starts[p.line] < starts[k]
    BY <1>0, <1>1, <1>2, Widths
  <2>2. ~(k < p.line) /\ k # p.line
    BY <1>0, <2>1 DEF WholeTable, Table, Rising
  <2> QED BY <2>2, <1>0
<1> DEFINE next == p.line + 1
<1>4. next \in DOMAIN starts /\ p.line < next /\ next # 1
  BY <1>0, <1>3
<1>n. starts[next] \in Nat /\ starts[k] \in Nat /\ starts[p.line] \in Nat /\ k \in Nat /\ i \in Nat
  BY <1>0, <1>4
<1>5. starts[next] <= starts[k]
  <2>1. CASE next = k BY <2>1, <1>n
  <2>2. CASE next < k BY <2>2, <1>n, <1>4 DEF WholeTable, Table, Rising
  <2> QED BY <2>1, <2>2, <1>3, <1>n, <1>0
<1>6. starts[p.line] < starts[next]
  BY <1>0, <1>4 DEF WholeTable, Table, Rising
<1>7. PICK j \in 1 .. Len(s) : AtLineEnd(s, j) /\ starts[next] = BehindLineEnd(s, j)
  BY <1>0, <1>4 DEF WholeTable, Table, Genuine
<1>j. j \in Nat \ {0}
  BY <1>0
<1>q. \A q \in starts[p.line] .. i - 1 : ~AtLineEnd(s, q)
  BY DEF ShowsIn
<1>8. j >= i
  <2> SUFFICES ASSUME j < i PROVE FALSE
    BY <1>j, <1>n
  <2>1. j < starts[p.line]
    BY <1>7, <1>q, <1>n, <1>j
  <2>w. /\ BehindLineEnd(s, j) \in {j + 1, j + 2}
        /\ (BehindLineEnd(s, j) = j + 2 <=> IsPair(s, j))
    BY <1>j, Widths
  <2>2. BehindLineEnd(s, j) = j + 2 /\ starts[p.line] = j + 1
    <3>1. starts[p.line] < BehindLineEnd(s, j)
      BY <1>6, <1>7
    <3> HIDE DEF next
    <3> QED BY <3>1, <2>1, <2>w, <1>j, <1>n
  <2>3. IsPair(s, j)
    BY <2>2, <2>w
  <2>4. AtLineEnd(s, starts[p.line])
    <3>1. AtLineEnd(s, j + 1)
      BY <2>3, <1>j, Pairs
    <3> QED BY <3>1, <2>2
  <2>5. i = starts[p.line]
    BY <2>4, <1>q, <1>n, <1>1
  <2> QED BY <2>2, <2>3, <2>5, <1>n DEF Whole
<1>9. starts[next] >= BehindLineEnd(s, i)
  <2>1. CASE j = i BY <2>1, <1>7, <1>n
  <2>2. CASE j > i /\ IsPair(s, i) /\ j = i + 1
    BY <2>2, <1>7, <1>n, Pairs
  <2>3. CASE j > i /\ ~(IsPair(s, i) /\ j = i + 1)
    <3>1. BehindLineEnd(s, j) \in {j + 1, j + 2} /\ BehindLineEnd(s, i) \in {i + 1, i + 2}
          /\ (BehindLineEnd(s, i) = i + 2 <=> IsPair(s, i))
      BY <1>j, Widths
    <3> QED BY <3>1, <2>3, <1>7, <1>n, <1>j
  <2> QED BY <2>1, <2>2, <2>3, <1>8, <1>n, <1>j
<1>10. starts[next] = BehindLineEnd(s, i)
  BY <1>9, <1>5, <1>2, <1>0, <1>4
<1>11. NextLine(p).line = next /\ NextLine(p).col = 1 /\ NextLine(p) \in Location
  BY <1>0 DEF NextLine, Location
<1> QED BY <1>10, <1>11, <1>4, <1>0 DEF ShowsIn
-----------------------------------------------------------------------------
LEMMA Initially == SourceInit => IInv
<1> SUFFICES ASSUME SourceInit PROVE IInv
  OBVIOUS
<1> USE DEF SourceInit
<1>1. /\ Len(<<>>) = 0 /\ <<>> \in Seq(Characters \union {LF}) /\ <<>> \in Seq(Location) /\ <<>> \in Seq(Nat \ {0})
      /\ <<1>> \in Seq(Nat \ {0}) /\ Len(<<1>>) = 1 /\ DOMAIN <<1>> = {1} /\ <<1>>[1] = 1
  BY EmptySeq
<1>2. content \in Seq(Characters) /\ Len(content) \in Nat
  BY CharactersAssumption, LenProperties
<1>3. Typed
  BY <1>1, <1>2 DEF Typed, Location, FirstPlace
<1>4. Tabulated
  <2>1. Table(content, lineStarts, 1)
    BY <1>1 DEF Table, Rising, Listed, Genuine
  <2>2. Whole(content, 1)
    BY DEF Whole
  <2> QED BY <2>1, <2>2, <1>1 DEF Tabulated
<1>5. Placed /\ ShownBefore
  BY DEF Placed, ShownBefore, CountsLines
<1> QED BY <1>3, <1>4, <1>5 DEF IInv
-----------------------------------------------------------------------------
(* Types.                                                                    *)

\* Line ends are characters of the text, and so is what follows a "\r".
LEMMA Inside ==
  ASSUME NEW s \in Seq(Characters), NEW i \in Nat \ {0}, AtLineEnd(s, i)
  PROVE  i <= Len(s) /\ BehindLineEnd(s, i) <= Len(s) + 1 /\ BehindLineEnd(s, i) \in Nat \ {0}
<1>1. Len(s) \in Nat
  BY LenProperties
<1>2. i <= Len(s)
  BY Marks, <1>1 DEF AtLineEnd, CharAt, LineEnds
<1>3. IsPair(s, i) => i + 1 <= Len(s)
  BY Marks, <1>1 DEF IsPair, CharAt
<1> QED BY <1>1, <1>2, <1>3 DEF BehindLineEnd

LEMMA Facts ==
  ASSUME Typed
  PROVE  /\ Len(content) \in Nat /\ Len(lineStarts) \in Nat /\ Len(text) \in Nat
         /\ DOMAIN lineStarts = 1 .. Len(lineStarts) /\ DOMAIN text = 1 .. Len(text)
         /\ at \in Nat \ {0}
         /\ MoreOf(content) => content[at] \in Characters
         /\ MoreOf(content) => CharAt(content, at) = content[at] /\ at \in 1 .. Len(content)
         /\ NextLine(place) \in Location /\ NextColumn(place) \in Location
<1>1. /\ Len(content) \in Nat /\ Len(lineStarts) \in Nat /\ Len(text) \in Nat
      /\ DOMAIN lineStarts = 1 .. Len(lineStarts) /\ DOMAIN text = 1 .. Len(text)
      /\ \A i \in 1 .. Len(content) : content[i] \in Characters
  BY LenProperties DEF Typed
<1>2. at \in Nat \ {0} /\ (MoreOf(content) => at \in 1 .. Len(content))
  BY <1>1 DEF Typed, MoreOf
<1>3. MoreOf(content) => CharAt(content, at) = content[at]
  BY DEF MoreOf, CharAt
<1>4. NextLine(place) \in Location /\ NextColumn(place) \in Location
  <2>1. place \in Location
    BY DEF Typed
  <2>2. NextLine(place) \in Location
    BY <2>1 DEF NextLine, Location
  <2>3. NextColumn(place) \in Location
    BY <2>1 DEF NextColumn, Location
  <2> QED BY <2>2, <2>3
<1> QED BY <1>1, <1>2, <1>3, <1>4

\* One more element of the text.
LEMMA Kept ==
  ASSUME Typed, NEW c \in Characters \union {LF}, Keep(c)
  PROVE  /\ text' \in Seq(Characters \union {LF})
         /\ locations' \in Seq(Location) /\ Len(locations') = Len(text')
         /\ origins' \in Seq(Nat \ {0}) /\ Len(origins') = Len(text')
         /\ DOMAIN text' = 1 .. Len(text) + 1
         /\ text'[Len(text) + 1] = c
         /\ locations'[Len(text) + 1] = place /\ origins'[Len(text) + 1] = at
         /\ \A k \in 1 .. Len(text) : /\ text'[k] = text[k] /\ locations'[k] = locations[k]
                                      /\ origins'[k] = origins[k]
<1>1. Append(text, c) \in Seq(Characters \union {LF}) /\ Len(Append(text, c)) = Len(text) + 1
      /\ DOMAIN Append(text, c) = 1 .. Len(text) + 1 /\ Append(text, c)[Len(text) + 1] = c
      /\ \A k \in 1 .. Len(text) : Append(text, c)[k] = text[k]
  BY Appended DEF Typed
<1>2. Append(locations, place) \in Seq(Location) /\ Len(Append(locations, place)) = Len(text) + 1
      /\ Append(locations, place)[Len(text) + 1] = place
      /\ \A k \in 1 .. Len(text) : Append(locations, place)[k] = locations[k]
  BY Appended DEF Typed
<1>3. Append(origins, at) \in Seq(Nat \ {0}) /\ Len(Append(origins, at)) = Len(text) + 1
      /\ Append(origins, at)[Len(text) + 1] = at
      /\ \A k \in 1 .. Len(text) : Append(origins, at)[k] = origins[k]
  BY Appended DEF Typed
<1> QED BY <1>1, <1>2, <1>3 DEF Keep

LEMMA TypedStep == IInv /\ [SourceNext]_sourceVars => Typed'
<1> SUFFICES ASSUME IInv, [SourceNext]_sourceVars PROVE Typed'
  OBVIOUS
<1>0. Typed
  BY DEF IInv
<1> USE Facts, <1>0
<1>1. CASE StartLine
  <2>1. BehindLineEnd(content, at) \in Nat \ {0} /\ BehindLineEnd(content, at) <= Len(content) + 1
    BY <1>1, Inside DEF StartLine, Typed
  <2>2. Append(lineStarts, BehindLineEnd(content, at)) \in Seq(Nat \ {0})
    BY <2>1, Appended DEF Typed
  <2> QED BY <1>1, <2>1, <2>2 DEF StartLine, Tabulate, Turns, Typed
<1>2. CASE PassCharacter
  BY <1>2 DEF PassCharacter, Tabulate, Turns, MoreOf, Typed
<1>3. CASE BeginReading
  BY <1>3 DEF BeginReading, Typed
<1>4. CASE Splice
  <2>1. BehindLineEnd(content, at + 1) \in Nat \ {0} /\ BehindLineEnd(content, at + 1) <= Len(content) + 1
    BY <1>4, Inside DEF Splice, AtSplice, Typed
  <2> QED BY <1>4, <2>1 DEF Splice, Normalize, Turns, Typed
<1>5. CASE EndLine
  <2>1. BehindLineEnd(content, at) \in Nat \ {0} /\ BehindLineEnd(content, at) <= Len(content) + 1
    BY <1>5, Inside DEF EndLine, Typed
  <2>2. Keep(LF)
    BY <1>5 DEF EndLine
  <2> QED BY <1>5, <2>1, <2>2, Kept DEF EndLine, Normalize, Turns, Typed
<1>6. CASE KeepCharacter
  <2>2. Keep(content[at]) /\ content[at] \in Characters \union {LF}
    BY <1>6 DEF KeepCharacter, Normalize, Turns
  <2> QED BY <1>6, <2>2, Kept DEF KeepCharacter, Normalize, Turns, MoreOf, Typed
<1>7. CASE Advance
  <2>1. Advanced(place, content[at]) \in Location
    BY DEF Advanced
  <2>2. Keep(content[at]) /\ content[at] \in Characters \union {LF}
    BY <1>7 DEF Advance, Turns
  <2> QED BY <1>7, <2>1, <2>2, Kept DEF Advance, Turns, MoreOf, Typed
<1>8. CASE UNCHANGED sourceVars
  BY <1>8 DEF sourceVars, Typed
<1> QED BY <1>1, <1>2, <1>3, <1>4, <1>5, <1>6, <1>7, <1>8 DEF SourceNext

-----------------------------------------------------------------------------
(* The table.                                                                *)

\* One more line in it.
LEMMA LineListed ==
  ASSUME NEW s \in Seq(Characters), NEW starts \in Seq(Nat \ {0}), NEW i \in 1 .. Len(s),
         Table(s, starts, i), \A k \in DOMAIN starts : starts[k] <= i, AtLineEnd(s, i)
  PROVE  LET next == BehindLineEnd(s, i)
             more == Append(starts, next)
         IN  /\ Table(s, more, next)
             /\ \A k \in DOMAIN more : more[k] <= next
<1> DEFINE next == BehindLineEnd(s, i)
           more == Append(starts, next)
           n    == Len(starts) + 1
<1>1. /\ next \in {i + 1, i + 2} /\ next \in Nat \ {0} /\ (next = i + 2 <=> IsPair(s, i))
      /\ i \in Nat \ {0} /\ Len(s) \in Nat
  BY Widths, LenProperties
<1>2. /\ n \in Nat /\ DOMAIN starts = 1 .. n - 1 /\ DOMAIN more = 1 .. n
      /\ \A k \in 1 .. n - 1 : more[k] = starts[k] /\ starts[k] \in Nat
      /\ more[n] = next
  BY <1>1, Appended
<1>3. 1 \in 1 .. n - 1 /\ starts[1] = 1 /\ n \in 1 .. n
  BY <1>2 DEF Table
<1>m. \A k \in 1 .. n - 1 : k \in 1 .. n /\ k \in DOMAIN starts
  BY <1>2
<1>d. \A k \in 1 .. n : k < n => k \in 1 .. n - 1
  BY <1>2
<1> HIDE DEF next, more, n
<1>4. Rising(more)
  <2> SUFFICES ASSUME NEW j \in 1 .. n, NEW k \in 1 .. n, j < k PROVE more[j] < more[k]
    BY <1>2 DEF Rising
  <2>1. CASE k = n
    BY <2>1, <1>1, <1>2
  <2>2. CASE k < n
    <3>1. j \in DOMAIN starts /\ k \in DOMAIN starts
      BY <2>2, <1>2
    <3> QED BY <3>1, <1>2 DEF Table, Rising
  <2> QED BY <2>1, <2>2, <1>2
<1>5. Listed(s, more, next)
  <2> SUFFICES ASSUME NEW j \in 1 .. next - 1, AtLineEnd(s, j)
               PROVE  \E k \in 1 .. n : more[k] = BehindLineEnd(s, j)
    BY <1>2 DEF Listed
  <2>1. CASE j < i
    <3>1. PICK k \in 1 .. n - 1 : starts[k] = BehindLineEnd(s, j)
      <4>1. j \in 1 .. i - 1
        BY <2>1, <1>1
      <4> QED BY <4>1, <1>2 DEF Table, Listed
    <3> QED BY <3>1, <1>2, <1>m
  <2>2. CASE j = i
    <3>1. more[n] = BehindLineEnd(s, j)
      BY <2>2, <1>2 DEF next
    <3> QED BY <3>1, <1>3
  <2>3. CASE j > i
    <3>1. j = i + 1 /\ IsPair(s, i)
      BY <2>3, <1>1
    <3>2. BehindLineEnd(s, j) = next
      BY <3>1, <1>1, Pairs DEF next
    <3> QED BY <3>2, <1>2, <1>3
  <2> QED BY <2>1, <2>2, <2>3, <1>1
<1>6. Genuine(s, more, next)
  <2> SUFFICES ASSUME NEW k \in 1 .. n, k # 1
               PROVE  \E j \in 1 .. next - 1 : AtLineEnd(s, j) /\ more[k] = BehindLineEnd(s, j)
    BY <1>2 DEF Genuine
  <2>1. CASE k = n
    BY <2>1, <1>1, <1>2 DEF next
  <2>2. CASE k < n
    <3>1. PICK j \in 1 .. i - 1 : AtLineEnd(s, j) /\ starts[k] = BehindLineEnd(s, j)
      <4>1. k \in DOMAIN starts
        BY <2>2, <1>d, <1>m
      <4> QED BY <4>1 DEF Table, Genuine
    <3>2. j \in 1 .. next - 1
      BY <1>1
    <3> QED BY <3>1, <3>2, <2>2, <1>2
  <2> QED BY <2>1, <2>2, <1>2
<1>7. \A k \in 1 .. n : more[k] <= next
  BY <1>1, <1>2
<1>8. Table(s, more, next) /\ \A k \in DOMAIN more : more[k] <= next
  BY <1>2, <1>3, <1>4, <1>5, <1>6, <1>7 DEF Table
<1> QED BY <1>8 DEF next, more

LEMMA CharacterPassed ==
  ASSUME NEW s \in Seq(Characters), NEW starts \in Seq(Nat \ {0}), NEW i \in 1 .. Len(s),
         Table(s, starts, i), ~AtLineEnd(s, i)
  PROVE  Table(s, starts, i + 1)
<1>1. Len(s) \in Nat /\ i \in Nat /\ \A j \in 1 .. i : j = i \/ j \in 1 .. i - 1
  BY LenProperties
<1>2. Listed(s, starts, i + 1)
  BY <1>1 DEF Table, Listed
<1>3. \A j \in 1 .. i - 1 : j \in 1 .. (i + 1) - 1
  BY <1>1
<1>4. Genuine(s, starts, i + 1)
  BY <1>3 DEF Table, Genuine
<1> QED BY <1>2, <1>4 DEF Table

LEMMA WholeNext ==
  ASSUME NEW s, NEW i \in Nat \ {0}, ~AtLineEnd(s, i) \/ CharAt(s, i) = LF
  PROVE  Whole(s, i + 1)
<1>1. (i + 1) - 1 = i
  OBVIOUS
<1> QED BY <1>1, Marks DEF Whole, IsPair, AtLineEnd, LineEnds

LEMMA TabulatedStep == IInv /\ [SourceNext]_sourceVars => Tabulated'
<1> SUFFICES ASSUME IInv, [SourceNext]_sourceVars PROVE Tabulated'
  OBVIOUS
<1>0. Typed /\ Tabulated /\ content \in Seq(Characters) /\ lineStarts \in Seq(Nat \ {0})
  BY DEF IInv, Typed
<1>f. /\ at \in Nat \ {0} /\ Len(content) \in Nat
      /\ (MoreOf(content) => at \in 1 .. Len(content))
      /\ DOMAIN lineStarts = 1 .. Len(lineStarts)
      /\ \A k \in DOMAIN lineStarts : lineStarts[k] \in Nat
  BY <1>0, Facts
<1>1. CASE StartLine
  <2>1. /\ Table(content, lineStarts, at) /\ at \in 1 .. Len(content) /\ AtLineEnd(content, at)
        /\ \A k \in DOMAIN lineStarts : lineStarts[k] <= at
        /\ place' = FirstPlace /\ text' = <<>> /\ reading' = "table" /\ content' = content
    BY <1>0, <1>1, <1>f DEF StartLine, Tabulate, Turns, Tabulated
  <2>2. /\ Table(content, lineStarts', at') /\ \A k \in DOMAIN lineStarts' : lineStarts'[k] <= at'
    BY <2>1, <1>0, <1>1, LineListed DEF StartLine
  <2>3. Whole(content, at')
    BY <2>1, <1>1, <1>f, WholeBehind DEF StartLine
  <2> QED BY <2>1, <2>2, <2>3 DEF Tabulated
<1>2. CASE PassCharacter
  <2>1. /\ Table(content, lineStarts, at) /\ at \in 1 .. Len(content) /\ ~AtLineEnd(content, at)
        /\ \A k \in DOMAIN lineStarts : lineStarts[k] <= at
        /\ place' = FirstPlace /\ text' = <<>> /\ reading' = "table" /\ content' = content
        /\ at' = at + 1 /\ lineStarts' = lineStarts
    BY <1>0, <1>2, <1>f DEF PassCharacter, Tabulate, Turns, Tabulated
  <2>2. Table(content, lineStarts, at + 1)
    BY <2>1, <1>0, CharacterPassed
  <2>3. Whole(content, at + 1)
    BY <2>1, <1>f, WholeNext
  <2>4. \A k \in DOMAIN lineStarts : lineStarts[k] <= at + 1
    BY <2>1, <1>f
  <2> QED BY <2>1, <2>2, <2>3, <2>4 DEF Tabulated
<1>3. CASE BeginReading
  <2>1. at = Len(content) + 1
    BY <1>0, <1>3, <1>f DEF BeginReading, MoreOf, Typed
  <2>2. WholeTable(content, lineStarts)
    BY <2>1, <1>0, <1>3 DEF BeginReading, Tabulated, WholeTable
  <2>3. Whole(content, 1)
    BY DEF Whole
  <2> QED BY <2>2, <2>3, <1>3 DEF BeginReading, Tabulated
<1>4. CASE Splice
  <2>1. Whole(content, at')
    BY <1>4, <1>f, WholeBehind DEF Splice, AtSplice
  <2> QED BY <2>1, <1>0, <1>4 DEF Splice, Normalize, Turns, Tabulated
<1>5. CASE EndLine
  <2>1. Whole(content, at')
    BY <1>5, <1>f, WholeBehind DEF EndLine
  <2> QED BY <2>1, <1>0, <1>5 DEF EndLine, Normalize, Turns, Tabulated
<1>6. CASE KeepCharacter
  <2>1. Whole(content, at')
    BY <1>6, <1>f, WholeNext DEF KeepCharacter
  <2> QED BY <2>1, <1>0, <1>6 DEF KeepCharacter, Normalize, Turns, Tabulated
<1>7. CASE Advance
  BY <1>0, <1>7 DEF Advance, Turns, Tabulated
<1>8. CASE UNCHANGED sourceVars
  BY <1>0, <1>8 DEF sourceVars, Tabulated
<1> QED BY <1>1, <1>2, <1>3, <1>4, <1>5, <1>6, <1>7, <1>8 DEF SourceNext

-----------------------------------------------------------------------------
(* The place.                                                                *)

\* One column further.
LEMMA NextColumnShows ==
  ASSUME NEW s \in Seq(Characters), NEW starts \in Seq(Nat \ {0}), NEW p \in Location,
         NEW i \in Nat \ {0}, ShowsIn(s, starts, p, i), ~AtLineEnd(s, i)
  PROVE  ShowsIn(s, starts, NextColumn(p), i + 1) /\ NextColumn(p) \in Location
<1>1. p.line \in Nat \ {0} /\ p.col \in Nat \ {0}
  BY DEF Location
<1>2. NextColumn(p).line = p.line /\ NextColumn(p).col = p.col + 1 /\ NextColumn(p) \in Location
  BY <1>1 DEF NextColumn, Location
<1>3. starts[p.line] \in Nat /\ starts[p.line] <= i /\ p.line \in DOMAIN starts
  BY <1>1 DEF ShowsIn
<1>4. \A q \in starts[p.line] .. (i + 1) - 1 : q = i \/ q \in starts[p.line] .. i - 1
  BY <1>3
<1>5. \A q \in starts[p.line] .. (i + 1) - 1 : ~AtLineEnd(s, q)
  BY <1>4 DEF ShowsIn
<1>6. i + 1 = starts[p.line] + (p.col + 1) - 1
  BY <1>1, <1>3 DEF ShowsIn
<1> QED BY <1>2, <1>3, <1>5, <1>6 DEF ShowsIn

LEMMA ThereAndBack ==
  ASSUME NEW p \in Location
  PROVE  NextColumn(p).col > 1 /\ Previous(NextColumn(p)) = p
<1>1. PICK l \in Nat \ {0}, c \in Nat \ {0} : p = [line |-> l, col |-> c]
  BY DEF Location
<1>2. NextColumn(p) = [line |-> l, col |-> c + 1]
  BY <1>1 DEF NextColumn
<1>3. Previous([line |-> l, col |-> c + 1]) = [line |-> l, col |-> (c + 1) - 1]
  BY DEF Previous
<1> QED BY <1>1, <1>2, <1>3

LEMMA PlacedStep == IInv /\ [SourceNext]_sourceVars => Placed'
<1> SUFFICES ASSUME IInv, [SourceNext]_sourceVars, CountsLines'
             PROVE  Here(content', lineStarts', place', at')
  BY DEF Placed
<1>0. /\ Typed /\ Tabulated /\ content \in Seq(Characters) /\ lineStarts \in Seq(Nat \ {0})
      /\ place \in Location /\ at \in Nat \ {0}
  BY DEF IInv, Typed
<1>f. MoreOf(content) => at \in 1 .. Len(content) /\ content[at] = CharAt(content, at)
  BY <1>0, Facts
<1>h. CountsLines => Here(content, lineStarts, place, at)
  BY DEF IInv, Placed
<1>1. CASE StartLine \/ PassCharacter
  BY <1>1 DEF StartLine, PassCharacter, Tabulate, Turns, CountsLines
<1>3. CASE BeginReading
  <2>1. WholeTable(content, lineStarts) /\ place = FirstPlace
    <3>1. at = Len(content) + 1
      BY <1>0, <1>3, Facts DEF BeginReading, MoreOf, Typed
    <3> QED BY <3>1, <1>0, <1>3 DEF BeginReading, Tabulated, WholeTable
  <2>2. 1 \in DOMAIN lineStarts /\ lineStarts[1] = 1
    BY <2>1 DEF WholeTable, Table
  <2>3. ShowsIn(content, lineStarts, FirstPlace, 1)
    BY <2>2 DEF ShowsIn, FirstPlace
  <2> QED BY <2>1, <2>3, <1>3 DEF BeginReading, Here, Whole
<1>4. CASE Splice
  <2>1. /\ AtSplice(content, at) /\ content' = content /\ lineStarts' = lineStarts
        /\ place' = NextLine(place) /\ at' = BehindLineEnd(content, at + 1)
        /\ reading = "normalize" /\ WholeTable(content, lineStarts) /\ Whole(content, at)
    BY <1>0, <1>4 DEF Splice, Normalize, Turns, Tabulated
  <2>2. ShowsIn(content, lineStarts, place, at) /\ ~AtLineEnd(content, at)
    BY <2>1, <1>h, Marks DEF Here, CountsLines, AtSplice, AtLineEnd, LineEnds
  <2>3. ShowsIn(content, lineStarts, NextColumn(place), at + 1) /\ NextColumn(place) \in Location
    BY <2>2, <1>0, NextColumnShows
  <2>4. Whole(content, at + 1)
    BY <2>2, <1>0, WholeNext
  <2>5. at + 1 \in 1 .. Len(content) /\ AtLineEnd(content, at + 1)
    BY <2>1, <1>0, Inside, LenProperties DEF AtSplice
  <2>6. ShowsIn(content, lineStarts, NextLine(NextColumn(place)), at')
    BY <2>1, <2>3, <2>4, <2>5, <1>0, NextLineStarts
  <2>7. NextLine(NextColumn(place)) = NextLine(place)
    BY <1>0 DEF NextLine, NextColumn, Location
  <2>8. Whole(content, at')
    BY <2>1, <2>5, <1>0, WholeBehind
  <2> QED BY <2>1, <2>6, <2>7, <2>8 DEF Here
<1>5. CASE EndLine
  <2>1. /\ AtLineEnd(content, at) /\ content' = content /\ lineStarts' = lineStarts
        /\ place' = NextLine(place) /\ at' = BehindLineEnd(content, at) /\ at \in 1 .. Len(content)
        /\ reading = "normalize" /\ WholeTable(content, lineStarts) /\ Whole(content, at)
    BY <1>0, <1>5, <1>f DEF EndLine, Normalize, Turns, Tabulated
  <2>2. ShowsIn(content, lineStarts, place, at)
    BY <2>1, <1>h DEF Here, CountsLines
  <2>3. ShowsIn(content, lineStarts, NextLine(place), at')
    BY <2>1, <2>2, <1>0, NextLineStarts
  <2>4. Whole(content, at')
    BY <2>1, <1>0, WholeBehind
  <2> QED BY <2>1, <2>3, <2>4 DEF Here
<1>6. CASE KeepCharacter
  <2>1. /\ ~AtLineEnd(content, at) /\ content' = content /\ lineStarts' = lineStarts
        /\ place' = NextColumn(place) /\ at' = at + 1 /\ reading = "normalize" /\ Whole(content, at)
    BY <1>0, <1>6 DEF KeepCharacter, Normalize, Turns, Tabulated
  <2>2. ShowsIn(content, lineStarts, place, at)
    BY <2>1, <1>h DEF Here, CountsLines
  <2>3. ShowsIn(content, lineStarts, NextColumn(place), at + 1) /\ Whole(content, at + 1)
    BY <2>1, <2>2, <1>0, NextColumnShows, WholeNext
  <2> QED BY <2>1, <2>3 DEF Here
<1>7. CASE Advance
  <2>1. /\ content' = content /\ lineStarts' = lineStarts /\ at \in 1 .. Len(content)
        /\ place' = Advanced(place, CharAt(content, at)) /\ at' = at + 1
        /\ reading = "lex" /\ WholeTable(content, lineStarts) /\ reading' = "lex"
    BY <1>0, <1>7, <1>f DEF Advance, Turns, Tabulated
  <2>2. Here(content, lineStarts, place, at) /\ ~LoneReturn
    BY <2>1, <1>h DEF CountsLines, LoneReturn
  <2>3. CASE ~Whole(content, at)
    <3>1. IsPair(content, at - 1) /\ at - 1 \in Nat \ {0} /\ (at - 1) + 1 = at
      BY <2>3, <1>0 DEF Whole
    <3>2. /\ CharAt(content, at) = LF /\ AtLineEnd(content, at - 1)
          /\ BehindLineEnd(content, at - 1) = at + 1 /\ Whole(content, at - 1)
      <4>1. CharAt(content, at) = LF /\ CharAt(content, at - 1) = CR
        BY <3>1 DEF IsPair
      <4>2. AtLineEnd(content, at - 1)
        BY <4>1 DEF AtLineEnd, LineEnds
      <4>3. BehindLineEnd(content, at - 1) = at + 1
        BY <3>1, Widths
      <4>4. at - 1 = 1 \/ ~IsPair(content, (at - 1) - 1)
        <5>1. ((at - 1) - 1) + 1 = at - 1
          BY <1>0
        <5> QED BY <5>1, <4>1, Marks DEF IsPair
      <4> QED BY <4>1, <4>2, <4>3, <4>4 DEF Whole
    <3>3. Previous(place) \in Location /\ ShowsIn(content, lineStarts, Previous(place), at - 1)
          /\ NextLine(Previous(place)) = NextLine(place)
      <4>1. place.col > 1 /\ ShowsIn(content, lineStarts, Previous(place), at - 1)
        BY <2>2, <2>3 DEF Here
      <4>2. Previous(place) \in Location
        BY <4>1, <1>0 DEF Previous, Location
      <4>3. NextLine(Previous(place)) = NextLine(place)
        BY <1>0 DEF Previous, NextLine, Location
      <4> QED BY <4>1, <4>2, <4>3
    <3>4. at - 1 \in 1 .. Len(content)
      BY <3>1, <2>1
    <3>5. ShowsIn(content, lineStarts, NextLine(place), at + 1)
      BY <3>2, <3>3, <3>4, <2>1, <1>0, NextLineStarts
    <3>6. Whole(content, at + 1)
      BY <3>2, <1>0, WholeNext
    <3> QED BY <3>5, <3>6, <3>2, <2>1 DEF Here, Advanced
  <2>4. CASE Whole(content, at)
    <3>1. ShowsIn(content, lineStarts, place, at)
      BY <2>2, <2>4 DEF Here
    <3>2. CASE CharAt(content, at) = LF
      <4>1. AtLineEnd(content, at) /\ BehindLineEnd(content, at) = at + 1
        BY <3>2, Marks DEF AtLineEnd, LineEnds, BehindLineEnd, IsPair
      <4>2. ShowsIn(content, lineStarts, NextLine(place), at + 1)
        BY <4>1, <3>1, <2>1, <2>4, <1>0, NextLineStarts
      <4>3. Whole(content, at + 1)
        BY <3>2, <1>0, WholeNext
      <4> QED BY <4>2, <4>3, <3>2, <2>1 DEF Here, Advanced
    <3>3. CASE CharAt(content, at) = CR
      <4>1. IsPair(content, at)
        BY <3>3, <2>1, <2>2, <1>f, <1>0 DEF LoneReturn, CharAt
      <4>2. ~Whole(content, at + 1)
        <5>1. (at + 1) - 1 = at /\ at + 1 # 1
          BY <1>0
        <5> QED BY <5>1, <4>1 DEF Whole
      <4>3. place' = NextColumn(place)
        BY <3>3, <2>1, Marks DEF Advanced
      <4>4. place'.col > 1 /\ Previous(place') = place
        BY <4>3, <1>0, ThereAndBack
      <4>5. (at + 1) - 1 = at
        BY <1>0
      <4> QED BY <4>2, <4>4, <4>5, <3>1, <2>1 DEF Here
    <3>4. CASE CharAt(content, at) # LF /\ CharAt(content, at) # CR
      <4>1. ~AtLineEnd(content, at)
        BY <3>4 DEF AtLineEnd, LineEnds
      <4>2. ShowsIn(content, lineStarts, NextColumn(place), at + 1) /\ Whole(content, at + 1)
        BY <4>1, <3>1, <1>0, NextColumnShows, WholeNext
      <4> QED BY <4>2, <3>4, <2>1 DEF Here, Advanced
    <3> QED BY <3>2, <3>3, <3>4
  <2> QED BY <2>3, <2>4
<1>8. CASE UNCHANGED sourceVars
  BY <1>8, <1>h DEF sourceVars, CountsLines, LoneReturn
<1> QED BY <1>1, <1>3, <1>4, <1>5, <1>6, <1>7, <1>8 DEF SourceNext

-----------------------------------------------------------------------------
(* What has been passed.                                                     *)

\* A character that is kept, and no line end, is kept where the loop is.
LEMMA KeptShown ==
  ASSUME IInv, CountsLines, NEW c \in Characters \union {LF}, Keep(c), MoreOf(content),
         UNCHANGED <<content, lineStarts>>, reading # "table",
         c \in LineEnds \/ (c = content[at] /\ ~AtLineEnd(content, at))
  PROVE  \A k \in DOMAIN text' : ~(text'[k] \in LineEnds) => Shows(locations[k], origins[k])'
<1>0. Typed /\ Placed /\ ShownBefore
  BY DEF IInv
<1> SUFFICES ASSUME NEW k \in 1 .. Len(text) + 1, ~(text'[k] \in LineEnds)
             PROVE  ShowsIn(content, lineStarts, locations'[k], origins'[k])
  BY <1>0, Kept DEF Shows, ShowsIn
<1>1. CASE k \in 1 .. Len(text)
  <2>1. text'[k] = text[k] /\ locations'[k] = locations[k] /\ origins'[k] = origins[k] /\ k \in DOMAIN text
    BY <1>0, <1>1, Kept, Facts
  <2> QED BY <2>1, <1>0 DEF ShownBefore, Shows, ShowsIn
<1>2. CASE k = Len(text) + 1
  <2>1. text'[k] = c /\ locations'[k] = place /\ origins'[k] = at
    BY <1>0, <1>2, Kept
  <2>2. ~AtLineEnd(content, at)
    BY <2>1
  <2>3. Whole(content, at)
    <3> SUFFICES ASSUME at # 1, IsPair(content, at - 1) PROVE FALSE
      BY DEF Whole
    <3>1. at - 1 \in Nat \ {0} /\ (at - 1) + 1 = at
      BY <1>0, Facts
    <3> QED BY <3>1, <2>2, Pairs
  <2> QED BY <2>1, <2>3, <1>0 DEF Placed, Here
<1> QED BY <1>1, <1>2, <1>0, Facts

LEMMA ShownStep == IInv /\ [SourceNext]_sourceVars => ShownBefore'
<1> SUFFICES ASSUME IInv, [SourceNext]_sourceVars, CountsLines'
             PROVE  \A k \in DOMAIN text' : ~(text'[k] \in LineEnds) => Shows(locations[k], origins[k])'
  BY DEF ShownBefore
<1>0. Typed /\ Tabulated /\ ShownBefore
  BY DEF IInv
<1>1. CASE StartLine \/ PassCharacter
  BY <1>1 DEF StartLine, PassCharacter, Tabulate, Turns, CountsLines
<1>3. CASE BeginReading
  <2>1. text' = <<>>
    BY <1>0, <1>3 DEF BeginReading, Tabulated
  <2> QED BY <2>1
<1>4. CASE Splice
  BY <1>0, <1>4 DEF Splice, Normalize, Turns, ShownBefore, CountsLines, Shows
<1>5. CASE EndLine
  <2>1. Keep(LF) /\ LF \in LineEnds /\ CountsLines /\ MoreOf(content) /\ UNCHANGED <<content, lineStarts>>
        /\ reading # "table"
    BY <1>5 DEF EndLine, Normalize, Turns, CountsLines, LineEnds
  <2> QED BY <2>1, KeptShown
<1>6. CASE KeepCharacter
  <2>1. Keep(content[at]) /\ ~AtLineEnd(content, at) /\ CountsLines /\ MoreOf(content)
        /\ UNCHANGED <<content, lineStarts>> /\ reading # "table"
    BY <1>6 DEF KeepCharacter, Normalize, Turns, CountsLines
  <2>2. content[at] \in Characters \union {LF}
    BY <2>1, <1>0, Facts
  <2> QED BY <2>1, <2>2, KeptShown
<1>7. CASE Advance
  <2>1. Keep(content[at]) /\ CountsLines /\ MoreOf(content) /\ UNCHANGED <<content, lineStarts>>
        /\ reading # "table"
    BY <1>7 DEF Advance, Turns, CountsLines, LoneReturn
  <2>2. content[at] \in Characters \union {LF} /\ CharAt(content, at) = content[at]
    BY <2>1, <1>0, Facts
  <2>3. content[at] \in LineEnds \/ ~AtLineEnd(content, at)
    BY <2>2 DEF AtLineEnd
  <2> QED BY <2>1, <2>2, <2>3, KeptShown
<1>8. CASE UNCHANGED sourceVars
  BY <1>0, <1>8 DEF sourceVars, CountsLines, LoneReturn, ShownBefore, Shows
<1> QED BY <1>1, <1>3, <1>4, <1>5, <1>6, <1>7, <1>8 DEF SourceNext

-----------------------------------------------------------------------------
LEMMA SourceInductive == SourceSpec => []IInv
<1>1. IInv /\ [SourceNext]_sourceVars => IInv'
  BY TypedStep, TabulatedStep, PlacedStep, ShownStep DEF IInv
<1> QED BY Initially, <1>1, PTL DEF SourceSpec

\* At the end of a file no pair is open.
LEMMA EndIsWhole ==
  ASSUME Typed, ~MoreOf(content)
  PROVE  Whole(content, at)
<1> SUFFICES ASSUME at # 1, IsPair(content, at - 1) PROVE FALSE
  BY DEF Whole
<1>1. at - 1 \in Nat \ {0} /\ (at - 1) + 1 = at /\ ~(at <= Len(content))
  BY Facts DEF MoreOf
<1>2. CharAt(content, at) = LF
  BY <1>1 DEF IsPair
<1> QED BY <1>1, <1>2, Marks DEF CharAt

(* PlacesAreTrue: for any characters and any files, of any length, every     *)
(* character the preprocessor or the Lexer has passed, and the end of the    *)
(* file, is shown by a diagnostic where it stands.                           *)
THEOREM PlacesAreTrue == SourceSpec => []LocationsPoint
<1>1. IInv => LocationsPoint
  <2> SUFFICES ASSUME IInv, CountsLines PROVE LocationsPoint
    BY DEF LocationsPoint
  <2>1. Typed /\ Placed /\ ShownBefore
    BY DEF IInv
  <2>2. ~MoreOf(content) => Shows(place, at)
    BY <2>1, EndIsWhole DEF Placed, Here, Shows, ShowsIn
  <2> QED BY <2>1, <2>2 DEF LocationsPoint, ShownBefore
<1> QED BY <1>1, SourceInductive, PTL
=============================================================================
