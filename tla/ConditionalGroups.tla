-------------------------- MODULE ConditionalGroups --------------------------
(***************************************************************************)
(* What conditional inclusion and macro definition mean for one file p     *)
(* that includes nothing, said of the whole text at once: a line is live   *)
(* when, in every #if section around it, the group it is in is the first   *)
(* one whose condition holds.  Preprocess reaches the same answer one line *)
(* at a time with a stack.                                                 *)
(***************************************************************************)
EXTENDS Integers, Sequences, FiniteSetsExt

CONSTANTS Predefined, Fn, True, Undefined, Malformed, Open, Close

Opens(l) == l.kind \in {"if", "ifdef", "ifndef"}
Closes(l) == l.kind = "endif"
Continues(l) == l.kind \in {"elif", "else"}

Depth(p, j) == Cardinality({i \in 1..(j - 1) : Opens(p[i])})
                 - Cardinality({i \in 1..(j - 1) : Closes(p[i])})

(* The sections that line j is in. *)
Around(p, j) == {i \in 1..(j - 1) :
                   Opens(p[i]) /\ \A k \in (i + 1)..j : Depth(p, k) > Depth(p, i)}

(* The line that opened the section an #elif, #else or #endif belongs to.  *)
Opener(p, j) == Max(Around(p, j))
Heads(p, i, j) == {i} \cup {b \in (i + 1)..(j - 1) :
                              Continues(p[b]) /\ Opener(p, b) = i}

(* No group of a section follows its #else. *)
Placed(p, j) ==
  Closes(p[j]) \/ Continues(p[j]) =>
    /\ Around(p, j) # {}
    /\ Continues(p[j]) =>
         \A b \in Heads(p, Opener(p, j), j) : p[b].kind # "else"

-----------------------------------------------------------------------------
(* live is a set of lines that has the live ones of those before j. *)
Definition(p, live, j, n) ==
  LET changes == {k \in live : /\ k < j
                               /\ p[k].kind \in {"define", "undef"}
                               /\ p[k].name = n}
  IN IF changes = {} \/ p[Max(changes)].kind = "undef"
     THEN Undefined
     ELSE p[Max(changes)].value

Selected(p, live, b) ==
  LET n == p[b].name
      isDefined == n \in Predefined \/ Definition(p, live, b, n) # Undefined
  IN CASE p[b].kind = "ifdef"  -> isDefined
       [] p[b].kind = "ifndef" -> ~isDefined
       [] p[b].kind = "else"   -> TRUE
       [] OTHER -> n \in Predefined \/ (n # Fn /\ Definition(p, live, b, n) = True)

NoneSelected(p, live, i, j) == \A b \in Heads(p, i, j) : ~Selected(p, live, b)
FirstSelected(p, live, i, j) ==
  \A b \in Heads(p, i, j) : b = Max(Heads(p, i, j)) <=> Selected(p, live, b)

LiveLine(p, live, j) == \A i \in Around(p, j) : FirstSelected(p, live, i, j)

(* The live lines, found one after the other. *)
Live(p) ==
  LET upTo[j \in 0..Len(p)] ==
        IF j = 0 THEN {}
        ELSE LET before == upTo[j - 1]
             IN before \cup {k \in {j} : LiveLine(p, before, k)}
  IN upTo[Len(p)]

-----------------------------------------------------------------------------
(* A condition is evaluated only where its value matters. *)
Evaluated(p, live, j) ==
  IF Continues(p[j])
  THEN \A i \in Around(p, j) : IF i = Opener(p, j)
                               THEN NoneSelected(p, live, i, j)
                               ELSE FirstSelected(p, live, i, j)
  ELSE j \in live

(* Text between two lines that start with # is scanned for macros at once. *)
ChunkEnd(p, i) == Max({j \in i..Len(p) : \A k \in i..j : p[k].kind = "text"})
LiveCount(p, live, t, i, j) == Cardinality({k \in i..j : k \in live /\ p[k].tok = t})
Unterminated(p, live, i) ==
  /\ i \in live /\ p[i].tok = Open /\ Definition(p, live, i, Fn) # Undefined
  /\ \A j \in i..ChunkEnd(p, i) :
       LiveCount(p, live, Open, i, j) > LiveCount(p, live, Close, i, j)

Rejected(p, live, j) ==
  CASE p[j].kind = "text" -> Unterminated(p, live, j)
    [] p[j].kind \in {"ifdef", "ifndef"} -> p[j].name = Malformed
    [] p[j].kind \in {"if", "elif"} -> Evaluated(p, live, j) /\ p[j].name = Malformed
    [] p[j].kind \in {"else", "endif"} -> p[j].extra
    [] p[j].kind = "define" ->
         j \in live /\ \/ p[j].name \in Predefined \cup {Malformed}
                       \/ Definition(p, live, j, p[j].name)
                            \notin {Undefined, p[j].value}
    [] p[j].kind = "undef" ->
         j \in live /\ p[j].name \in Predefined \cup {Malformed}
    [] p[j].kind \in {"error", "unsupported"} -> j \in live
    [] OTHER -> FALSE

(* Malformed conditions are not selected; nothing after them matters.      *)
Accepted(p, live) ==
  /\ Depth(p, Len(p) + 1) = 0
  /\ \A j \in 1..Len(p) : Placed(p, j) /\ ~Rejected(p, live, j)

(* A token of text means what its name is defined as on its own line.      *)
Meaning(p, live, j) ==
  LET t == p[j].tok
  IN IF t = Open THEN Definition(p, live, j, Fn)
     ELSE IF t \in {Close, Fn} THEN Undefined
     ELSE Definition(p, live, j, t)

(* text is the live text of the lines before n, in their order.            *)
IsText(p, live, n, text) ==
  LET kept == {j \in live : j < n /\ p[j].kind = "text"}
  IN /\ kept = {text[k].line : k \in 1..Len(text)}
     /\ \A k, l \in 1..Len(text) : k < l => text[k].line < text[l].line
     /\ \A k \in 1..Len(text) :
          LET j == text[k].line
          IN text[k].tok = p[j].tok /\ text[k].value = Meaning(p, live, j)
=============================================================================
