---------------------------- MODULE MCPreprocess ----------------------------
(***************************************************************************)
(* Programs of one file, compared with ConditionalGroups: conditional      *)
(* sections, every directive and its malformed forms, and invocations that *)
(* span lines.  And programs of three files that include each other.       *)
(***************************************************************************)
EXTENDS Preprocess

Text(t) == [kind |-> "text", tok |-> t]
Plain(k) == [kind |-> k]
Named(k, n) == [kind |-> k, name |-> n]
Closing(k, x) == [kind |-> k, extra |-> x]
Def(n, v) == [kind |-> "define", name |-> n, value |-> v]
Inc(h, q) == [kind |-> "include", header |-> h, quoted |-> q]

UpTo(S, n) == UNION {[1..k -> S] : k \in 0..n}

-----------------------------------------------------------------------------
(* Conditional sections.                                                   *)

SectionLines ==
  { Text("A"), Def("A", "1"), Named("ifndef", "A"), Named("if", "A"),
    Named("elif", "A"), Closing("else", FALSE), Closing("endif", FALSE) }

(* Fewer kinds of line, to go deeper. *)
DeepLines ==
  { Text("A"), Named("ifdef", "A"), Named("ifndef", "A"),
    Closing("else", FALSE), Closing("endif", FALSE) }

-----------------------------------------------------------------------------
(* All directives.                                                         *)

DirectiveLines ==
  { Text("A"), Def("A", "1"), Def("A", "0"), Def("P", "0"), Def("bad", "1"),
    Named("undef", "A"), Named("undef", "P"), Named("undef", "bad"),
    Named("ifdef", "A"), Named("ifndef", "bad"), Named("if", "bad"),
    Named("if", "P"), Named("ifdef", "P"), Named("elif", "bad"), Named("elif", "A"),
    Closing("else", FALSE), Closing("else", TRUE), Closing("endif", FALSE),
    Closing("endif", TRUE), Plain("error"), Plain("unsupported") }

(* Invocations of F, and the lines that can interrupt one. *)
InvocationLines ==
  { Text("open"), Text("close"), Text("F"), Def("F", "1"), Named("undef", "F"),
    Named("ifdef", "F"), Closing("endif", FALSE), Plain("null") }

(* A family of files: n lines between given ones. *)
Files(first, S, n, last) == {first} \X [1..n -> S] \X {last}

OneFile ==
  {c[1] \o c[2] \o c[3] : c \in
     UNION ({Files(<<>>, SectionLines, n, <<>>) : n \in 0..5}
            \cup {Files(<<Named("ifndef", "A")>>, DeepLines, 6, <<Closing("endif", FALSE)>>)}
            \cup {Files(<<>>, DirectiveLines, n, <<>>) : n \in 1..3}
            \cup {Files(<<Named("ifdef", "A")>>, DirectiveLines, 3, <<>>),
                  Files(<<Def("F", "1")>>, InvocationLines, 4, <<>>)})}

-----------------------------------------------------------------------------
(* Inclusion: main and h in directory d, h also in e through a link, and g *)
(* in e only, which -I names.  h may include main, g and itself; a file u  *)
(* exists that cannot be read and a file x that is not made of tokens.     *)

IncludeFiles == {"main", "h", "g", "u", "x"}
IncludeLookup ==
  [q \in {<<"d", "h.h">>, <<"e", "h.h">>, <<"e", "g.h">>, <<"d", "main.c">>,
          <<"e", "u.h">>, <<"d", "x.h">>} |->
     [file |-> CASE q[2] = "h.h" -> "h"
                 [] q[2] = "g.h" -> "g"
                 [] q[2] = "u.h" -> "u"
                 [] q[2] = "x.h" -> "x"
                 [] OTHER -> "main",
      dir |-> q[1]]]
ByLink == <<"e">>

MainLines ==
  { Text("A"), Text("open"), Inc("h.h", TRUE), Inc("h.h", FALSE),
    Inc("g.h", TRUE), Inc("u.h", FALSE), Inc("x.h", TRUE), Inc("bad", TRUE),
    Plain("once"), Named("ifdef", "A"), Closing("endif", FALSE) }
HeaderLines ==
  { Text("A"), Def("A", "1"), Def("F", "1"), Plain("once"), Inc("g.h", TRUE),
    Inc("h.h", TRUE), Inc("main.c", TRUE), Named("ifndef", "A"),
    Closing("endif", FALSE) }

(* Text around two inclusions, also of the main file by h. *)
NestingLines ==
  { Text("A"), Inc("h.h", TRUE), Inc("h.h", FALSE), Inc("g.h", TRUE),
    Plain("once") }

Locked == {"u"}
Broken == {"x"}

(* The files main and h; the others are what follows from them. *)
AllPrograms ==
  {[f \in IncludeFiles |-> CASE f = "main" -> p
                             [] f = "h" -> q
                             [] OTHER -> <<Plain("once"), Text("A")>>] :
     <<p, q>> \in UNION {OneFile \X {<<>>},
                         UpTo(MainLines, 2) \X UpTo(HeaderLines, 3),
                         [1..3 -> NestingLines] \X UpTo(HeaderLines, 2)}}

=============================================================================
