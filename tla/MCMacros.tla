------------------------------ MODULE MCMacros ------------------------------
(***************************************************************************)
(* Two parts of the preprocessor by themselves, told apart by `reading`.   *)
(*                                                                         *)
(* Macro expansion: tables of an object-like macro A, a function-like F of *)
(* one parameter and a function-like G of two, none, or a variable number  *)
(* of them, and texts that invoke them completely, in pieces and inside    *)
(* each other.                                                             *)
(*                                                                         *)
(* Tokens: files put together from pieces, a family for each part of the   *)
(* lexical grammar.                                                        *)
(***************************************************************************)
EXTENDS MacroExpansion, LexicalGrammar

S == INSTANCE SequencesExt

Names == {"A", "F", "G", "x", "y", "z", "__VA_ARGS__", "L"}
Spellings ==
  Names \cup {"(", ")", ",", "#", "##", String, "1", "11", "1A"}

(* Pastes: numbers are joined with numbers and names, and the two halves   *)
(* of A.                                                                   *)
Pastes ==
  [q \in {<<"1", "1">>, <<"1", "A">>, <<"A", "1">>, <<"F", "1">>} |->
     CASE q = <<"1", "1">> -> "11"
       [] q = <<"1", "A">> -> "1A"
       [] q = <<"A", "1">> -> "A"
       [] OTHER -> "F"]

Object(r) == [functionLike |-> FALSE, variadic |-> FALSE,
              parameters |-> <<>>, replacement |-> r]
Function(p, r) == [functionLike |-> TRUE, variadic |-> FALSE,
                   parameters |-> p, replacement |-> r]
Variadic(p, r) == [Function(p, r) EXCEPT !.variadic = TRUE]

ReplacementsOfA ==
  { <<>>, <<"A">>, <<"F">>, <<"F", "(">>, <<"G">>, <<"1", "##", "A">>,
    <<")">>, <<"1", ",", "A">> }
ReplacementsOfF ==
  { <<"x">>, <<"x", "x">>, <<"F", "(", "x", ")">>, <<"x", "##", "x">>,
    <<"#", "x">>, <<"G", "x">>, <<"1", "##", "x", "F">>,
    <<"x", "A", "##", "x">>, <<"A", "x", "##", "1", "##", "x">>, <<"A">> }
ReplacementsOfG ==
  { Function(<<"x", "y">>, <<"y", "F", "(", "x", ")">>),
    Function(<<"x", "y">>, <<"x", "##", "y", "##", "x">>),
    Function(<<>>, <<"F">>),
    Variadic(<<"x", "__VA_ARGS__">>, <<"F", "(", "__VA_ARGS__", ")", "x">>),
    Variadic(<<"__VA_ARGS__">>, <<"#", "__VA_ARGS__", "__VA_ARGS__">>) }

AllTables ==
  {[n \in {"A", "F", "G"} |-> CASE n = "A" -> Object(a)
                                [] n = "F" -> Function(<<"x">>, f)
                                [] n = "G" -> g] :
     <<a, f, g>> \in ReplacementsOfA \X ReplacementsOfF \X ReplacementsOfG}

Texts1 ==
  { <<"A", "L", "A">>, <<"F">>, <<"F", "A">>, <<"A", "(", "1", ")">>,
    <<"F", "(", ")">>, <<"F", "(", "A", ")">>, <<"F", "(", "1", ",", "1", ")">>,
    <<"F", "(", "F", "(", "1", ")", ")">>, <<"F", "(", "(", "1", ",", "A", ")", ")">>,
    <<"F", "(", "F", ")", "(", "1", ")">>, <<"F", "(", "A">>,
    <<"F", "(", "G", ")", "(", "1", ",", "A", ")">>,
    <<"A", "1", ")", "(", "A", ")">>,
    <<"G", "(", ")">>, <<"G", "(", "A", ")", "(", "1", ")">>,
    <<"G", "(", "1", ",", ")">>, <<"G", "(", ",", ")">>, <<"G", "(", ",", "1", ")">>, <<"G", "(", ",", "F", ",", "A", ")">>,
    <<"G", "(", "F", "(", "1", ")", ",", "G", "(", "1", ",", "1", ")", ")">>,
    <<"G", "(", "1", ",", "F", "(", ")", "L", "(", "A">>,
    <<"F", "(", "F", "(", "F", "(", "A", ")", ")", ")">>,
    [i \in 1..13 |-> "L"], [i \in 1..13 |-> IF i = 13 THEN "A" ELSE "L"] }

(* One of the limits was met: three texts above are there to meet them.      *)
LimitMet == expansions = MaxExpansions \/ Len(callers) + 1 = MaxDepth

Reference == INSTANCE RescanReference WITH Table <- macros

(* MatchesReference: at the end, the text is what the rescanning rules say *)
(* it is, and it was refused only when they cannot be followed or a limit  *)
(* was met.                                                                *)
MatchesReference ==
  outcome # "running" =>
    LET r == Reference!Expand([i \in 1..Len(source) |-> Plain(source[i])])
    IN IF outcome = "ok" THEN r.ok /\ output = r.out ELSE ~r.ok \/ LimitMet
-----------------------------------------------------------------------------
InUse == {"a", "e", "p", "x", "n", "u", "f", "d", "o", "i", "include"}

Over(pieces, n) == {S!FlattenSeq(s) : s \in UNION {[1 .. k -> pieces] : k \in 0 .. n}}
OneEach(chars) == {<<c>> : c \in chars}

\* Numbers of every form; punctuators; comments and literals; line ends and
\* splices; what may follow #include; identifiers, keywords and characters.
Files ==
  Over(OneEach({"1", "0", "8", "e", ".", "+", "u"}) \union {<<"0", "x">>}, 4)
  \union Over(OneEach({"<", "%", ":", ">", "=", "."}), 4)
  \union Over(OneEach(OneLong \union {"@"}), 2)
  \union Over(OneEach({"/", "*", "\"", "'", Backslash, "n", LF}) \union {<<"/", "*">>}, 4)
  \union Over(OneEach({LF, CR, "a", "\""})
              \union {<<Backslash, LF>>, <<Backslash, CR, LF>>, <<Backslash, "a">>, <<"/", "/">>}, 4)
  \union {<<"#", "include">> \o s : s \in Over(OneEach({"<", ">", "\"", "/", LF, "a", " "}), 3)}
  \union Over(OneEach({"_", "1", " ", "'"}) \union {<<"d", "o">>}, 3)
InFiles == UNION {{s[i] : i \in DOMAIN s} : s \in Files}

NoText ==
  /\ source = <<>> /\ macros = [n \in {} |-> {}] /\ pending = <<>> /\ output = <<>>
  /\ phase = "scan" /\ call = NoCall /\ callers = <<>> /\ expansions = 0 /\ outcome = "ok"

MCInit == \/ /\ Init
             /\ content = <<>> /\ reading = "none" /\ at = 1 /\ lineStarts = <<>>
             /\ place = FirstPlace /\ text = <<>> /\ locations = <<>> /\ origins = <<>>
             /\ lineComments = TRUE /\ tokens = <<>> /\ space = FALSE /\ lineStart = 0 /\ complaint = 0
          \/ TokensInit /\ NoText
MCNext == \/ Next /\ UNCHANGED tokenVars
          \/ TokensNext /\ UNCHANGED vars
MCSpec == /\ MCInit /\ [][MCNext]_<<vars, tokenVars>>
          /\ WF_<<vars, tokenVars>>(Next /\ UNCHANGED tokenVars)
=============================================================================
