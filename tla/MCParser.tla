------------------------------ MODULE MCParser -------------------------------
(* The parser by itself: which names it takes for types, in every nesting of *)
(* scopes (TypedefNames), and what it makes of texts (Parser), each family of *)
(* which varies one part of the grammar.  `family` tells the two apart.      *)
EXTENDS ParserGrammar, TypedefNames

Family(before, pieces, most, after) ==
  [before |-> before, pieces |-> pieces, most |-> most, after |-> after]
Each(tokens) == {<<t>> : t \in tokens}

Body == <<"void", "f", "(", ")", "{">>
End  == <<";", "}">>

\* Unary, binary, assignment and conditional operators; every precedence.
Expressions_ ==
  {Family(Body, Each({"x", "=", ",", "?", ":", "||", "-", "*"}), 6, End),
   Family(Body, Each({"x"} \union DOMAIN precedence), 4, <<"x">> \o End),
   Family(Body, Each({"x", "(", ")", "[", "]", ",", ".", "++"}), 6, End),
   Family(Body \o <<"return", "sizeof">>,
          Each({"(", ")", "int", "x", "*", "[", "]", "const", "-"}), 5, End)}

Suffixes_ == {<<"[", "1", "]">>, <<"[", "]">>, <<"(", ")">>, <<"(", "int", ")">>}

\* Specifiers in any order, declarators, parameters, qualified typedef names.
Types_ ==
  {Family(<<>>, Each(Specifiers \union {"const", "static"}), 3, <<"x", ";">>),
   Family(<<"const">>, Each({"long", "unsigned", "int", "double", "signed", "short"}), 4,
          <<"x", ";">>),
   Family(<<"int">>, Each({"*", "(", ")", "x", "const"}) \union Suffixes_, 5, <<";">>),
   Family(<<"int", "*", "(", "*", "(", "*">>, Each({"*", "(", ")", "x"}) \union Suffixes_, 5,
          <<";">>),
   Family(<<"int", "f", "(">>, Each({"int", "T", "x", ",", "(", ")", "*", "...", "void"}), 5,
          <<")", ";">>),
   Family(<<"typedef", "int", "T", "[", "2", "]", ";", "typedef", "int", "*", "P", ";">>,
          Each({"T", "P", "const", "volatile", "*", "x", "[", "]", "static"}), 5, <<";">>)}

\* Statements in each other; typedef names in nested scopes.
Statements_ ==
  {Family(Body \o <<"if", "(", "x", ")">>,
          {<<"if", "(", "x", ")">>, <<"while", "(", "x", ")">>, <<"for", "(", ";", ";", ")">>,
           <<"else">>, <<";">>, <<"{">>, <<"}">>, <<"return", "x", ";">>, <<"break", ";">>}, 4,
          <<"}">>),
   Family(<<"typedef", "int", "T", ";">> \o Body,
          {<<"T">>, <<"x">>, <<"*">>, <<";">>, <<"{">>, <<"}">>, <<"int", "T">>,
           <<"typedef", "T", "x">>, <<"for", "(", "int", "T", ";", ";", ")">>,
           <<"sizeof", "(", "T", ")">>}, 5, <<"}">>)}

\* Declarations that name something or nothing, and what follows them.
Files ==
  {Family(<<>>, {<<"int", ";">>, <<"struct", "S", ";">>, <<"struct", "S">>, <<"x">>, <<";">>,
                 <<"int", "f", "(", ")">>, <<"{", "}">>, <<"*">>}, 5, <<>>)}

Texts == Expressions_ \union Types_ \union Statements_ \union Files

\* What may stand in the header of a for.
ForHeaders ==
  {Family(Body \o <<"for", "(">>, Each({"int", "x", ";", ")"}), 4, <<";", "}">>)}
-----------------------------------------------------------------------------
NoFamily == [before |-> <<>>, pieces |-> {}, most |-> 0, after |-> <<>>]

MCInit == /\ Init
          /\ \/ TextInit
             \/ family = NoFamily /\ text = <<>>
MCNext == \/ family = NoFamily /\ Next /\ UNCHANGED <<text, family>>
          \/ TextNext /\ UNCHANGED vars
MCSpec == MCInit /\ [][MCNext]_<<text, family, vars>>

Renamings == Permutations(Names) \union Permutations(Types)
=============================================================================
