------------------------------ MODULE MCDriver -------------------------------
(* The driver, on command lines of up to four arguments and on the texts     *)
(* that tell the ways a literal may be joined apart.                         *)
EXTENDS Frontend

Directories == [a \in {"-Iinc"} |-> "inc"]
OptionWords == KnownOptions \union {"-x"}
Words == OptionWords \union {"main.c"}
Lines == UNION {[1 .. n -> Words] : n \in 0 .. 3}
         \union {Append(line, "main.c") : line \in [1 .. 3 -> Words]}

Literal   == [string |-> TRUE, valid |-> TRUE]
Plain     == [string |-> FALSE, valid |-> TRUE]
BadString == [Literal EXCEPT !.valid = FALSE]
BadToken  == [Plain EXCEPT !.valid = FALSE]
Outputs == {<<>>, <<Plain>>, <<BadToken>>, <<Plain, Literal>>,
            <<Literal, Literal, Literal, Plain>>, <<Literal, Literal, BadString, Literal>>,
            <<Literal, Plain, Literal>>, <<Plain, Plain, BadToken, Plain>>}
=============================================================================
