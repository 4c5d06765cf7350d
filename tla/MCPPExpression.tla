--------------------------- MODULE MCPPExpression ----------------------------
(* Expressions of three-bit numbers: one alphabet for what is evaluated,     *)
(* with the operators that can fail or skip an operand, and one for          *)
(* arithmetic, with every operator and both types.                           *)
EXTENDS PPExpression

Skipping == {Identifier, Character(1), Number(1, TRUE, TRUE)}
            \union {Punct(p) : p \in {"-", "!", "(", ")", "?", ":", "&&", "||", "/", "<"}}

Arithmetic == {Number(n, FALSE, FALSE) : n \in {1, 3, 6}}
              \union {Number(4, TRUE, FALSE), Number(2, TRUE, TRUE)}
              \union {Punct(p) : p \in DOMAIN precedence \union {"~"}}

Expressions == {[alphabet |-> Skipping, length |-> 7],
                [alphabet |-> Arithmetic, length |-> 5]}
=============================================================================
