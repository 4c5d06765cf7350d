---------------------------- MODULE MCControlFlow ----------------------------
(* Bodies of nested ifs and loops, without the parameter: the for loops have *)
(* all of their parts or none; and small bodies with all for loops, which    *)
(* read and assign the parameter.                                            *)
EXTENDS ControlFlow

FullOrEmpty == {[init |-> b, test |-> b, incr |-> b] : b \in BOOLEAN}
AllForms    == [init : BOOLEAN, test : BOOLEAN, incr : BOOLEAN]

Functions == {[uses |-> {"none"}, results |-> {"void"}, forForms |-> FullOrEmpty,
               tokens |-> 5, depth |-> 3],
              [uses |-> {"read", "assign"}, results |-> {"void", "main", "int"},
               forForms |-> AllForms, tokens |-> 3, depth |-> 2]}
=============================================================================
