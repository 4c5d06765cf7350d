--------------------------- MODULE FunctionSymbols ---------------------------
(* What semantic analysis promises about the functions of a unit: what is    *)
(* known of a name is never taken back or contradicted.  A name is unknown,  *)
(* then declared with an unspecified parameter list or with a prototype; a   *)
(* prototype stays; a body, once given, stays the only one.                  *)
EXTENDS Integers, Sequences

CONSTANTS Names, Shapes, Narrow

VARIABLE symbol

Symbols == [known : {"nothing", "unspecified", "prototype"},
            params : Seq(Shapes), variadic : BOOLEAN, body : Nat]

Unknown == [known |-> "nothing", params |-> <<>>, variadic |-> FALSE, body |-> 0]

\* Could a call made before the prototype was known have passed its arguments
\* the way the prototype takes them?
Promotable(s) == /\ ~s.variadic
                 /\ \A i \in DOMAIN s.params : s.params[i] \notin Narrow

\* `new` says all that `old` says, and contradicts nothing.
Extends(old, new) ==
  /\ old.known = "prototype" =>
       /\ new.known = "prototype"
       /\ new.params = old.params /\ new.variadic = old.variadic
  /\ old.known = "unspecified" =>
       \/ new.known = "unspecified"
       \/ /\ new.known = "prototype" /\ Promotable(new)
          /\ old.body # 0 => new.params = <<>>
  /\ old.body # 0 => new.body = old.body
  /\ new.known = "nothing" => new = Unknown

Init == symbol = [n \in Names |-> Unknown]

\* One name learns something.
Learn(n) == /\ symbol'[n] \in Symbols
            /\ Extends(symbol[n], symbol'[n])
            /\ symbol' = [symbol EXCEPT ![n] = symbol'[n]]

Next == \E n \in Names : Learn(n)

Spec == Init /\ [][Next]_symbol
=============================================================================
