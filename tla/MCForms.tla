------------------------------ MODULE MCForms -------------------------------
(* Forms of declarations for the model-checked instances of Declarations.    *)
EXTENDS Integers, Sequences

LOCAL NoName == ""

Type(shape, size) == [shape |-> shape, size |-> size, proto |-> FALSE,
                      variadic |-> FALSE, params |-> <<>>, tag |-> NoName]
IntType == Type("int", -1)

FunctionType(proto, params, variadic) ==
  [shape |-> "func", size |-> -1, proto |-> proto, variadic |-> variadic,
   params |-> params, tag |-> NoName]

Record(shape, t) == [Type(shape, -1) EXCEPT !.tag = t]

Param(n, shape) == [name |-> n, shape |-> shape]

Unspecified == FunctionType(FALSE, <<>>, FALSE)   \* f()
NoParameters == FunctionType(TRUE, <<>>, FALSE)   \* f(void)

Declaration(kind, n, sc, t, body) ==
  [kind |-> kind, name |-> n, sc |-> sc, type |-> t, body |-> body]
=============================================================================
