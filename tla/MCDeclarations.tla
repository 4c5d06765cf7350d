--------------------------- MODULE MCDeclarations ---------------------------
(* Units about one subject each: a function f declared again in every way,   *)
(* an array a declared again in every way, a name x declared at every level  *)
(* of constructs three deep, or a function m that calls f, declared again in *)
(* several ways, in units that are then generated.                           *)
EXTENDS FunctionEmission, MCForms

(* Prototyped or not, static or not, with or without a body. *)
FunctionNames == {"f"}

Signatures == {Unspecified, NoParameters,
               FunctionType(TRUE, <<Param("f", "int")>>, FALSE),
               FunctionType(TRUE, <<Param("f", "char")>>, FALSE),
               FunctionType(TRUE, <<Param(NoName, "int")>>, TRUE)}

FunctionForms ==
  {Declaration("func", "f", "NONE", t, body) : t \in Signatures, body \in BOOLEAN}
  \union {Declaration("func", "f", "STATIC", t, body) :
           t \in {Unspecified, NoParameters}, body \in BOOLEAN}
  \union {Declaration("typedef", "f", "NONE", t, FALSE) :
           t \in {IntType, Unspecified, NoParameters}}

(* Tentative or complete, next to other objects and a tag of the same name. *)
ArrayNames == {"a"}

ArrayForms ==
  {Declaration("var", "a", sc, Type("array", size), FALSE) :
     sc \in {"NONE", "STATIC", "EXTERN"}, size \in {-1, 0, 1, 2}}
  \union {Declaration("var", "a", "NONE", IntType, FALSE),
          Declaration("var", "a", "REGISTER", IntType, FALSE),
          Declaration("var", "a", "EXTERN", Record("struct", "a"), FALSE),
          Declaration("tag", "a", "NONE", Record("union", "a"), FALSE)}

(* At file scope, as a parameter, in the body, in blocks and in headers. *)
ScopeNames == {"x", "m"}

ScopeForms ==
  {Declaration("var", "x", "NONE", IntType, FALSE),
   Declaration("typedef", "x", "NONE", IntType, FALSE),
   Declaration("func", "x", "NONE", NoParameters, FALSE),
   Declaration("func", "m", "NONE", NoParameters, TRUE),
   Declaration("func", "m", "NONE",
               FunctionType(TRUE, <<Param("x", "int"), Param(NoName, "int")>>, FALSE),
               TRUE)}

(* A caller and what it calls, in the body perhaps a typedef name. *)
CallNames == {"g", "m"}

CallForms ==
  {Declaration("func", "g", "NONE", t, body) : body \in BOOLEAN,
     t \in {Unspecified, NoParameters, FunctionType(TRUE, <<Param(NoName, "int")>>, FALSE)}}
  \union {Declaration("func", "g", "STATIC", NoParameters, body) : body \in BOOLEAN}
  \union {Declaration("func", "m", "NONE", NoParameters, TRUE),
          Declaration("typedef", "g", "NONE", IntType, FALSE)}

AllNames == FunctionNames \union ArrayNames \union ScopeNames \union CallNames
AllForms == FunctionForms \union ArrayForms \union ScopeForms \union CallForms

(* A unit keeps to one subject; only constructs go deeper than a body.     *)
(* Units of arrays are generated, which fails, and those with a caller; an *)
(* error ends the latter.                                                  *)
About(names) == \A i \in DOMAIN decls : decls[i].name \in names \union {NoName}
OneSubject ==
  \/ ~errors /\ Len(nest) <= 1 /\ About(CallNames)
  \/ /\ calls = <<>> /\ stage = "analysis"
     /\ \/ About(ScopeNames)
        \/ Len(nest) <= 1 /\ About(FunctionNames)
  \/ Len(nest) <= 1 /\ About(ArrayNames)

MCSpec == EInit /\ [][ENext /\ OneSubject']_allVars
=============================================================================
