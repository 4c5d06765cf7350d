--------------------------- MODULE FunctionEmission ---------------------------
(* Generation of a module from an analysed unit (MLIRGen::generate,          *)
(* declareFunction, emitFunction, emitCall), on top of the walk that accepted *)
(* the unit: which declaration of each function is selected, what is declared *)
(* under its canonical declaration, and how calls find it again.             *)
(*                                                                           *)
(* Bodies are kept as the calls they make; any other statement may turn out  *)
(* to be one that generation does not support, and ends it.                  *)
EXTENDS Declarations

VARIABLES stage,     \* where generate() is
          at,        \* where the loop it is in goes on
          order,     \* canonical declarations, as first met
          selected,  \* canonical declaration -> the one generation goes by
          functions, \* canonical declaration -> the one whose signature its FuncOp has
          public,    \* canonical declarations whose FuncOp was made public
          emitted    \* canonical declarations whose body was emitted, in order

generation == <<stage, at, order, selected, functions, public, emitted>>
allVars    == <<vars, generation>>

Empty == [i \in 1..MaxDecls |-> NoDecl]

EInit ==
  /\ Init
  /\ stage = "analysis" /\ at = 1 /\ order = <<>>
  /\ selected = Empty /\ functions = Empty /\ public = {} /\ emitted = <<>>

\* unit.decls holds the declarations at file scope; these are still to come.
Remaining == {i \in DOMAIN decls : decls[i].depth = 1 /\ i >= at}
IsNext(d) == d \in Remaining /\ \A e \in Remaining : d <= e

Analyse == Next /\ stage = "analysis" /\ UNCHANGED generation

\* Generation runs only after an analysis without errors.
StartGeneration ==
  /\ stage = "analysis" /\ phase = "analyzed" /\ ~errors
  /\ stage' = "select"
  /\ UNCHANGED <<vars, at, order, selected, functions, public, emitted>>

\* The key under which a declaration is selected, declared and called.
Key(d) == decls[d].canonical

\* A later declaration takes over if it has the body, or if there is no body
\* yet and it brings a prototype.
Supersedes(d) ==
  \/ decls[d].body
  \/ ~decls[selected[Key(d)]].body /\ decls[d].type.proto

SkipTypedef ==
  /\ stage = "select"
  /\ \E d \in Remaining : /\ IsNext(d) /\ decls[d].kind = "typedef"
                          /\ at' = d + 1
  /\ UNCHANGED <<vars, stage, order, selected, functions, public, emitted>>

Select ==
  /\ stage = "select"
  /\ \E d \in Remaining :
       /\ IsNext(d) /\ decls[d].kind = "func"
       /\ at' = d + 1
       /\ order' = IF selected[Key(d)] = NoDecl THEN Append(order, Key(d)) ELSE order
       /\ selected' = IF selected[Key(d)] = NoDecl \/ Supersedes(d)
                      THEN [selected EXCEPT ![Key(d)] = d]
                      ELSE selected
  /\ UNCHANGED <<vars, stage, functions, public, emitted>>

\* File-scope objects and tags are not supported.
RefuseDeclaration ==
  /\ stage = "select"
  /\ \E d \in Remaining : IsNext(d) /\ decls[d].kind \notin {"typedef", "func"}
  /\ stage' = "failed"
  /\ UNCHANGED <<vars, at, order, selected, functions, public, emitted>>

EndSelection ==
  /\ stage = "select" /\ Remaining = {}
  /\ stage' = "declare" /\ at' = 1
  /\ UNCHANGED <<vars, order, selected, functions, public, emitted>>

\* declareFunction: a private FuncOp with the selected declaration's signature.
\* A variadic signature is not supported; nor, perhaps, are its types.
DeclareSelected ==
  /\ stage = "declare" /\ at <= Len(order)
  /\ LET d == selected[order[at]] IN
     \/ /\ ~decls[d].type.variadic
        /\ functions' = [functions EXCEPT ![Key(d)] = d]
        /\ at' = at + 1
        /\ UNCHANGED stage
     \/ stage' = "failed" /\ UNCHANGED <<at, functions>>
  /\ UNCHANGED <<vars, order, selected, public, emitted>>

EndDeclarations ==
  /\ stage = "declare" /\ at > Len(order)
  /\ stage' = "emit" /\ at' = 1
  /\ UNCHANGED <<vars, order, selected, functions, public, emitted>>

\* emitCall: the callee's canonical declaration has a FuncOp, and the call has
\* as many arguments as its signature.
Callable(c) ==
  LET f == functions[Key(c.decl)]
  IN  /\ decls[c.decl].kind = "func"
      /\ f # NoDecl
      /\ c.args = Len(decls[f].type.params)

\* The calls of the body of d that control can reach.
BodyCalls(d) == {c \in {calls[i] : i \in DOMAIN calls} : c.fn = d /\ c.live}

ExternalBySelected(d) == decls[d].sc # "STATIC"

\* A function is internal if the selected or the first declaration is static.
External(d) == decls[d].sc # "STATIC" /\ decls[Key(d)].sc # "STATIC"

\* A declaration without a body stays private.
SkipBodyless ==
  /\ stage = "emit" /\ at <= Len(order)
  /\ ~decls[selected[order[at]]].body
  /\ at' = at + 1
  /\ UNCHANGED <<vars, stage, order, selected, functions, public, emitted>>

\* emitFunction, when the whole body is emitted.
EmitFunction ==
  /\ stage = "emit" /\ at <= Len(order)
  /\ LET d == selected[order[at]] IN
     /\ decls[d].body
     /\ \A c \in BodyCalls(d) : Callable(c)
     /\ public' = IF External(d) THEN public \union {Key(d)} ELSE public
     /\ emitted' = Append(emitted, Key(d))
  /\ at' = at + 1
  /\ UNCHANGED <<vars, stage, order, selected, functions>>

\* emitFunction, stopped by a call or by a statement that is not supported.
FailBody ==
  /\ stage = "emit" /\ at <= Len(order)
  /\ LET d == selected[order[at]] IN
     /\ decls[d].body
     /\ public' = IF External(d) THEN public \union {Key(d)} ELSE public
  /\ stage' = "failed"
  /\ UNCHANGED <<vars, at, order, selected, functions, emitted>>

EndEmissionEarly ==
  /\ stage = "emit" /\ at >= Len(order)
  /\ stage' = "generated"
  /\ UNCHANGED <<vars, at, order, selected, functions, public, emitted>>

EndEmission ==
  /\ stage = "emit" /\ at > Len(order)
  /\ stage' = "generated"
  /\ UNCHANGED <<vars, at, order, selected, functions, public, emitted>>

Generate == \/ StartGeneration
            \/ SkipTypedef \/ Select \/ RefuseDeclaration \/ EndSelection
            \/ DeclareSelected \/ EndDeclarations
            \/ SkipBodyless \/ EmitFunction \/ FailBody \/ EndEmission

ENext == Analyse \/ Generate

ESpec == EInit /\ [][ENext]_allVars

-----------------------------------------------------------------------------
(* Properties.                                                               *)

\* A call that analysis checked against a prototype at file scope never fails
\* emitCall's own checks: its callee is declared in the module, with as many
\* parameters as the call has arguments, whichever declaration was selected.
CheckedCallsAreCallable ==
  stage \in {"emit", "generated"} =>
    \A i \in DOMAIN calls :
       LET d == decls[calls[i].decl]
       IN  d.kind = "func" /\ d.depth = 1 /\ d.type.proto => Callable(calls[i])

\* The linkage of an emitted function is that of its first declaration, as in
\* C: a later declaration without `static` does not export it.
LinkageAsDeclared ==
  \A i \in DOMAIN emitted :
    \A d \in DOMAIN decls :
       /\ AtFileScope(d) /\ decls[d].name = decls[emitted[i]].name
       /\ \A e \in 1..(d - 1) : ~SameName(d, e)
       => (emitted[i] \in public <=> decls[d].sc # "STATIC")

\* A generated module has every body the unit defines, once.
EveryBodyIsEmitted ==
  stage = "generated" =>
    \A d \in DOMAIN decls : decls[d].ok /\ decls[d].body =>
       \E i \in DOMAIN emitted :
          /\ emitted[i] = Key(d) /\ selected[Key(d)] = d
          /\ \A j \in DOMAIN emitted : emitted[j] = Key(d) => j = i
=============================================================================
