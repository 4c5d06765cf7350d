---------------------------- MODULE TypedefNames -----------------------------
(* Which identifiers the parser takes for type names (Parser::isTypeName).   *)
(* The grammar of C needs to know, and the parser runs before Sema has any   *)
(* scopes: it keeps one map, `_typedefs`, copies it where a scope begins and *)
(* puts the copy back where the scope ends.  `scopes` is a history variable, *)
(* the scopes of C, with which the map is compared.                          *)
(*                                                                           *)
(* The recursion of parseFuncDecl, parseCompoundStmt and parseForStmt is the *)
(* stack `active`.  Statements that declare nothing are left out; the body   *)
(* of a for may contain several blocks, the branches of an if.  The texts    *)
(* are those in which a scope declares a name in one way only: Sema refuses  *)
(* the others.                                                               *)
EXTENDS ScopeConstants, Sequences

VARIABLES _typedefs, \* type a name stands for, None if it is no type name
          active,    \* activations with a copy of _typedefs, the innermost last
          scopes,    \* history: what each scope of C declares a name as
          failed     \* _diag.hasErrors()

vars == <<_typedefs, active, scopes, failed>>

Maps     == [Names -> Types \union {None}]
Entities == Types \union {Object, Function, None}
Nothing  == [n \in Names |-> None]

-----------------------------------------------------------------------------
KeepHidden(typedefs, hidden) == typedefs

\* erase
Without(typedefs, hidden) == [n \in Names |-> IF n \in hidden THEN None ELSE typedefs[n]]

Activation(kind, saved) == [kind |-> kind, saved |-> saved]
Top == active[Len(active)]
AtFileScope == active = <<>>

\* Where parseDecl is called: for external declarations, the items of a block
\* and the initializer of a for.
TakesDeclaration == /\ ~failed
                    /\ ~AtFileScope => Top.kind \in {"block", "for"}

\* The initializer is followed by the header's rest and the body.
AfterDeclaration ==
  active' = IF ~AtFileScope /\ Top.kind = "for"
            THEN [active EXCEPT ![Len(active)].kind = "for body"] ELSE active

Innermost == scopes[Len(scopes)]
Declares(n, entity) == /\ Innermost[n] \in {None, entity}
                       /\ scopes' = [scopes EXCEPT ![Len(scopes)][n] = entity]

Typedef ==
  /\ TakesDeclaration
  /\ \E n \in Names, t \in Types :
       /\ Declares(n, t)
       /\ _typedefs' = [_typedefs EXCEPT ![n] = t]
  /\ AfterDeclaration
  /\ UNCHANGED failed

\* An object's name is erased before its initializer is parsed; at file scope
\* there is nothing it could hide.
DeclareObject ==
  /\ TakesDeclaration
  /\ \E n \in Names :
       /\ Declares(n, Object)
       /\ _typedefs' = IF AtFileScope THEN _typedefs ELSE Without(_typedefs, {n})
  /\ AfterDeclaration
  /\ UNCHANGED failed

\* A function declaration, even in a block, leaves the map alone.
DeclareFunction ==
  /\ TakesDeclaration
  /\ \E n \in Names : Declares(n, Function)
  /\ AfterDeclaration
  /\ UNCHANGED <<_typedefs, failed>>

\* The copy parseFuncDecl makes, before it hides the parameters.
CopyForFunction(params) == _typedefs

\* parseFuncDecl hides the parameters, parseCompoundStmt copies the map again.
BeginFunction ==
  /\ ~failed /\ AtFileScope
  /\ Len(scopes) + 2 <= MaxScopes
  /\ \E n \in Names, params \in SUBSET Names :
       /\ Innermost[n] \in {None, Function}
       /\ scopes' = Append(Append([scopes EXCEPT ![1][n] = Function],
                                  [p \in Names |-> IF p \in params THEN Object ELSE None]),
                           Nothing)
       /\ _typedefs' = Without(_typedefs, params)
       /\ active' = <<Activation("function", CopyForFunction(params)),
                      Activation("block", Without(_typedefs, params))>>
  /\ UNCHANGED failed

\* savedTypedefs = _typedefs
Copied(kind) == Append(active, Activation(kind, _typedefs))

Open(kind) ==
  /\ ~failed /\ active # <<>> /\ Top.kind \in {"block", "for body"}
  /\ Len(scopes) < MaxScopes
  /\ active' = Copied(kind)
  /\ scopes' = Append(scopes, Nothing)
  /\ UNCHANGED <<_typedefs, failed>>

OpenBlock == Open("block")
BeginFor  == Open("for")

\* A for whose initializer is no declaration.
SkipInitializer ==
  /\ ~failed /\ active # <<>> /\ Top.kind = "for"
  /\ active' = [active EXCEPT ![Len(active)].kind = "for body"]
  /\ UNCHANGED <<_typedefs, scopes, failed>>

\* _typedefs = std::move(savedTypedefs), with the activations up to depth left.
Restored(depth) == active[depth + 1].saved

Leave(depth) ==
  /\ _typedefs' = Restored(depth)
  /\ active' = SubSeq(active, 1, depth)
  /\ scopes' = SubSeq(scopes, 1, depth + 1)

\* The end of a block, and with the body's that of the function.
CloseBlock ==
  /\ ~failed /\ active # <<>> /\ Top.kind = "block"
  /\ Leave(IF Len(active) = 2 THEN 0 ELSE Len(active) - 1)
  /\ UNCHANGED failed

EndFor ==
  /\ ~failed /\ active # <<>> /\ Top.kind = "for body"
  /\ Leave(Len(active) - 1)
  /\ UNCHANGED failed

\* After an error every activation returns, and parse takes nothing more.
Fail ==
  /\ ~failed
  /\ failed' = TRUE
  /\ IF AtFileScope THEN UNCHANGED <<_typedefs, active, scopes>> ELSE Leave(0)

Init == /\ _typedefs = Nothing
        /\ active = <<>>
        /\ scopes = <<Nothing>>
        /\ failed = FALSE

Next == \/ Typedef \/ DeclareObject \/ DeclareFunction
        \/ BeginFunction \/ OpenBlock \/ CloseBlock
        \/ BeginFor \/ SkipInitializer \/ EndFor
        \/ Fail

Spec == Init /\ [][Next]_vars

-----------------------------------------------------------------------------
(* Properties.                                                               *)

\* The map, its copies and the scopes keep their types, and there is a scope
\* for every activation.
TypeOK ==
  /\ _typedefs \in Maps
  /\ active \in Seq([kind : {"function", "block", "for", "for body"}, saved : Maps])
  /\ scopes \in Seq([Names -> Entities])
  /\ Len(scopes) = Len(active) + 1
  /\ failed \in BOOLEAN

\* Scope i of sc declares n, and not as a function inside a body.
Hides(sc, i, n) == sc[i][n] # None /\ (i = 1 \/ sc[i][n] # Function)

\* n is declared last in scope i of the first depth scopes.
DeclaredIn(sc, i, n, depth) == Hides(sc, i, n) /\ \A j \in (i + 1)..depth : ~Hides(sc, j, n)

\* With the first depth scopes of sc, typedefs knows the type names of C.
Classifies(sc, typedefs, depth) ==
  \A n \in Names :
    /\ \A i \in 1..depth : DeclaredIn(sc, i, n, depth) =>
         typedefs[n] = IF sc[i][n] \in Types THEN sc[i][n] ELSE None
    /\ (\A i \in 1..depth : ~Hides(sc, i, n)) => typedefs[n] = None

\* An identifier is taken for a type name exactly where its innermost
\* declaration is a typedef, and for that typedef's type, unless that
\* declaration is the one of a function in a block, which the parser ignores.
ClassifiesAsC == Classifies(scopes, _typedefs, Len(scopes))

\* The copy an activation will put back knows the type names of the scopes
\* around it, so that nothing declared inside reaches what follows.
CopiesClassify == \A d \in DOMAIN active : Classifies(scopes, active[d].saved, d)
=============================================================================
