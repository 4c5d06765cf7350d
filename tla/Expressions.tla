------------------------------ MODULE Expressions ------------------------------
(* Expressions of all kinds on one target: arithmetic ones, those with pointers, *)
(* and programs that assign through pointers.  The operands of those with        *)
(* pointers are parameters, and so are the types the program uses.               *)
EXTENDS IntegerExpressions, ConstantObjects

CONSTANTS Leaves,            \* identifiers and literals (PointerExpressions: Operands)
          PointerOperators,  \* binary operators (PointerExpressions: Operators)
          Conditions, Further, MaxLevels,
          KnownTypes         \* the types of the operands and of functions' parameters
VARIABLES exprs, sound

P == INSTANCE PointerExpressions WITH Operands <- Leaves, Operators <- PointerOperators

ASSUME PointerOperands == P!Conventional(KnownTypes)

\* Sema answers every expression with pointers as C does, and what the generator
\* makes of it has the type that is lowered from the AST's (see PointerExpressions).
PointersAsC == P!PointersAsC
=============================================================================
