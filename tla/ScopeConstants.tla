--------------------------- MODULE ScopeConstants ----------------------------
(* What the scopes of TypedefNames are made of.                              *)
EXTENDS Integers

CONSTANTS Names,     \* identifiers
          Types,     \* types a typedef may stand for
          Object, Function, None,
          MaxScopes  \* bound: scopes open at once

ASSUME Distinct == Object # Function /\ Object # None /\ Function # None
                   /\ {Object, Function, None} \intersect Types = {}
ASSUME ScopeBound == MaxScopes \in Nat
=============================================================================
