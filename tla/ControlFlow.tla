----------------------------- MODULE ControlFlow -----------------------------
(* Generation of the blocks of one function (MLIRGen::emitBlock, emitIf,     *)
(* emitWhile, emitFor and the end of emitFunction), followed by a run of     *)
(* what was generated.  The body is not fixed in advance: every step of      *)
(* generation takes the next item of some body.  The recursion of emitBlock  *)
(* and the others is the stack `nest`.                                       *)
(*                                                                           *)
(* An item inside braces is like one without: emitBlock leaves the inner     *)
(* block behind a terminator, and then the outer one for the same reason.    *)
(* Expressions are kept as whether they read or assign a parameter; one      *)
(* parameter is enough, since parameters do not interact.                    *)
EXTENDS Integers, Sequences

CONSTANT Families  \* bounds: what the functions of a family are made of

\* The parts a for loop may have, what expressions may do with the parameter,
\* the kinds of functions, the tokens of a body before constructs are closed,
\* and how many constructs may be open at once.
ASSUME Bounds ==
  \A f \in Families :
    /\ f.uses \subseteq {"none", "read", "assign"}
    /\ f.results \subseteq {"void", "main", "int"}
    /\ f.forForms \subseteq [init : BOOLEAN, test : BOOLEAN, incr : BOOLEAN]
    /\ f.tokens \in Nat /\ f.depth \in Nat

VARIABLES family,      \* the member of Families the function belongs to
          source,      \* history: the body, as tokens of StructuredProgram
          result,      \* the kind of function
          blocks,      \* the blocks of the FuncOp, in order of creation
          cur,         \* the builder's insertion block; it inserts at the end
          nest,        \* activations of emitIf, emitWhile and emitFor
          loopTargets,
          stored,      \* is the parameter in `storage`?
          stage,       \* "emit", "run" or "failed"
          pc,          \* running: block and operation to be executed next
          at, outcome, turn, \* running, history: as in StructuredProgram
          memory       \* running: the parameter's slot

emission  == <<family, source, result, blocks, cur, nest, loopTargets, stored>>
execution == <<pc, at, outcome, turn, memory>>
vars      == <<emission, stage, execution>>

-----------------------------------------------------------------------------
(* Operations.  `token` is the statement or test an operation belongs to, 0  *)
(* for those that only lead from block to block.                             *)

Op(kind, token, to, use) == [kind |-> kind, token |-> token, to |-> to, use |-> use]

Branch(b)             == Op("br", 0, <<b>>, "none")
CondBranch(t, u, b, c) == Op("cond_br", t, <<b, c>>, u)
Alloca                == Op("alloca", 0, <<>>, "none")
Terminators == {"br", "cond_br", "return"}

NewBlock == [ops |-> <<>>, erased |-> FALSE]

Fresh(n) == [i \in 1..n |-> NewBlock]

\* blocks bs with the operations ops at the end of block b.
With(bs, b, ops) == [bs EXCEPT ![b].ops = @ \o ops]

Terminated(bs, b) == LET ops == bs[b].ops
                     IN  ops # <<>> /\ ops[Len(ops)].kind \in Terminators

\* br to b, unless the insertion block already ends.
Continue(b) == IF Terminated(blocks, cur) THEN blocks ELSE With(blocks, cur, <<Branch(b)>>)

\* How an expression reaches the parameter: emitExpr reads the slot if there is
\* one and the argument if not, emitLValue makes one.
Access(use, slot) == CASE use = "none"   -> "none"
                       [] use = "read"   -> IF slot THEN "slot" ELSE "argument"
                       [] use = "assign" -> "store"

MaterializeNothing == <<>>

\* materializeParameters, at every if and loop.
Materialize == IF stored THEN <<>> ELSE <<Alloca>>

\* emitLValue makes the slot of a parameter that is first assigned.
Lazily(use) == IF use = "assign" /\ ~stored THEN <<Alloca>> ELSE <<>>

-----------------------------------------------------------------------------
(* Generation.                                                               *)

Token(kind, test, rest, use) ==
  [kind |-> kind, depth |-> Len(nest), test |-> test, rest |-> rest, use |-> use]
Closing(kind) ==
  [kind |-> kind, depth |-> Len(nest) - 1, test |-> FALSE, rest |-> FALSE, use |-> "none"]

\* emitBlock takes the next item, unless the insertion block already ends.
CanEmit == /\ stage = "emit"
           /\ Len(source) < family.tokens
           /\ ~Terminated(blocks, cur)
CanOpen == CanEmit /\ Len(nest) < family.depth

Unchanged == UNCHANGED <<family, result, stage, execution>>

\* A declaration, an expression or a call.
Statement ==
  /\ CanEmit
  /\ \E u \in family.uses :
       /\ source' = Append(source, Token("stmt", FALSE, FALSE, u))
       /\ blocks' = With(blocks, cur, Lazily(u) \o
                           <<Op("stmt", Len(source) + 1, <<>>, Access(u, stored))>>)
       /\ stored' = (stored \/ u = "assign")
  /\ UNCHANGED <<cur, nest, loopTargets>> /\ Unchanged

\* An item behind the end of the insertion block, whatever it is, is left out.
LeaveOut ==
  /\ stage = "emit" /\ Len(source) < family.tokens
  /\ Terminated(blocks, cur)
  /\ source' = Append(source, Token("dead", FALSE, FALSE, "none"))
  /\ UNCHANGED <<blocks, cur, nest, loopTargets, stored>> /\ Unchanged

BreakTarget(targets) == targets.break

ContinueTarget(targets) == targets.continue

Jump(kind, target) ==
  /\ CanEmit /\ loopTargets # <<>>
  /\ source' = Append(source, Token(kind, FALSE, FALSE, "none"))
  /\ blocks' = With(blocks, cur, <<Branch(target)>>)
  /\ UNCHANGED <<cur, nest, loopTargets, stored>> /\ Unchanged

Break    == Jump("break", BreakTarget(loopTargets[Len(loopTargets)]))
ContinueStatement == Jump("continue", ContinueTarget(loopTargets[Len(loopTargets)]))

Return ==
  /\ CanEmit
  /\ \E u \in family.uses :
       /\ source' = Append(source, Token("return", FALSE, FALSE, u))
       /\ blocks' = With(blocks, cur, Lazily(u) \o
                           <<Op("return", Len(source) + 1, <<>>, Access(u, stored))>>)
       /\ stored' = (stored \/ u = "assign")
  /\ UNCHANGED <<cur, nest, loopTargets>> /\ Unchanged

\* emitIf, up to the statement of the then part.
BeginIf ==
  /\ CanOpen
  /\ \E u \in family.uses, hasElse \in BOOLEAN :
       LET n     == Len(blocks)
           then  == n + 1
           merge == IF hasElse THEN n + 3 ELSE n + 2
       IN  /\ source' = Append(source, Token("if", TRUE, hasElse, u))
           /\ blocks' = With(blocks \o Fresh(merge - n), cur,
                             Materialize \o <<CondBranch(Len(source) + 1, Access(u, TRUE),
                                                         then, n + 2)>>)
           /\ cur' = then
           /\ nest' = Append(nest, [kind |-> "then", next |-> n + 2, merge |-> merge,
                                    continues |-> TRUE, rest |-> hasElse])
  /\ stored' = TRUE
  /\ UNCHANGED loopTargets /\ Unchanged

Top == nest[Len(nest)]
Popped(s) == SubSeq(s, 1, Len(s) - 1)

\* The end of the then part: on to the else part, or behind the if.
EndThen ==
  /\ stage = "emit" /\ nest # <<>> /\ Top.kind = "then"
  /\ blocks' = Continue(Top.merge)
  /\ cur' = Top.next
  /\ IF Top.rest
     THEN /\ source' = Append(source, Closing("else"))
          /\ nest' = [nest EXCEPT ![Len(nest)].kind = "else",
                                  ![Len(nest)].continues = ~Terminated(blocks, cur)]
     ELSE /\ source' = Append(source, Closing("end"))
          /\ nest' = Popped(nest)
  /\ UNCHANGED <<loopTargets, stored>> /\ Unchanged

MergeNeededForElse(frame) == ~Terminated(blocks, cur)

\* The block behind an if is needed if one of its parts comes to its end.
MergeNeeded(frame) == frame.continues \/ ~Terminated(blocks, cur)

EndElse ==
  /\ stage = "emit" /\ nest # <<>> /\ Top.kind = "else"
  /\ source' = Append(source, Closing("end"))
  /\ IF MergeNeeded(Top)
     THEN blocks' = Continue(Top.merge) /\ cur' = Top.merge
     ELSE blocks' = [blocks EXCEPT ![Top.merge].erased = TRUE] /\ cur' = cur
  /\ nest' = Popped(nest)
  /\ UNCHANGED <<loopTargets, stored>> /\ Unchanged

\* emitWhile, up to the statement of its body.
BeginWhile ==
  /\ CanOpen
  /\ \E u \in family.uses :
       LET condition == Len(blocks) + 1
           body      == Len(blocks) + 2
           exit      == Len(blocks) + 3
       IN  /\ source' = Append(source, Token("while", TRUE, FALSE, u))
           /\ blocks' = With(With(blocks \o Fresh(3),
                                  cur, Materialize \o <<Branch(condition)>>),
                             condition, <<CondBranch(Len(source) + 1, Access(u, TRUE), body, exit)>>)
           /\ cur' = body
           /\ nest' = Append(nest, [kind |-> "while", next |-> condition, merge |-> exit,
                                    continues |-> TRUE, rest |-> FALSE])
           /\ loopTargets' = Append(loopTargets, [break |-> exit, continue |-> condition])
  /\ stored' = TRUE
  /\ Unchanged


\* loopTargets.pop_back().
DropTargets == loopTargets' = Popped(loopTargets)

EndWhile ==
  /\ stage = "emit" /\ nest # <<>> /\ Top.kind = "while"
  /\ source' = Append(source, Closing("end"))
  /\ blocks' = Continue(Top.next)
  /\ cur' = Top.merge
  /\ nest' = Popped(nest)
  /\ DropTargets
  /\ UNCHANGED stored /\ Unchanged

\* emitFor, up to the statement of its body; the initializer comes before it as
\* a statement of its own, and a loop without a condition always goes on.
BeginFor ==
  /\ CanOpen
  /\ \E u \in family.uses, form \in family.forForms :
       LET condition == Len(blocks) + 1
           body      == Len(blocks) + 2
           increment == Len(blocks) + 3
           exit      == Len(blocks) + 4
           init  == IF form.init THEN <<Token("stmt", FALSE, FALSE, u)>> ELSE <<>>
           t     == Len(source) + Len(init) + 1
       IN  /\ source' = source \o init \o <<Token("for", form.test, form.incr, u)>>
           /\ blocks' =
                With(With(blocks \o Fresh(4),
                          cur,
                          Materialize
                          \o [i \in 1..Len(init) |->
                                Op("stmt", Len(source) + 1, <<>>, Access(u, TRUE))]
                          \o <<Branch(condition)>>),
                     condition,
                     <<IF form.test THEN CondBranch(t, Access(u, TRUE), body, exit)
                                    ELSE [Branch(body) EXCEPT !.token = t]>>)
           /\ cur' = body
           /\ nest' = Append(nest, [kind |-> "for", next |-> condition, merge |-> exit,
                                    continues |-> TRUE, rest |-> form.incr])
           /\ loopTargets' = Append(loopTargets, [break |-> exit, continue |-> increment])
  /\ stored' = TRUE
  /\ Unchanged

EndFor ==
  /\ stage = "emit" /\ nest # <<>> /\ Top.kind = "for"
  /\ LET increment == loopTargets[Len(loopTargets)].continue
     IN  \E u \in IF Top.rest THEN family.uses ELSE {"none"} :
           /\ source' = Append(source, [Closing("end") EXCEPT !.use = u])
           /\ blocks' = With(Continue(increment), increment,
                             (IF Top.rest
                              THEN <<Op("stmt", Len(source) + 1, <<>>, Access(u, TRUE))>>
                              ELSE <<>>)
                             \o <<Branch(Top.next)>>)
  /\ cur' = Top.merge
  /\ nest' = Popped(nest)
  /\ DropTargets
  /\ UNCHANGED stored /\ Unchanged

\* A statement, a test or a type that is not supported ends generation.
Fail ==
  /\ stage = "emit"
  /\ stage' = "failed"
  /\ UNCHANGED <<emission, execution>>

\* The end of emitFunction: control that comes to the end of the body returns,
\* which only a void function and main may do.
EndBody ==
  /\ stage = "emit" /\ nest = <<>>
  /\ source' = Append(source, Token("finish", FALSE, FALSE, "none"))
  /\ IF Terminated(blocks, cur)
     THEN blocks' = blocks /\ stage' = "run"
     ELSE IF result = "int"
     THEN blocks' = blocks /\ stage' = "failed"
     ELSE /\ blocks' = With(blocks, cur, <<Op("return", Len(source) + 1, <<>>, "none")>>)
          /\ stage' = "run"
  /\ UNCHANGED <<family, result, cur, nest, loopTargets, stored, execution>>

-----------------------------------------------------------------------------
(* The generated function runs.                                              *)

Executed == blocks[pc.block].ops[pc.op]

Run ==
  /\ stage = "run"
  /\ pc.block # 0 /\ pc.op <= Len(blocks[pc.block].ops)
  /\ LET op == Executed IN
     /\ at' = IF op.token = 0 THEN at ELSE op.token
     /\ turn' = (turn = (op.token = 0))
     /\ outcome' \in IF op.kind = "cond_br" THEN BOOLEAN
                     ELSE IF op.token = 0 THEN {outcome} ELSE {TRUE}
     /\ pc' = CASE op.kind = "br"      -> [block |-> op.to[1], op |-> 1]
                [] op.kind = "cond_br" -> [block |-> op.to[IF outcome' THEN 1 ELSE 2], op |-> 1]
                [] op.kind = "return"  -> [block |-> 0, op |-> 1]
                [] OTHER               -> [pc EXCEPT !.op = @ + 1]
     /\ memory' = CASE op.kind = "alloca" -> [exists |-> TRUE, assigned |-> FALSE]
                    [] op.use = "store"   -> [memory EXCEPT !.assigned = TRUE]
                    [] OTHER              -> memory
  /\ UNCHANGED <<emission, stage>>

Init ==
  /\ source = <<>>
  /\ family \in Families
  /\ result \in family.results
  /\ blocks = <<NewBlock>>
  /\ cur = 1
  /\ nest = <<>>
  /\ loopTargets = <<>>
  /\ stored = FALSE
  /\ stage = "emit"
  /\ pc = [block |-> 1, op |-> 1]
  /\ at = 0 /\ outcome = TRUE /\ turn = TRUE
  /\ memory = [exists |-> FALSE, assigned |-> FALSE]

Emit == \/ Statement \/ LeaveOut \/ Break \/ ContinueStatement \/ Return
        \/ BeginIf \/ EndThen \/ EndElse
        \/ BeginWhile \/ EndWhile
        \/ BeginFor \/ EndFor
        \/ EndBody \/ Fail

Next == Emit \/ Run

\* A machine that runs the function executes one operation after the other.
Spec == Init /\ [][Next]_vars /\ WF_vars(Run)

-----------------------------------------------------------------------------
(* Properties.                                                               *)

\* A generated function passes the verifier: every block that was not erased
\* ends with its only terminator, leads to blocks that were not erased, and
\* never back to the entry block.
Verifies ==
  stage = "run" =>
    \A b \in DOMAIN blocks : ~blocks[b].erased =>
      LET ops == blocks[b].ops
      IN  /\ Terminated(blocks, b)
          /\ \A k \in 1..(Len(ops) - 1) : ops[k].kind \notin Terminators
          /\ \A c \in {ops[Len(ops)].to[i] : i \in DOMAIN ops[Len(ops)].to} :
               c # 1 /\ ~blocks[c].erased

\* The parameter has one value on every path: its slot exists before it is
\* used and is not made again once it has been assigned, and the argument is
\* read only as long as nothing was assigned.
ParameterIsCurrent ==
  stage = "run" /\ pc.block # 0 /\ pc.op <= Len(blocks[pc.block].ops) =>
    /\ Executed.use \in {"slot", "store"} => memory.exists
    /\ Executed.use = "argument" => ~memory.assigned
    /\ Executed.kind = "alloca" => ~memory.exists

\* The function generated runs the statements and tests of its body, in the
\* order C says, and never stops between them.
Source == INSTANCE StructuredProgram
            WITH program <- IF stage = "run" THEN source ELSE <<>>
RunsAsWritten == Source!Spec
=============================================================================
