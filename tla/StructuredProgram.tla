------------------------- MODULE StructuredProgram --------------------------
(* What a function body does when it is run as C says: which of its          *)
(* statements and tests come after which.  The body is a sequence of tokens, *)
(* a construct opening and closing at its depth; `rest` marks an if with an  *)
(* else part and a for with an increment, which runs at its end token, and   *)
(* `test` a loop with a condition.  What the statements compute is left out, *)
(* and the outcome of a test is a choice.                                    *)
EXTENDS Integers, Sequences, FiniteSetsExt

Kinds == {"stmt", "if", "else", "while", "for", "end", "break", "continue",
          "return", "dead", "finish"}
Tokens == [kind : Kinds, depth : Nat, test : BOOLEAN, rest : BOOLEAN,
           use : {"none", "read", "assign"}]

VARIABLES program,  \* the body, ending with a "finish" token; empty before it is known
          at,       \* the token executed last, 0 at first
          outcome,  \* what its test gave
          turn      \* changes with every token executed, a repeated one too

-----------------------------------------------------------------------------
Loops == {"while", "for"}

\* The next token that closes the part of the construct i belongs to.
Closer(p, i) == Min({j \in (i + 1)..Len(p) :
                       p[j].kind \in {"else", "end"} /\ p[j].depth = p[i].depth})
End(p, i)    == Min({j \in (i + 1)..Len(p) :
                       p[j].kind = "end" /\ p[j].depth = p[i].depth})
Opener(p, j) == Max({i \in 1..(j - 1) :
                       p[i].kind \in Loops \union {"if"} /\ p[i].depth = p[j].depth})
LoopOf(p, i) == Max({l \in 1..(i - 1) :
                       p[l].kind \in Loops /\ p[l].depth < p[i].depth /\ End(p, l) > i})

\* Where a loop goes on after its body.
NextRound(p, l) == IF p[l].rest THEN End(p, l) ELSE l

\* The token executed first when control arrives at token j.
Arrive(p) ==
  LET arrive[j \in 1..Len(p)] ==
        CASE p[j].kind = "else"     -> arrive[End(p, j) + 1]
          [] p[j].kind = "break"    -> arrive[End(p, LoopOf(p, j)) + 1]
          [] p[j].kind = "continue" -> NextRound(p, LoopOf(p, j))
          [] p[j].kind = "end"      ->
               LET i == Opener(p, j)
               IN  IF p[i].kind = "if" THEN arrive[j + 1] ELSE NextRound(p, i)
          [] OTHER                  -> j
  IN  arrive

\* The token executed after token i, 0 if there is none.
Successor(p, i, out) ==
  LET arrive == Arrive(p) IN
  IF i = 0 THEN arrive[1]
  ELSE CASE p[i].kind = "if"            -> arrive[IF out THEN i + 1 ELSE Closer(p, i) + 1]
         [] p[i].kind \in Loops         -> arrive[IF out THEN i + 1 ELSE End(p, i) + 1]
         [] p[i].kind = "end"           -> Opener(p, i)
         [] p[i].kind \in {"return", "finish"} -> 0
         [] OTHER                       -> arrive[i + 1]

Tested(t) == t.kind \in Loops \union {"if"} /\ t.test

-----------------------------------------------------------------------------
Init == program = <<>> /\ at = 0 /\ outcome = TRUE /\ turn = TRUE

Start == /\ program = <<>>
         /\ program' \in Seq(Tokens) \ {<<>>}
         /\ UNCHANGED <<at, outcome, turn>>

Step == /\ program # <<>>
        /\ LET next == Successor(program, at, outcome)
           IN  /\ next # 0
               /\ at' = next
               /\ outcome' \in IF Tested(program[next]) THEN BOOLEAN ELSE {TRUE}
        /\ turn' = ~turn
        /\ UNCHANGED program

Next == Start \/ Step

\* A function that runs comes to its next statement.
Spec == /\ Init
        /\ [][Next]_<<program, at, outcome, turn>>
        /\ WF_<<program, at, outcome, turn>>(Step)
=============================================================================
