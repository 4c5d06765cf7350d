-------------------------- MODULE ControlFlow_proofs --------------------------
(* Proof that generated functions verify, that their parameter is current and  *)
(* that they run as written, for any bodies.  The blocks still to be filled by *)
(* the open constructs lie in the order the constructs were opened in, so no   *)
(* two constructs share one; and every block is made for a point of the body   *)
(* that is known as soon as its construct is, so that each of its operations   *)
(* stands where a token does.                                                  *)
EXTENDS ControlFlow, SequenceTheorems, NaturalsInduction, WellFoundedInduction, TLAPS

Kinds      == {"stmt", "alloca", "br", "cond_br", "return"}
Reaches    == {"none", "argument", "slot", "store"}
Operations == [kind : Kinds, token : Nat, to : Seq(Nat), use : Reaches]
OpSeqs     == Seq(Operations)
Blocks     == [ops : OpSeqs, erased : BOOLEAN]
Frames     == [kind : {"then", "else", "while", "for"}, next : Nat, merge : Nat,
               continues : BOOLEAN, rest : BOOLEAN]
Tokens     == [kind : {"stmt", "dead", "break", "continue", "return", "if", "else", "end",
                       "while", "for", "finish"},
               depth : Int, test : BOOLEAN, rest : BOOLEAN, use : {"none", "read", "assign"}]

\* What operations of a block are asked: do they end it, do they end it before
\* the last, do they lead to c, do branches have the successors they need, and
\* how do they reach the parameter: as an argument, in its slot, or first the
\* one and, once they have made the slot, the other.
Ends(ops)      == ops # <<>> /\ ops[Len(ops)].kind \in Terminators
EndsOnce(ops)  == \A k \in 1 .. Len(ops) - 1 : ops[k].kind \notin Terminators
LeadsTo(ops, c) == \E k \in 1 .. Len(ops) : \E m \in DOMAIN ops[k].to : ops[k].to[m] = c
Shaped(ops) == \A k \in 1 .. Len(ops) :
                 /\ ops[k].kind = "br" => 1 \in DOMAIN ops[k].to
                 /\ ops[k].kind = "cond_br" => {1, 2} \subseteq DOMAIN ops[k].to
InArgument(ops) == \A k \in 1 .. Len(ops) :
                     ops[k].kind # "alloca" /\ ops[k].use \in {"none", "argument"}
InSlot(ops)     == \A k \in 1 .. Len(ops) :
                     ops[k].kind # "alloca" /\ ops[k].use \in {"none", "slot", "store"}
MakesAt(ops, a) == /\ ops[a].kind = "alloca" /\ ops[a].use = "none"
                   /\ \A k \in 1 .. a - 1 :
                        ops[k].kind # "alloca" /\ ops[k].use \in {"none", "argument"}
                   /\ \A k \in a + 1 .. Len(ops) :
                        ops[k].kind # "alloca" /\ ops[k].use \in {"none", "slot", "store"}
MakesSlot(ops)  == \E a \in 1 .. Len(ops) : MakesAt(ops, a)

-----------------------------------------------------------------------------
(* Rows of operations.                                                        *)

\* The row t is the row s and then the row e.
AreJoined(s, e, t) ==
  /\ t \in OpSeqs /\ Len(t) = Len(s) + Len(e)
  /\ Len(s) \in Nat /\ Len(e) \in Nat
  /\ (s = <<>> <=> Len(s) = 0) /\ (e = <<>> <=> Len(e) = 0) /\ (t = <<>> <=> Len(t) = 0)
  /\ \A k \in 1 .. Len(s) : k \in 1 .. Len(t) /\ t[k] = s[k]
  /\ \A k \in 1 .. Len(e) : Len(s) + k \in 1 .. Len(t) /\ t[Len(s) + k] = e[k]
  /\ \A k \in 1 .. Len(t) :
       \/ k \in 1 .. Len(s) /\ t[k] = s[k]
       \/ k > Len(s) /\ k - Len(s) \in 1 .. Len(e) /\ t[k] = e[k - Len(s)]

LEMMA Joined ==
  ASSUME NEW s \in OpSeqs, NEW e \in OpSeqs
  PROVE  AreJoined(s, e, s \o e)
BY SMT DEF OpSeqs, AreJoined

\* What is put behind a row leads where the row led and where it leads itself.
LEMMA JoinedLeads ==
  ASSUME NEW s \in OpSeqs, NEW e \in OpSeqs, NEW c
  PROVE  LeadsTo(s \o e, c) <=> LeadsTo(s, c) \/ LeadsTo(e, c)
<1> DEFINE t == s \o e
<1>0. AreJoined(s, e, t)
  BY Joined
<1> HIDE DEF t
<1>1. LeadsTo(t, c) => LeadsTo(s, c) \/ LeadsTo(e, c)
  <2> SUFFICES ASSUME NEW k \in 1 .. Len(t), NEW m \in DOMAIN t[k].to, t[k].to[m] = c
               PROVE  LeadsTo(s, c) \/ LeadsTo(e, c)
    BY DEF LeadsTo
  <2>1. \/ k \in 1 .. Len(s) /\ t[k] = s[k]
        \/ k - Len(s) \in 1 .. Len(e) /\ t[k] = e[k - Len(s)]
    BY <1>0 DEF AreJoined
  <2> QED BY <2>1 DEF LeadsTo
<1>2. LeadsTo(s, c) => LeadsTo(t, c)
  BY <1>0 DEF LeadsTo, AreJoined
<1>3. LeadsTo(e, c) => LeadsTo(t, c)
  <2> SUFFICES ASSUME NEW k \in 1 .. Len(e), NEW m \in DOMAIN e[k].to, e[k].to[m] = c
               PROVE  LeadsTo(t, c)
    BY DEF LeadsTo
  <2>1. t[Len(s) + k] = e[k] /\ Len(s) + k \in 1 .. Len(t)
    BY <1>0 DEF AreJoined
  <2> QED BY <2>1 DEF LeadsTo
<1> QED BY <1>1, <1>2, <1>3 DEF t

\* What is put behind a row that does not end a block ends it as by itself.
LEMMA JoinedEnds ==
  ASSUME NEW s \in OpSeqs, NEW e \in OpSeqs, ~Ends(s), EndsOnce(s), EndsOnce(e)
  PROVE  /\ EndsOnce(s \o e)
         /\ e # <<>> => (Ends(s \o e) <=> Ends(e))
<1> DEFINE t == s \o e
<1>0. AreJoined(s, e, t)
  BY Joined
<1> HIDE DEF t
<1>1. ASSUME NEW k \in 1 .. Len(s)
      PROVE  s[k].kind \notin Terminators
  <2>1. k = Len(s) \/ k \in 1 .. Len(s) - 1
    BY <1>0 DEF AreJoined
  <2>2. s # <<>>
    BY <1>0 DEF AreJoined
  <2> QED BY <2>1, <2>2 DEF Ends, EndsOnce
<1>2. ASSUME NEW k \in 1 .. Len(t) - 1
      PROVE  t[k].kind \notin Terminators
  <2>1. \/ k \in 1 .. Len(s) /\ t[k] = s[k]
        \/ k - Len(s) \in 1 .. Len(e) - 1 /\ t[k] = e[k - Len(s)]
    BY <1>0 DEF AreJoined
  <2> QED BY <1>1, <2>1 DEF EndsOnce
<1>3. ASSUME e # <<>>
      PROVE  Ends(t) <=> Ends(e)
  <2>1. t # <<>> /\ t[Len(t)] = e[Len(e)]
    <3>1. Len(e) \in 1 .. Len(e)
      BY <1>0, <1>3 DEF AreJoined
    <3> QED BY <1>0, <3>1 DEF AreJoined
  <2> QED BY <1>3, <2>1 DEF Ends
<1> QED BY <1>2, <1>3 DEF EndsOnce, t

LEMMA JoinedShape ==
  ASSUME NEW s \in OpSeqs, NEW e \in OpSeqs, Shaped(s), Shaped(e)
  PROVE  Shaped(s \o e)
<1> DEFINE t == s \o e
<1>0. AreJoined(s, e, t)
  BY Joined
<1> HIDE DEF t
<1>1. ASSUME NEW k \in 1 .. Len(t)
      PROVE  /\ t[k].kind = "br" => 1 \in DOMAIN t[k].to
             /\ t[k].kind = "cond_br" => {1, 2} \subseteq DOMAIN t[k].to
  <2>1. \/ k \in 1 .. Len(s) /\ t[k] = s[k]
        \/ k - Len(s) \in 1 .. Len(e) /\ t[k] = e[k - Len(s)]
    BY <1>0 DEF AreJoined
  <2> QED BY <2>1 DEF Shaped
<1> QED BY <1>1 DEF Shaped, t

\* How joined rows reach the parameter.
LEMMA JoinedParameter ==
  ASSUME NEW s \in OpSeqs, NEW e \in OpSeqs
  PROVE  /\ InArgument(s) /\ InArgument(e) => InArgument(s \o e)
         /\ InSlot(s) /\ InSlot(e) => InSlot(s \o e)
         /\ InArgument(s) /\ MakesSlot(e) => MakesSlot(s \o e)
         /\ MakesSlot(s) /\ InSlot(e) => MakesSlot(s \o e)
<1> DEFINE t == s \o e
<1>0. AreJoined(s, e, t)
  BY Joined
<1> HIDE DEF t
<1>k. ASSUME NEW k \in 1 .. Len(t)
      PROVE  \/ k \in 1 .. Len(s) /\ t[k] = s[k]
             \/ k > Len(s) /\ k - Len(s) \in 1 .. Len(e) /\ t[k] = e[k - Len(s)]
  BY <1>0 DEF AreJoined
<1>1. InArgument(s) /\ InArgument(e) => InArgument(t)
  BY <1>k DEF InArgument
<1>2. InSlot(s) /\ InSlot(e) => InSlot(t)
  BY <1>k DEF InSlot
<1>3. ASSUME InArgument(s), MakesSlot(e)
      PROVE  MakesSlot(t)
  <2>1. PICK a \in 1 .. Len(e) : MakesAt(e, a)
    BY <1>3 DEF MakesSlot
  <2>2. /\ Len(s) + a \in 1 .. Len(t) /\ t[Len(s) + a] = e[a]
        /\ Len(t) = Len(s) + Len(e) /\ Len(s) \in Nat /\ Len(e) \in Nat
    BY <1>0 DEF AreJoined
  <2>3. ASSUME NEW k \in 1 .. Len(s) + a - 1
        PROVE  t[k].kind # "alloca" /\ t[k].use \in {"none", "argument"}
    <3>1. k \in 1 .. Len(t)
      BY <2>2
    <3>2. \/ k \in 1 .. Len(s) /\ t[k] = s[k]
          \/ k - Len(s) \in 1 .. a - 1 /\ t[k] = e[k - Len(s)]
      BY <1>k, <2>2, <3>1
    <3> QED BY <1>3, <2>1, <3>2 DEF InArgument, MakesAt
  <2>4. ASSUME NEW k \in Len(s) + a + 1 .. Len(t)
        PROVE  t[k].kind # "alloca" /\ t[k].use \in {"none", "slot", "store"}
    <3>1. k \in 1 .. Len(t)
      BY <2>2
    <3>2. k - Len(s) \in a + 1 .. Len(e) /\ t[k] = e[k - Len(s)]
      BY <1>k, <2>2, <3>1
    <3> QED BY <2>1, <3>2 DEF MakesAt
  <2>5. MakesAt(t, Len(s) + a)
    BY <2>1, <2>2, <2>3, <2>4 DEF MakesAt
  <2> QED BY <2>2, <2>5 DEF MakesSlot
<1>4. ASSUME MakesSlot(s), InSlot(e)
      PROVE  MakesSlot(t)
  <2>1. PICK a \in 1 .. Len(s) : MakesAt(s, a)
    BY <1>4 DEF MakesSlot
  <2>2. /\ a \in 1 .. Len(t) /\ t[a] = s[a]
        /\ Len(t) = Len(s) + Len(e) /\ Len(s) \in Nat /\ Len(e) \in Nat
    BY <1>0 DEF AreJoined
  <2>3. ASSUME NEW k \in 1 .. a - 1
        PROVE  t[k].kind # "alloca" /\ t[k].use \in {"none", "argument"}
    <3>1. k \in 1 .. Len(t)
      BY <2>2
    <3>2. t[k] = s[k]
      BY <1>k, <2>2, <3>1
    <3> QED BY <2>1, <3>2 DEF MakesAt
  <2>4. ASSUME NEW k \in a + 1 .. Len(t)
        PROVE  t[k].kind # "alloca" /\ t[k].use \in {"none", "slot", "store"}
    <3>1. k \in 1 .. Len(t)
      BY <2>2
    <3>2. \/ k \in a + 1 .. Len(s) /\ t[k] = s[k]
          \/ k - Len(s) \in 1 .. Len(e) /\ t[k] = e[k - Len(s)]
      BY <1>k, <2>2, <3>1
    <3> QED BY <1>4, <2>1, <3>2 DEF MakesAt, InSlot
  <2>5. MakesAt(t, a)
    BY <2>1, <2>2, <2>3, <2>4 DEF MakesAt
  <2> QED BY <2>2, <2>5 DEF MakesSlot
<1> QED BY <1>1, <1>2, <1>3, <1>4 DEF t

-----------------------------------------------------------------------------
(* The rows generation writes.                                                *)

\* One operation.
LEMMA SingleOp ==
  ASSUME NEW o \in Operations
  PROVE  /\ <<o>> \in OpSeqs /\ <<o>> # <<>> /\ EndsOnce(<<o>>)
         /\ Ends(<<o>>) <=> o.kind \in Terminators
         /\ \A c : LeadsTo(<<o>>, c) <=> \E m \in DOMAIN o.to : o.to[m] = c
         /\ Shaped(<<o>>) <=> /\ o.kind = "br" => 1 \in DOMAIN o.to
                              /\ o.kind = "cond_br" => {1, 2} \subseteq DOMAIN o.to
         /\ o.kind # "alloca" /\ o.use \in {"none", "argument"} => InArgument(<<o>>)
         /\ o.kind # "alloca" /\ o.use \in {"none", "slot", "store"} => InSlot(<<o>>)
         /\ o.kind = "alloca" /\ o.use = "none" => MakesSlot(<<o>>)
<1> DEFINE t == <<o>>
<1>1. t \in OpSeqs /\ t # <<>> /\ Len(t) = 1 /\ t[1] = o
  BY DEF OpSeqs
<1> HIDE DEF t
<1>2. \A k \in 1 .. Len(t) : k = 1
  BY <1>1
<1>3. 1 \in 1 .. Len(t) /\ 1 .. Len(t) - 1 = {}
  BY <1>1
<1>4. EndsOnce(t) /\ (Ends(t) <=> o.kind \in Terminators)
  BY <1>1, <1>3 DEF EndsOnce, Ends
<1>5. \A c : LeadsTo(t, c) <=> \E m \in DOMAIN o.to : o.to[m] = c
  BY <1>1, <1>2, <1>3, Zenon DEF LeadsTo
<1>6. Shaped(t) <=> /\ o.kind = "br" => 1 \in DOMAIN o.to
                    /\ o.kind = "cond_br" => {1, 2} \subseteq DOMAIN o.to
  BY <1>1, <1>2, <1>3 DEF Shaped
<1>7. /\ o.kind # "alloca" /\ o.use \in {"none", "argument"} => InArgument(t)
      /\ o.kind # "alloca" /\ o.use \in {"none", "slot", "store"} => InSlot(t)
  BY <1>1, <1>2 DEF InArgument, InSlot
<1>8. o.kind = "alloca" /\ o.use = "none" => MakesSlot(t)
  <2>1. 1 .. 1 - 1 = {} /\ 1 + 1 .. Len(t) = {}
    BY <1>1
  <2> QED BY <1>1, <1>3, <2>1 DEF MakesSlot, MakesAt
<1> QED BY <1>1, <1>4, <1>5, <1>6, <1>7, <1>8 DEF t

LEMMA NoOp ==
  /\ <<>> \in OpSeqs /\ EndsOnce(<<>>) /\ ~Ends(<<>>) /\ Shaped(<<>>)
  /\ \A c : ~LeadsTo(<<>>, c)
  /\ InArgument(<<>>) /\ InSlot(<<>>)
<1>1. <<>> \in OpSeqs /\ Len(<<>>) = 0 /\ 1 .. Len(<<>>) = {} /\ 1 .. Len(<<>>) - 1 = {}
  BY DEF OpSeqs
<1> QED BY <1>1 DEF EndsOnce, Ends, Shaped, LeadsTo, InArgument, InSlot

LEMMA BranchOp ==
  ASSUME NEW b \in Nat
  PROVE  /\ Branch(b) \in Operations /\ Branch(b).kind = "br"
         /\ Branch(b).use = "none" /\ Branch(b).to = <<b>>
         /\ <<Branch(b)>> \in OpSeqs /\ <<Branch(b)>> # <<>> /\ EndsOnce(<<Branch(b)>>)
         /\ Ends(<<Branch(b)>>) /\ Shaped(<<Branch(b)>>)
         /\ \A c : LeadsTo(<<Branch(b)>>, c) <=> c = b
         /\ InArgument(<<Branch(b)>>) /\ InSlot(<<Branch(b)>>)
<1>1. /\ Branch(b) \in Operations /\ Branch(b).kind = "br"
      /\ Branch(b).use = "none" /\ Branch(b).to = <<b>>
  BY DEF Branch, Op, Operations, Kinds, Reaches
<1>2. DOMAIN <<b>> = {1} /\ <<b>>[1] = b
  OBVIOUS
<1>3. \A c : (\E m \in DOMAIN Branch(b).to : Branch(b).to[m] = c) <=> c = b
  BY <1>1, <1>2
<1> QED BY <1>1, <1>2, <1>3, SingleOp DEF Terminators

LEMMA CondBranchOp ==
  ASSUME NEW t \in Nat, NEW u \in {"none", "slot", "store"}, NEW b \in Nat, NEW c \in Nat
  PROVE  LET o == CondBranch(t, u, b, c)
         IN  /\ <<o>> \in OpSeqs /\ <<o>> # <<>> /\ EndsOnce(<<o>>)
             /\ Ends(<<o>>) /\ Shaped(<<o>>)
             /\ \A d : LeadsTo(<<o>>, d) <=> d \in {b, c}
             /\ InSlot(<<o>>)
<1> DEFINE o == CondBranch(t, u, b, c)
<1>1. o \in Operations /\ o.kind = "cond_br" /\ o.use = u /\ o.to = <<b, c>>
  BY DEF CondBranch, Op, Operations, Kinds, Reaches
<1>2. DOMAIN <<b, c>> = {1, 2} /\ <<b, c>>[1] = b /\ <<b, c>>[2] = c
  OBVIOUS
<1> HIDE DEF o
<1>3. \A d : (\E m \in DOMAIN o.to : o.to[m] = d) <=> d \in {b, c}
  BY <1>1, <1>2
<1>4. <<o>> \in OpSeqs /\ <<o>> # <<>> /\ EndsOnce(<<o>>) /\ Ends(<<o>>) /\ Shaped(<<o>>)
      /\ InSlot(<<o>>)
  BY <1>1, <1>2, SingleOp DEF Terminators
<1>5. \A d : LeadsTo(<<o>>, d) <=> d \in {b, c}
  BY <1>1, <1>3, SingleOp
<1> QED BY <1>4, <1>5 DEF o

LEMMA PlainOp ==
  ASSUME NEW kind \in {"stmt", "return"}, NEW t \in Nat, NEW u \in Reaches
  PROVE  LET o == Op(kind, t, <<>>, u)
         IN  /\ <<o>> \in OpSeqs /\ <<o>> # <<>> /\ EndsOnce(<<o>>)
             /\ (Ends(<<o>>) <=> kind = "return") /\ Shaped(<<o>>)
             /\ \A d : ~LeadsTo(<<o>>, d)
             /\ u \in {"none", "argument"} => InArgument(<<o>>)
             /\ u \in {"none", "slot", "store"} => InSlot(<<o>>)
<1> DEFINE o == Op(kind, t, <<>>, u)
<1>1. o \in Operations /\ o.kind = kind /\ o.use = u /\ o.to = <<>>
  BY DEF Op, Operations, Kinds, Reaches
<1>2. DOMAIN o.to = {}
  BY <1>1
<1> HIDE DEF o
<1>3. /\ <<o>> \in OpSeqs /\ <<o>> # <<>> /\ EndsOnce(<<o>>)
      /\ (Ends(<<o>>) <=> kind = "return") /\ Shaped(<<o>>)
      /\ u \in {"none", "argument"} => InArgument(<<o>>)
      /\ u \in {"none", "slot", "store"} => InSlot(<<o>>)
  BY <1>1, SingleOp DEF Terminators
<1>4. \A d : ~LeadsTo(<<o>>, d)
  BY <1>1, <1>2, SingleOp
<1> QED BY <1>3, <1>4 DEF o

LEMMA AllocaOp ==
  /\ <<Alloca>> \in OpSeqs /\ <<Alloca>> # <<>> /\ EndsOnce(<<Alloca>>)
  /\ ~Ends(<<Alloca>>) /\ Shaped(<<Alloca>>)
  /\ \A d : ~LeadsTo(<<Alloca>>, d)
  /\ MakesSlot(<<Alloca>>)
<1>1. /\ Alloca \in Operations /\ Alloca.kind = "alloca" /\ Alloca.use = "none"
      /\ Alloca.to = <<>>
  BY DEF Alloca, Op, Operations, Kinds, Reaches
<1>2. DOMAIN Alloca.to = {}
  BY <1>1
<1> QED BY <1>1, <1>2, SingleOp DEF Terminators

\* How expressions reach the parameter.
LEMMA AccessReach ==
  ASSUME NEW u \in {"none", "read", "assign"}
  PROVE  /\ Access(u, TRUE) \in {"none", "slot", "store"}
         /\ Access(u, FALSE) \in {"none", "argument", "store"}
         /\ u # "assign" => Access(u, FALSE) \in {"none", "argument"}
         /\ u = "assign" => Access(u, FALSE) = "store"
<1>1. CASE u = "none"
  BY <1>1, Zenon DEF Access
<1>2. CASE u = "read"
  BY <1>2, Zenon DEF Access
<1>3. CASE u = "assign"
  BY <1>3, Zenon DEF Access
<1> QED BY <1>1, <1>2, <1>3

\* The row e may be put behind a block: it ends it or not, it leads only to
\* targets, and it reaches the parameter as it may, `slot` before and `after`.
Row(e, ends, targets, slot, after) ==
  /\ e \in OpSeqs /\ e # <<>> /\ EndsOnce(e) /\ Shaped(e)
  /\ Ends(e) <=> ends
  /\ \A c : LeadsTo(e, c) <=> c \in targets
  /\ slot => InSlot(e) /\ after
  /\ ~slot /\ after => MakesSlot(e)
  /\ ~after => InArgument(e)

\* Rows behind rows.
LEMMA RowBehind ==
  ASSUME NEW s, NEW e, NEW ends \in BOOLEAN, NEW targets,
         NEW slot \in BOOLEAN, NEW middle \in BOOLEAN, NEW after \in BOOLEAN,
         Row(s, FALSE, {}, slot, middle), Row(e, ends, targets, middle, after)
  PROVE  Row(s \o e, ends, targets, slot, after)
<1> DEFINE t == s \o e
<1>1. s \in OpSeqs /\ e \in OpSeqs /\ e # <<>> /\ ~Ends(s) /\ EndsOnce(s) /\ EndsOnce(e)
  BY DEF Row
<1>2. t \in OpSeqs /\ t # <<>>
  <2>1. AreJoined(s, e, t)
    BY <1>1, Joined
  <2> HIDE DEF t
  <2> QED BY <1>1, <2>1 DEF AreJoined
<1>3. EndsOnce(t) /\ (Ends(t) <=> ends)
  BY <1>1, JoinedEnds DEF Row
<1>4. Shaped(t)
  BY <1>1, JoinedShape DEF Row
<1>5. \A c : LeadsTo(t, c) <=> c \in targets
  BY <1>1, JoinedLeads DEF Row
<1>6. /\ slot => InSlot(t) /\ after
      /\ ~slot /\ after => MakesSlot(t)
      /\ ~after => InArgument(t)
  BY <1>1, JoinedParameter DEF Row
<1> HIDE DEF t
<1>7. Row(t, ends, targets, slot, after)
  BY <1>2, <1>3, <1>4, <1>5, <1>6 DEF Row
<1> QED BY <1>7 DEF t

\* The rows of a declaration, an expression or a return.
LEMMA StatementRow ==
  ASSUME stored \in BOOLEAN, NEW kind \in {"stmt", "return"}, NEW t \in Nat,
         NEW u \in {"none", "read", "assign"}
  PROVE  Row(Lazily(u) \o <<Op(kind, t, <<>>, Access(u, stored))>>,
             kind = "return", {}, stored, stored \/ u = "assign")
<1> DEFINE e == <<Op(kind, t, <<>>, Access(u, stored))>>
<1>1. /\ Access(u, stored) \in Reaches
      /\ stored => Access(u, stored) \in {"none", "slot", "store"}
      /\ ~stored /\ u # "assign" => Access(u, stored) \in {"none", "argument"}
      /\ ~stored /\ u = "assign" => Access(u, stored) = "store"
  <2>1. CASE stored = TRUE
    BY <2>1, AccessReach DEF Reaches
  <2>2. CASE stored = FALSE
    BY <2>2, AccessReach DEF Reaches
  <2> QED BY <2>1, <2>2
<1>2. /\ e \in OpSeqs /\ e # <<>> /\ EndsOnce(e) /\ (Ends(e) <=> kind = "return") /\ Shaped(e)
      /\ \A d : ~LeadsTo(e, d)
      /\ Access(u, stored) \in {"none", "argument"} => InArgument(e)
      /\ Access(u, stored) \in {"none", "slot", "store"} => InSlot(e)
  BY <1>1, PlainOp
<1> HIDE DEF e
<1>3. CASE stored \/ u # "assign"
  <2>1. Lazily(u) = <<>>
    BY <1>3 DEF Lazily
  <2>2. <<>> \o e = e
    BY <1>2 DEF OpSeqs
  <2>3. Row(e, kind = "return", {}, stored, stored \/ u = "assign")
    BY <1>1, <1>2, <1>3 DEF Row
  <2> QED BY <2>1, <2>2, <2>3 DEF e
<1>4. CASE ~stored /\ u = "assign"
  <2>1. Lazily(u) = <<Alloca>>
    BY <1>4 DEF Lazily
  <2>2. Row(<<Alloca>>, FALSE, {}, FALSE, TRUE)
    BY AllocaOp DEF Row
  <2>3. Row(e, kind = "return", {}, TRUE, TRUE)
    BY <1>1, <1>2, <1>4 DEF Row
  <2>4. Row(<<Alloca>> \o e, kind = "return", {}, FALSE, TRUE)
    BY <2>2, <2>3, RowBehind
  <2>5. stored = FALSE /\ (stored \/ u = "assign") = TRUE
    BY <1>4
  <2> QED BY <2>1, <2>4, <2>5 DEF e
<1> QED BY <1>3, <1>4

\* The rows in front of an if or a loop.
LEMMA MaterializeRow ==
  ASSUME stored \in BOOLEAN, NEW e, NEW ends \in BOOLEAN, NEW targets,
         Row(e, ends, targets, TRUE, TRUE)
  PROVE  Row(Materialize \o e, ends, targets, stored, TRUE)
<1>1. CASE stored
  <2>1. Materialize = <<>>
    BY <1>1 DEF Materialize
  <2>2. <<>> \o e = e
    BY DEF OpSeqs, Row
  <2>3. stored = TRUE
    BY <1>1
  <2> QED BY <2>1, <2>2, <2>3
<1>2. CASE ~stored
  <2>1. Materialize = <<Alloca>> /\ stored = FALSE
    BY <1>2 DEF Materialize
  <2>2. Row(<<Alloca>>, FALSE, {}, FALSE, TRUE)
    BY AllocaOp DEF Row
  <2>3. Row(<<Alloca>> \o e, ends, targets, FALSE, TRUE)
    BY <2>2, RowBehind
  <2> QED BY <2>1, <2>3
<1> QED BY <1>1, <1>2

LEMMA TestRow ==
  ASSUME NEW t \in Nat, NEW u \in {"none", "slot", "store"}, NEW b \in Nat, NEW c \in Nat
  PROVE  Row(<<CondBranch(t, u, b, c)>>, TRUE, {b, c}, TRUE, TRUE)
<1> DEFINE e == <<CondBranch(t, u, b, c)>>
<1>1. /\ e \in OpSeqs /\ e # <<>> /\ EndsOnce(e) /\ Ends(e) /\ Shaped(e)
      /\ \A d : LeadsTo(e, d) <=> d \in {b, c}
      /\ InSlot(e)
  BY CondBranchOp
<1> HIDE DEF e
<1>2. Row(e, TRUE, {b, c}, TRUE, TRUE)
  BY <1>1 DEF Row
<1> QED BY <1>2 DEF e

LEMMA BranchRow ==
  ASSUME NEW b \in Nat, NEW slot \in BOOLEAN
  PROVE  Row(<<Branch(b)>>, TRUE, {b}, slot, slot)
<1> DEFINE e == <<Branch(b)>>
<1>1. /\ e \in OpSeqs /\ e # <<>> /\ EndsOnce(e) /\ Ends(e) /\ Shaped(e)
      /\ \A d : LeadsTo(e, d) <=> d = b
      /\ InArgument(e) /\ InSlot(e)
  BY BranchOp
<1> HIDE DEF e
<1>2. Row(e, TRUE, {b}, slot, slot)
  BY <1>1 DEF Row
<1> QED BY <1>2 DEF e

\* The rows of an initializer and of an increment.
LEMMA ExpressionRow ==
  ASSUME NEW t \in Nat, NEW u \in {"none", "slot", "store"}
  PROVE  Row(<<Op("stmt", t, <<>>, u)>>, FALSE, {}, TRUE, TRUE)
<1> DEFINE e == <<Op("stmt", t, <<>>, u)>>
<1>1. /\ e \in OpSeqs /\ e # <<>> /\ EndsOnce(e) /\ ~Ends(e) /\ Shaped(e)
      /\ \A d : ~LeadsTo(e, d)
      /\ InSlot(e)
  BY PlainOp DEF Reaches
<1> HIDE DEF e
<1>2. Row(e, FALSE, {}, TRUE, TRUE)
  BY <1>1 DEF Row
<1> QED BY <1>2 DEF e

-----------------------------------------------------------------------------
(* Blocks.                                                                    *)

LEMMA WithBlocks ==
  ASSUME NEW bs \in Seq(Blocks), NEW b \in 1 .. Len(bs), NEW e \in OpSeqs
  PROVE  /\ With(bs, b, e) \in Seq(Blocks) /\ Len(With(bs, b, e)) = Len(bs)
         /\ With(bs, b, e)[b].ops = bs[b].ops \o e
         /\ With(bs, b, e)[b].erased = bs[b].erased
         /\ \A c \in 1 .. Len(bs) : c # b => With(bs, b, e)[c] = bs[c]
<1> DEFINE joined == bs[b].ops \o e
           block  == [bs[b] EXCEPT !.ops = joined]
<1>1. bs[b] \in Blocks /\ joined \in OpSeqs
  <2>1. bs[b] \in Blocks
    OBVIOUS
  <2>2. bs[b].ops \in OpSeqs
    BY <2>1 DEF Blocks
  <2> QED BY <2>1, <2>2 DEF OpSeqs
<1> HIDE DEF joined
<1>2. block \in Blocks /\ block.ops = joined /\ block.erased = bs[b].erased
  BY <1>1 DEF Blocks
<1>3. With(bs, b, e) = [bs EXCEPT ![b] = block]
  BY DEF With, joined
<1> HIDE DEF block
<1> QED BY <1>2, <1>3 DEF joined

LEMMA FreshBlocks ==
  ASSUME NEW bs \in Seq(Blocks), NEW n \in Nat
  PROVE  /\ bs \o Fresh(n) \in Seq(Blocks) /\ Len(bs \o Fresh(n)) = Len(bs) + n
         /\ \A c \in 1 .. Len(bs) : (bs \o Fresh(n))[c] = bs[c]
         /\ \A c \in Len(bs) + 1 .. Len(bs) + n :
              (bs \o Fresh(n))[c].ops = <<>> /\ ~(bs \o Fresh(n))[c].erased
<1>1. NewBlock \in Blocks /\ NewBlock.ops = <<>> /\ ~NewBlock.erased
  BY DEF NewBlock, Blocks, OpSeqs
<1>2. Fresh(n) \in Seq(Blocks) /\ Len(Fresh(n)) = n /\ \A i \in 1 .. n : Fresh(n)[i] = NewBlock
  BY <1>1 DEF Fresh
<1>3. \A c \in Len(bs) + 1 .. Len(bs) + n :
        c - Len(bs) \in 1 .. n /\ (bs \o Fresh(n))[c] = Fresh(n)[c - Len(bs)]
  BY <1>2
<1> QED BY <1>1, <1>2, <1>3

-----------------------------------------------------------------------------
(* What holds of the blocks bs while some of them, `open`, are not finished.  *)

Sound(bs, open) ==
  /\ bs \in Seq(Blocks)
  /\ \A b \in 1 .. Len(bs) :
       /\ EndsOnce(bs[b].ops) /\ Shaped(bs[b].ops)
       /\ \A c : LeadsTo(bs[b].ops, c) => c \in 2 .. Len(bs) /\ ~bs[c].erased
       /\ bs[b].erased \/ b \in open \/ Ends(bs[b].ops)

\* The parameter's slot is made in the first block or nowhere.
SlotSound(bs, slot) ==
  /\ slot => MakesSlot(bs[1].ops)
  /\ ~slot => InArgument(bs[1].ops)
  /\ \A b \in 2 .. Len(bs) : InSlot(bs[b].ops)

\* A block that ends is finished.
LEMMA Finished ==
  ASSUME NEW bs, NEW open, NEW b, Sound(bs, open), Ends(bs[b].ops) \/ bs[b].erased
  PROVE  Sound(bs, open \ {b})
BY DEF Sound

LEMMA MoreOpen ==
  ASSUME NEW bs, NEW open, NEW more, Sound(bs, open), open \subseteq more
  PROVE  Sound(bs, more)
BY DEF Sound

\* New blocks are open.
LEMMA SoundFresh ==
  ASSUME NEW bs, NEW open, NEW n \in Nat, Sound(bs, open)
  PROVE  Sound(bs \o Fresh(n), open \cup (Len(bs) + 1 .. Len(bs) + n))
<1> DEFINE t == bs \o Fresh(n)
<1>1. /\ t \in Seq(Blocks) /\ Len(t) = Len(bs) + n
      /\ \A c \in 1 .. Len(bs) : t[c] = bs[c]
      /\ \A c \in Len(bs) + 1 .. Len(bs) + n : t[c].ops = <<>> /\ ~t[c].erased
      /\ Len(bs) \in Nat
  <2>1. bs \in Seq(Blocks) /\ Len(bs) \in Nat
    BY DEF Sound
  <2> QED BY <2>1, FreshBlocks
<1> HIDE DEF t
<1>2. ASSUME NEW b \in 1 .. Len(t)
      PROVE  /\ EndsOnce(t[b].ops) /\ Shaped(t[b].ops)
             /\ \A c : LeadsTo(t[b].ops, c) => c \in 2 .. Len(t) /\ ~t[c].erased
             /\ t[b].erased \/ b \in open \cup (Len(bs) + 1 .. Len(bs) + n) \/ Ends(t[b].ops)
  <2>1. CASE b \in 1 .. Len(bs)
    <3>1. t[b] = bs[b] /\ \A c \in 2 .. Len(bs) : c \in 2 .. Len(t) /\ t[c] = bs[c]
      BY <1>1, <2>1
    <3> QED BY <2>1, <3>1 DEF Sound
  <2>2. CASE b \in Len(bs) + 1 .. Len(bs) + n
    BY <1>1, <2>2, NoOp
  <2> QED BY <1>1, <2>1, <2>2
<1> QED BY <1>1, <1>2 DEF Sound, t

\* bt is bs with more behind block b, that ends it or not and leads to targets.
Extends(bt, bs, b, ends, targets) ==
  /\ Len(bt) = Len(bs)
  /\ Ends(bt[b].ops) <=> ends
  /\ bt[b].erased = bs[b].erased
  /\ \A c \in 1 .. Len(bs) : c # b => bt[c] = bs[c]
  /\ \A c : LeadsTo(bt[b].ops, c) <=> LeadsTo(bs[b].ops, c) \/ c \in targets

\* A row behind an unfinished block, that leads only where it may.
LEMMA SoundWith ==
  ASSUME NEW bs, NEW open, NEW b \in 1 .. Len(bs), NEW e, NEW ends \in BOOLEAN, NEW targets,
         NEW slot, NEW after, Sound(bs, open), ~Ends(bs[b].ops), Row(e, ends, targets, slot, after),
         \A c \in targets : c \in 2 .. Len(bs) /\ ~bs[c].erased
  PROVE  /\ Sound(With(bs, b, e), open \cup {b})
         /\ ends => Sound(With(bs, b, e), open \ {b})
         /\ Extends(With(bs, b, e), bs, b, ends, targets)
<1> DEFINE t == With(bs, b, e)
<1>1. /\ t \in Seq(Blocks) /\ Len(t) = Len(bs)
      /\ t[b].ops = bs[b].ops \o e /\ t[b].erased = bs[b].erased
      /\ \A c \in 1 .. Len(bs) : c # b => t[c] = bs[c]
  BY WithBlocks DEF Sound, Row
<1>2. bs[b].ops \in OpSeqs /\ EndsOnce(bs[b].ops) /\ Shaped(bs[b].ops)
  <2>1. bs[b] \in Blocks
    BY DEF Sound
  <2> QED BY <2>1 DEF Sound, Blocks
<1>3. EndsOnce(t[b].ops) /\ (Ends(t[b].ops) <=> ends) /\ Shaped(t[b].ops)
  BY <1>1, <1>2, JoinedEnds, JoinedShape DEF Row
<1>4. \A c : LeadsTo(t[b].ops, c) <=> LeadsTo(bs[b].ops, c) \/ c \in targets
  BY <1>1, <1>2, JoinedLeads DEF Row
<1> HIDE DEF t
<1>5. \A c \in 1 .. Len(bs) : t[c].erased = bs[c].erased
  BY <1>1
<1>6. ASSUME NEW d \in 1 .. Len(t)
      PROVE  /\ EndsOnce(t[d].ops) /\ Shaped(t[d].ops)
             /\ \A c : LeadsTo(t[d].ops, c) => c \in 2 .. Len(t) /\ ~t[c].erased
             /\ t[d].erased \/ d \in open \/ d = b \/ Ends(t[d].ops)
  <2>1. \A c : LeadsTo(bs[d].ops, c) => c \in 2 .. Len(t) /\ ~bs[c].erased
    BY <1>1 DEF Sound
  <2>2. \A c \in 2 .. Len(t) : t[c].erased = bs[c].erased
    BY <1>1, <1>5
  <2>3. CASE d = b
    <3>1. \A c : LeadsTo(t[d].ops, c) => c \in 2 .. Len(t) /\ ~bs[c].erased
      BY <1>1, <1>4, <2>1, <2>3
    <3> QED BY <1>3, <2>2, <2>3, <3>1
  <2>4. CASE d # b
    <3>1. t[d] = bs[d]
      BY <1>1, <2>4
    <3>2. EndsOnce(bs[d].ops) /\ Shaped(bs[d].ops) /\ (bs[d].erased \/ d \in open \/ Ends(bs[d].ops))
      BY <1>1 DEF Sound
    <3> QED BY <2>1, <2>2, <3>1, <3>2
  <2> QED BY <2>3, <2>4
<1>7. Sound(t, open \cup {b})
  BY <1>1, <1>6 DEF Sound
<1>8. ends => Sound(t, open \ {b})
  BY <1>1, <1>3, <1>6 DEF Sound
<1>9. Extends(t, bs, b, ends, targets)
  BY <1>1, <1>3, <1>4 DEF Extends
<1> QED BY <1>7, <1>8, <1>9 DEF t

LEMMA SlotWith ==
  ASSUME NEW bs \in Seq(Blocks), NEW b \in 1 .. Len(bs), NEW e, NEW ends, NEW targets,
         NEW slot \in BOOLEAN, NEW after \in BOOLEAN,
         SlotSound(bs, slot), Row(e, ends, targets, slot, after), b # 1 => slot
  PROVE  SlotSound(With(bs, b, e), after)
<1> DEFINE t == With(bs, b, e)
<1>1. /\ Len(t) = Len(bs) /\ t[b].ops = bs[b].ops \o e
      /\ \A c \in 1 .. Len(bs) : c # b => t[c] = bs[c]
  BY WithBlocks DEF Row
<1>2. bs[b].ops \in OpSeqs /\ e \in OpSeqs
  <2>1. bs[b] \in Blocks
    OBVIOUS
  <2> QED BY <2>1 DEF Blocks, Row
<1>3. /\ InArgument(bs[b].ops) /\ InArgument(e) => InArgument(t[b].ops)
      /\ InSlot(bs[b].ops) /\ InSlot(e) => InSlot(t[b].ops)
      /\ InArgument(bs[b].ops) /\ MakesSlot(e) => MakesSlot(t[b].ops)
      /\ MakesSlot(bs[b].ops) /\ InSlot(e) => MakesSlot(t[b].ops)
  BY <1>1, <1>2, JoinedParameter
<1>4. /\ slot => InSlot(e) /\ after
      /\ ~slot /\ after => MakesSlot(e)
      /\ ~after => InArgument(e)
  BY DEF Row
<1> HIDE DEF t
<1>5. ASSUME b = 1
      PROVE  SlotSound(t, after)
  <2>1. \A c \in 2 .. Len(t) : c \in 2 .. Len(bs) /\ t[c] = bs[c]
    BY <1>1, <1>5
  <2>2. /\ slot => MakesSlot(bs[b].ops)
        /\ ~slot => InArgument(bs[b].ops)
        /\ \A c \in 2 .. Len(bs) : InSlot(bs[c].ops)
    BY <1>5 DEF SlotSound
  <2>3. (after => MakesSlot(t[b].ops)) /\ (~after => InArgument(t[b].ops))
    BY <1>3, <1>4, <2>2
  <2> QED BY <1>5, <2>1, <2>2, <2>3 DEF SlotSound
<1>6. ASSUME b # 1
      PROVE  SlotSound(t, after)
  <2>1. 1 \in 1 .. Len(bs) /\ b \in 2 .. Len(bs) /\ slot /\ after
    BY <1>4, <1>6
  <2>2. InSlot(t[b].ops) /\ t[1] = bs[1]
    BY <1>1, <1>3, <1>4, <1>6, <2>1 DEF SlotSound
  <2>3. \A c \in 2 .. Len(t) : c = b \/ t[c] = bs[c]
    BY <1>1
  <2> QED BY <1>1, <2>1, <2>2, <2>3 DEF SlotSound
<1>7. SlotSound(t, after)
  BY <1>5, <1>6
<1> QED BY <1>7 DEF t

LEMMA SlotFresh ==
  ASSUME NEW bs \in Seq(Blocks), NEW slot, NEW n \in Nat, SlotSound(bs, slot), Len(bs) > 0
  PROVE  SlotSound(bs \o Fresh(n), slot)
<1> DEFINE t == bs \o Fresh(n)
<1>1. /\ Len(t) = Len(bs) + n
      /\ \A c \in 1 .. Len(bs) : t[c] = bs[c]
      /\ \A c \in Len(bs) + 1 .. Len(bs) + n : t[c].ops = <<>>
  BY FreshBlocks
<1> HIDE DEF t
<1>2. \A b \in 2 .. Len(t) : (b \in 2 .. Len(bs) /\ t[b] = bs[b]) \/ t[b].ops = <<>>
  BY <1>1
<1>3. t[1] = bs[1]
  BY <1>1
<1>4. SlotSound(t, slot)
  BY <1>2, <1>3, NoOp DEF SlotSound
<1> QED BY <1>4 DEF t

-----------------------------------------------------------------------------
(* The open constructs and what they still have to fill.                      *)

IsLoop(f) == f.kind \in {"while", "for"}

\* The blocks a construct still has to go on with.
Pends(f) == {f.merge} \cup (IF f.kind = "then" THEN {f.next}
                            ELSE IF f.kind = "for" THEN {f.merge - 1} ELSE {})
Pending(ns) == {b \in Nat : \E i \in 1 .. Len(ns) : b \in Pends(ns[i])}

FrameShape(f) ==
  /\ f \in Frames /\ 2 <= f.next
  /\ f.kind = "then" /\ f.rest => f.next < f.merge
  /\ f.kind = "then" /\ ~f.rest => f.next = f.merge
  /\ f.kind = "else" => f.next < f.merge
  /\ f.kind = "while" => f.merge = f.next + 2
  /\ f.kind = "for" => f.merge = f.next + 3

\* A construct opened in another one was given later blocks.
Nested(ns, n) ==
  /\ ns \in Seq(Frames) /\ n \in Nat
  /\ \A i \in 1 .. Len(ns) : FrameShape(ns[i]) /\ ns[i].merge <= n
  /\ \A i, j \in 1 .. Len(ns) : i < j => ns[i].merge < ns[j].next

\* The block behind an if can still turn out not to be needed.
MayVanish(f) == \/ f.kind = "then" /\ f.rest
                \/ f.kind = "else" /\ ~f.continues

Targets(f) == [break |-> f.merge, continue |-> IF f.kind = "while" THEN f.next ELSE f.merge - 1]
TargetPairs == [break : Nat, continue : Nat]

\* loopTargets are those of the loops among the constructs, in their order.
LoopsMatch(ns, lt) ==
  /\ lt \in Seq(TargetPairs)
  /\ \A i \in 1 .. Len(ns) : IsLoop(ns[i]) => \E k \in 1 .. Len(lt) : lt[k].break = ns[i].merge
  /\ \A k \in 1 .. Len(lt) : \E i \in 1 .. Len(ns) : IsLoop(ns[i]) /\ lt[k] = Targets(ns[i])
  /\ \A k, l \in 1 .. Len(lt) : k < l => lt[k].break < lt[l].break

\* The blocks still to be filled are empty, and none of them was erased.
Waiting(bs, ns, c) ==
  /\ \A b \in Pending(ns) : b # c /\ bs[b].ops = <<>> /\ ~bs[b].erased
  /\ \A i \in 1 .. Len(ns) : IsLoop(ns[i]) => ~bs[ns[i].next].erased

\* No block leads to a block that may yet be erased.
Untaken(bs, b) == \A d \in 1 .. Len(bs) : ~LeadsTo(bs[d].ops, b)
Unreached(bs, ns) == \A i \in 1 .. Len(ns) : MayVanish(ns[i]) => Untaken(bs, ns[i].merge)

\* A branch may lead to t.
Reachable(bs, ns, t) ==
  /\ t \in 2 .. Len(bs) /\ ~bs[t].erased
  /\ \A i \in 1 .. Len(ns) : MayVanish(ns[i]) => t # ns[i].merge

\* Blocks made and not yet given to a construct.
Loose(bs, c, more, ns) ==
  /\ more \subseteq 2 .. Len(bs) /\ c \notin more
  /\ \A b \in more : b \notin Pending(ns) /\ bs[b].ops = <<>> /\ ~bs[b].erased

\* Once there is more than the first block, the parameter is in its slot.
Stored(bs, c, ns, st) ==
  /\ st \in BOOLEAN
  /\ c # 1 \/ ns # <<>> \/ (\E b \in 1 .. Len(bs) : \E d : LeadsTo(bs[b].ops, d)) => st
  /\ SlotSound(bs, st)

Emitted(bs, c, more, ns, lt, st) ==
  /\ Sound(bs, {c} \cup more \cup Pending(ns))
  /\ c \in 1 .. Len(bs)
  /\ Loose(bs, c, more, ns)
  /\ Nested(ns, Len(bs))
  /\ Waiting(bs, ns, c)
  /\ Unreached(bs, ns)
  /\ LoopsMatch(ns, lt)
  /\ Stored(bs, c, ns, st)

\* The blocks of a construct are in order.
LEMMA FrameBounds ==
  ASSUME NEW f, FrameShape(f)
  PROVE  /\ f \in Frames /\ f.next \in Nat /\ f.merge \in Nat
         /\ f.kind \in {"then", "else", "while", "for"}
         /\ 2 <= f.next /\ f.next <= f.merge
         /\ Pends(f) \subseteq f.next .. f.merge
         /\ IsLoop(f) => f.next \notin Pends(f)
<1>1. /\ f \in Frames /\ f.next \in Nat /\ f.merge \in Nat /\ f.rest \in BOOLEAN
      /\ f.kind \in {"then", "else", "while", "for"}
  BY DEF FrameShape, Frames
<1>2. f.next <= f.merge
  BY <1>1 DEF FrameShape
<1>3. Pends(f) \subseteq f.next .. f.merge
  BY <1>1, <1>2 DEF FrameShape, Pends
<1>4. IsLoop(f) => f.next \notin Pends(f)
  BY <1>1 DEF FrameShape, Pends, IsLoop
<1> QED BY <1>1, <1>2, <1>3, <1>4 DEF FrameShape

LEMMA NestBounds ==
  ASSUME NEW ns, NEW n, Nested(ns, n)
  PROVE  /\ \A i \in 1 .. Len(ns) : ns[i].next \in 1 .. n /\ ns[i].merge \in 1 .. n
         /\ \A b \in Pending(ns) : b \in 1 .. n
<1>1. ASSUME NEW i \in 1 .. Len(ns)
      PROVE  /\ ns[i].next \in 1 .. n /\ ns[i].merge \in 1 .. n
             /\ \A b \in Pends(ns[i]) : b \in 1 .. n
  <2>1. FrameShape(ns[i]) /\ ns[i].merge <= n
    BY DEF Nested
  <2>2. /\ ns[i].next \in Nat /\ ns[i].merge \in Nat
        /\ 2 <= ns[i].next /\ ns[i].next <= ns[i].merge
        /\ Pends(ns[i]) \subseteq ns[i].next .. ns[i].merge
    BY <2>1, FrameBounds
  <2>3. n \in Nat
    BY DEF Nested
  <2> QED BY <2>1, <2>2, <2>3
<1> QED BY <1>1 DEF Pending

-----------------------------------------------------------------------------
(* The pieces generation is made of keep all of this.                         *)

\* A row at the end of the insertion block.
LEMMA EmitRow ==
  ASSUME NEW bs, NEW c, NEW more, NEW ns, NEW lt, NEW st,
         Emitted(bs, c, more, ns, lt, st),
         NEW e, NEW ends \in BOOLEAN, NEW targets, NEW after \in BOOLEAN,
         ~Ends(bs[c].ops), Row(e, ends, targets, st, after),
         \A t \in targets : Reachable(bs, ns, t) /\ after
  PROVE  LET bt == With(bs, c, e)
         IN  /\ Emitted(bt, c, more, ns, lt, after)
             /\ Extends(bt, bs, c, ends, targets)
<1> DEFINE bt == With(bs, c, e)
           open == {c} \cup more \cup Pending(ns)
<1>0. c \in 1 .. Len(bs) /\ Sound(bs, open) /\ bs \in Seq(Blocks)
  BY DEF Emitted, Sound
<1>1. Sound(bt, open \cup {c}) /\ Extends(bt, bs, c, ends, targets)
  <2>1. \A t \in targets : t \in 2 .. Len(bs) /\ ~bs[t].erased
    BY DEF Reachable
  <2> HIDE DEF open
  <2> QED BY <1>0, <2>1, SoundWith
<1>2. open \cup {c} = open
  OBVIOUS
<1>3. st \in BOOLEAN /\ (c # 1 => st) /\ SlotSound(bs, st) /\ (st => after)
  BY DEF Emitted, Stored, Row
<1>4. SlotSound(bt, after)
  BY <1>0, <1>3, SlotWith
<1> HIDE DEF bt
<1>5. ASSUME NEW b \in 1 .. Len(bt), NEW d, LeadsTo(bt[b].ops, d)
      PROVE  LeadsTo(bs[b].ops, d) \/ d \in targets
  BY <1>1, <1>5 DEF Extends
<1>6. Stored(bt, c, ns, after)
  <2>1. (\E b \in 1 .. Len(bt) : \E d : LeadsTo(bt[b].ops, d)) => after
    BY <1>1, <1>3, <1>5 DEF Emitted, Stored, Extends
  <2>2. ns # <<>> => after
    BY <1>3 DEF Emitted, Stored
  <2> QED BY <1>3, <1>4, <2>1, <2>2 DEF Stored
<1>7. Unreached(bt, ns)
  <2> SUFFICES ASSUME NEW i \in 1 .. Len(ns), MayVanish(ns[i]), NEW d \in 1 .. Len(bt),
                      LeadsTo(bt[d].ops, ns[i].merge)
               PROVE  FALSE
    BY DEF Unreached, Untaken
  <2>1. ~LeadsTo(bs[d].ops, ns[i].merge)
    BY <1>1 DEF Emitted, Unreached, Untaken, Extends
  <2>2. ns[i].merge \notin targets
    BY DEF Reachable
  <2> QED BY <1>5, <2>1, <2>2
<1>8. \A b \in 1 .. Len(bs) : bt[b].erased = bs[b].erased
  BY <1>1 DEF Extends
<1>9. Loose(bt, c, more, ns)
  <2>1. Loose(bs, c, more, ns)
    BY DEF Emitted
  <2>2. \A b \in more : b \in 1 .. Len(bs) /\ b # c
    BY <1>0, <2>1 DEF Loose
  <2> QED BY <1>1, <2>1, <2>2 DEF Loose, Extends
<1>10. Waiting(bt, ns, c)
  <2>1. Waiting(bs, ns, c) /\ Nested(ns, Len(bs))
    BY DEF Emitted
  <2>2. \A b \in Pending(ns) : b \in 1 .. Len(bs)
    BY <2>1, NestBounds
  <2>3. \A i \in 1 .. Len(ns) : ns[i].next \in 1 .. Len(bs)
    BY <2>1, NestBounds
  <2> QED BY <1>1, <1>8, <2>1, <2>2, <2>3 DEF Waiting, Extends
<1>11. Emitted(bt, c, more, ns, lt, after)
  BY <1>1, <1>2, <1>6, <1>7, <1>9, <1>10 DEF Emitted, Extends
<1> QED BY <1>1, <1>11 DEF bt

\* bt is bs with n more blocks.
Grows(bt, bs, n) ==
  /\ Len(bt) = Len(bs) + n
  /\ \A b \in 1 .. Len(bs) : bt[b] = bs[b]
  /\ \A b \in Len(bs) + 1 .. Len(bs) + n : Untaken(bt, b)

\* New blocks.
LEMMA EmitFresh ==
  ASSUME NEW bs, NEW c, NEW more, NEW ns, NEW lt, NEW st,
         Emitted(bs, c, more, ns, lt, st), NEW n \in Nat
  PROVE  /\ Emitted(bs \o Fresh(n), c, more \cup (Len(bs) + 1 .. Len(bs) + n), ns, lt, st)
         /\ Grows(bs \o Fresh(n), bs, n)
<1> DEFINE new == Len(bs) + 1 .. Len(bs) + n
           bt  == bs \o Fresh(n)
<1>0. bs \in Seq(Blocks) /\ Len(bs) \in Nat /\ c \in 1 .. Len(bs)
  BY DEF Emitted, Sound
<1>1. /\ Len(bt) = Len(bs) + n
      /\ \A b \in 1 .. Len(bs) : bt[b] = bs[b]
      /\ \A b \in new : bt[b].ops = <<>> /\ ~bt[b].erased
  BY <1>0, FreshBlocks
<1>2. Sound(bt, ({c} \cup more \cup Pending(ns)) \cup new)
  BY SoundFresh DEF Emitted
<1>3. SlotSound(bt, st)
  BY <1>0, SlotFresh DEF Emitted, Stored
<1> HIDE DEF bt
<1>4. ({c} \cup more \cup Pending(ns)) \cup new = {c} \cup (more \cup new) \cup Pending(ns)
  OBVIOUS
<1>5. ASSUME NEW b \in 1 .. Len(bt), NEW d, LeadsTo(bt[b].ops, d)
      PROVE  b \in 1 .. Len(bs) /\ LeadsTo(bs[b].ops, d) /\ d \in 2 .. Len(bs)
  <2>1. CASE b \in 1 .. Len(bs)
    <3>1. LeadsTo(bs[b].ops, d)
      BY <1>1, <1>5, <2>1
    <3> QED BY <2>1, <3>1 DEF Emitted, Sound
  <2>2. CASE b \in new
    BY <1>1, <1>5, <2>2, NoOp
  <2> QED BY <1>0, <1>1, <2>1, <2>2
<1>6. Nested(ns, Len(bs)) /\ Nested(ns, Len(bt))
  <2>1. Nested(ns, Len(bs))
    BY DEF Emitted
  <2>2. \A i \in 1 .. Len(ns) : ns[i].merge <= Len(bt)
    BY <1>0, <1>1, <2>1, NestBounds
  <2> QED BY <1>0, <1>1, <2>1, <2>2 DEF Nested
<1>7. Loose(bt, c, more \cup new, ns)
  <2>1. Loose(bs, c, more, ns)
    BY DEF Emitted
  <2>2. new \subseteq 2 .. Len(bt) /\ more \subseteq 2 .. Len(bt) /\ more \subseteq 1 .. Len(bs)
    BY <1>0, <1>1, <2>1 DEF Loose
  <2>3. c \notin new /\ \A b \in new : b \notin Pending(ns)
    BY <1>0, <1>6, NestBounds
  <2> QED BY <1>1, <2>1, <2>2, <2>3 DEF Loose
<1>8. Waiting(bt, ns, c)
  <2>1. Waiting(bs, ns, c)
    BY DEF Emitted
  <2> QED BY <1>1, <1>6, <2>1, NestBounds DEF Waiting
<1>9. Unreached(bt, ns)
  BY <1>5 DEF Emitted, Unreached, Untaken
<1>10. Stored(bt, c, ns, st)
  BY <1>3, <1>5 DEF Emitted, Stored
<1>11. Emitted(bt, c, more \cup new, ns, lt, st)
  <2>1. c \in 1 .. Len(bt)
    BY <1>0, <1>1
  <2>2. Sound(bt, {c} \cup (more \cup new) \cup Pending(ns))
    BY <1>2, <1>4
  <2> QED BY <1>6, <1>7, <1>8, <1>9, <1>10, <2>1, <2>2 DEF Emitted
<1>12. ASSUME NEW b \in new
       PROVE  Untaken(bt, b)
  <2>1. b \notin 2 .. Len(bs)
    BY <1>0
  <2> QED BY <1>5, <2>1 DEF Untaken
<1>13. Grows(bt, bs, n)
  BY <1>1, <1>12 DEF Grows
<1> QED BY <1>11, <1>13 DEF bt

\* The loose block b was finished with the row e.
WrittenInto(bs, c, more, ns, lt, st, b, e, targets) ==
  /\ Emitted(With(bs, b, e), c, more \ {b}, ns, lt, st)
  /\ Extends(With(bs, b, e), bs, b, TRUE, targets)

\* A row that finishes a loose block.
LEMMA EmitInto ==
  ASSUME NEW bs, NEW c, NEW more, NEW ns, NEW lt, NEW st,
         Emitted(bs, c, more, ns, lt, st), st = TRUE,
         NEW b \in more, NEW e, NEW targets, Row(e, TRUE, targets, TRUE, TRUE),
         \A t \in targets : Reachable(bs, ns, t)
  PROVE  WrittenInto(bs, c, more, ns, lt, st, b, e, targets)
<1> DEFINE bt == With(bs, b, e)
           open == {c} \cup more \cup Pending(ns)
<1>0. /\ c \in 1 .. Len(bs) /\ Sound(bs, open) /\ bs \in Seq(Blocks) /\ Loose(bs, c, more, ns)
      /\ Len(bs) \in Nat
  BY DEF Emitted, Sound
<1>a. b \in 1 .. Len(bs) /\ b # c /\ b \notin Pending(ns) /\ bs[b].ops = <<>> /\ b # 1
  BY <1>0 DEF Loose
<1>1. Sound(bt, open \ {b}) /\ Extends(bt, bs, b, TRUE, targets)
  <2>1. \A t \in targets : t \in 2 .. Len(bs) /\ ~bs[t].erased
    BY DEF Reachable
  <2>2. ~Ends(bs[b].ops)
    BY <1>a, NoOp
  <2> HIDE DEF open
  <2> QED BY <1>0, <1>a, <2>1, <2>2, SoundWith
<1>2. open \ {b} = {c} \cup (more \ {b}) \cup Pending(ns)
  BY <1>a
<1>3. SlotSound(bt, TRUE)
  BY <1>0, <1>a, SlotWith DEF Emitted, Stored
<1> HIDE DEF bt
<1>5. ASSUME NEW k \in 1 .. Len(bt), NEW d, LeadsTo(bt[k].ops, d)
      PROVE  LeadsTo(bs[k].ops, d) \/ d \in targets
  BY <1>1, <1>5 DEF Extends
<1>6. Stored(bt, c, ns, st)
  BY <1>3 DEF Stored
<1>7. Unreached(bt, ns)
  <2> SUFFICES ASSUME NEW i \in 1 .. Len(ns), MayVanish(ns[i]), NEW d \in 1 .. Len(bt),
                      LeadsTo(bt[d].ops, ns[i].merge)
               PROVE  FALSE
    BY DEF Unreached, Untaken
  <2>1. ~LeadsTo(bs[d].ops, ns[i].merge)
    BY <1>1 DEF Emitted, Unreached, Untaken, Extends
  <2>2. ns[i].merge \notin targets
    BY DEF Reachable
  <2> QED BY <1>5, <2>1, <2>2
<1>8. \A d \in 1 .. Len(bs) : bt[d].erased = bs[d].erased
  BY <1>1 DEF Extends
<1>9. Loose(bt, c, more \ {b}, ns)
  <2>1. \A d \in more : d \in 1 .. Len(bs)
    BY <1>0 DEF Loose
  <2> QED BY <1>0, <1>1, <2>1 DEF Loose, Extends
<1>10. Waiting(bt, ns, c)
  <2>1. Waiting(bs, ns, c) /\ Nested(ns, Len(bs))
    BY DEF Emitted
  <2> QED BY <1>1, <1>8, <1>a, <2>1, NestBounds DEF Waiting, Extends
<1>11. Emitted(bt, c, more \ {b}, ns, lt, st)
  BY <1>1, <1>2, <1>6, <1>7, <1>9, <1>10 DEF Emitted, Extends
<1> QED BY <1>1, <1>11 DEF bt, WrittenInto

\* Generation goes on in a loose block when the insertion block is finished.
LEMMA EmitMove ==
  ASSUME NEW bs, NEW c, NEW more, NEW ns, NEW lt, NEW st,
         Emitted(bs, c, more, ns, lt, st), st = TRUE, Ends(bs[c].ops), NEW b \in more
  PROVE  Emitted(bs, b, more \ {b}, ns, lt, st)
<1> DEFINE open == {c} \cup more \cup Pending(ns)
<1>1. Sound(bs, open \ {c}) /\ Loose(bs, c, more, ns) /\ Waiting(bs, ns, c)
  BY Finished DEF Emitted
<1>2. b \in 1 .. Len(bs) /\ b \notin Pending(ns)
  BY <1>1 DEF Loose
<1>3. open \ {c} \subseteq {b} \cup (more \ {b}) \cup Pending(ns)
  OBVIOUS
<1>4. Sound(bs, {b} \cup (more \ {b}) \cup Pending(ns))
  BY <1>1, <1>3, MoreOpen
<1>5. Loose(bs, b, more \ {b}, ns)
  BY <1>1 DEF Loose
<1>6. Waiting(bs, ns, b)
  BY <1>1, <1>2 DEF Waiting
<1>7. Stored(bs, b, ns, st)
  BY DEF Emitted, Stored
<1> QED BY <1>2, <1>4, <1>5, <1>6, <1>7 DEF Emitted

-----------------------------------------------------------------------------
(* Constructs are opened and closed.                                          *)

LEMMA PoppedShape ==
  ASSUME NEW S, NEW s \in Seq(S), s # <<>>
  PROVE  /\ Popped(s) \in Seq(S) /\ Len(Popped(s)) = Len(s) - 1 /\ Len(s) \in Nat \ {0}
         /\ \A i \in 1 .. Len(s) - 1 : Popped(s)[i] = s[i]
         /\ s = Append(Popped(s), s[Len(s)]) /\ s[Len(s)] \in S
<1> DEFINE t == SubSeq(s, 1, Len(s) - 1)
<1>1. Len(s) \in Nat \ {0}
  OBVIOUS
<1>2. t \in Seq(S) /\ Len(t) = Len(s) - 1 /\ \A i \in 1 .. Len(s) - 1 : t[i] = s[i]
  <2>1. \A i \in 1 .. Len(s) - 1 : s[i] \in S
    OBVIOUS
  <2>2. 1 \in Int /\ Len(s) - 1 \in Int
    BY <1>1
  <2>3. t \in Seq(S)
    BY <2>1, <2>2, SubSeqProperties
  <2>4. Len(t) = Len(s) - 1
    <3> DEFINE n == Len(s) - 1
    <3>1. Len(SubSeq(s, 1, n)) = IF 1 <= n THEN n - 1 + 1 ELSE 0
      <4> HIDE DEF n
      <4>1. n \in Int /\ \A i \in 1 .. n : s[i] \in S
        BY <2>1, <2>2 DEF n
      <4> QED BY <4>1, SubSeqProperties
    <3> HIDE DEF t
    <3>2. Len(t) = IF 1 <= n THEN n - 1 + 1 ELSE 0
      BY <3>1 DEF t
    <3>3. n \in Nat
      BY <1>1
    <3>4. Len(t) = n
      <4> HIDE DEF n
      <4> QED BY ONLY <3>2, <3>3
    <3> QED BY <3>4
  <2>5. ASSUME NEW i \in 1 .. Len(s) - 1
        PROVE  t[i] = s[i]
    BY <1>1, <2>1, <2>2, SubSeqProperties
  <2> QED BY <2>3, <2>4, <2>5
<1>3. Popped(s) = t
  BY DEF Popped
<1> HIDE DEF t
<1>4. s[Len(s)] \in S
  BY <1>1
<1>5. s = Append(t, s[Len(s)])
  <2>1. /\ Append(t, s[Len(s)]) \in Seq(S) /\ Len(Append(t, s[Len(s)])) = Len(s)
        /\ \A i \in 1 .. Len(s) : Append(t, s[Len(s)])[i] = s[i]
    BY <1>1, <1>2, <1>4
  <2> QED BY <2>1, SeqEqual
<1> QED BY <1>1, <1>2, <1>3, <1>4, <1>5

LEMMA FrameTargets ==
  ASSUME NEW f, FrameShape(f)
  PROVE  /\ Targets(f) \in TargetPairs /\ Targets(f).break = f.merge
         /\ f.kind = "while" => Targets(f).continue = f.next
         /\ f.kind = "for" => Targets(f).continue = f.merge - 1
<1>1. /\ f.next \in Nat /\ f.merge \in Nat /\ 2 <= f.next /\ f.next <= f.merge
  BY FrameBounds
<1>2. f.merge - 1 \in Nat
  BY <1>1
<1> QED BY <1>1, <1>2 DEF Targets, TargetPairs

LEMMA PendingAppend ==
  ASSUME NEW ns \in Seq(Frames), NEW f, FrameShape(f)
  PROVE  Pending(Append(ns, f)) = Pending(ns) \cup Pends(f)
<1> DEFINE ms == Append(ns, f)
<1>1. f \in Frames /\ Pends(f) \subseteq Nat
  BY FrameBounds
<1>2. /\ Len(ms) = Len(ns) + 1 /\ ms[Len(ns) + 1] = f /\ Len(ns) \in Nat
      /\ \A i \in 1 .. Len(ns) : ms[i] = ns[i]
  BY <1>1
<1> HIDE DEF ms
<1>3. \A i \in 1 .. Len(ms) : (i \in 1 .. Len(ns) /\ ms[i] = ns[i]) \/ ms[i] = f
  BY <1>2
<1>4. \A i \in 1 .. Len(ns) : i \in 1 .. Len(ms)
  BY <1>2
<1>5. Len(ns) + 1 \in 1 .. Len(ms)
  BY <1>2
<1>6. Pending(ms) = Pending(ns) \cup Pends(f)
  BY <1>1, <1>2, <1>3, <1>4, <1>5 DEF Pending
<1> QED BY <1>6 DEF ms

LEMMA LoopsPush ==
  ASSUME NEW ns, NEW n, NEW lt, NEW f, Nested(ns, n), LoopsMatch(ns, lt), FrameShape(f),
         \A i \in 1 .. Len(ns) : ns[i].merge < f.next
  PROVE  LoopsMatch(Append(ns, f), IF IsLoop(f) THEN Append(lt, Targets(f)) ELSE lt)
<1> DEFINE ms == Append(ns, f)
           mt == Append(lt, Targets(f))
<1>0. ns \in Seq(Frames) /\ f \in Frames /\ lt \in Seq(TargetPairs) /\ Targets(f) \in TargetPairs
  BY FrameBounds, FrameTargets DEF Nested, LoopsMatch
<1>1. /\ Len(ms) = Len(ns) + 1 /\ ms[Len(ns) + 1] = f /\ Len(ns) \in Nat
      /\ \A i \in 1 .. Len(ns) : ms[i] = ns[i]
  BY <1>0
<1>2. /\ mt \in Seq(TargetPairs)
      /\ Len(mt) = Len(lt) + 1 /\ mt[Len(lt) + 1] = Targets(f) /\ Len(lt) \in Nat
      /\ \A i \in 1 .. Len(lt) : mt[i] = lt[i]
  BY <1>0
<1> HIDE DEF ms, mt
<1>3. \A i \in 1 .. Len(ms) : (i \in 1 .. Len(ns) /\ ms[i] = ns[i]) \/ i = Len(ns) + 1
  BY <1>1
<1>4. Len(ns) + 1 \in 1 .. Len(ms) /\ \A i \in 1 .. Len(ns) : i \in 1 .. Len(ms)
  BY <1>1
<1>5. \A i \in 1 .. Len(mt) : (i \in 1 .. Len(lt) /\ mt[i] = lt[i]) \/ i = Len(lt) + 1
  BY <1>2
<1>6. Len(lt) + 1 \in 1 .. Len(mt) /\ \A i \in 1 .. Len(lt) : i \in 1 .. Len(mt)
  BY <1>2
<1>7. ASSUME NEW k \in 1 .. Len(lt)
      PROVE  \E i \in 1 .. Len(ms) : IsLoop(ms[i]) /\ lt[k] = Targets(ms[i])
  <2>1. PICK i \in 1 .. Len(ns) : IsLoop(ns[i]) /\ lt[k] = Targets(ns[i])
    BY DEF LoopsMatch
  <2>2. i \in 1 .. Len(ms) /\ ms[i] = ns[i]
    BY <1>1, <1>4
  <2> QED BY <2>1, <2>2
<1>8. CASE ~IsLoop(f)
  <2>1. ASSUME NEW i \in 1 .. Len(ms), IsLoop(ms[i])
        PROVE  \E k \in 1 .. Len(lt) : lt[k].break = ms[i].merge
    BY <1>1, <1>3, <1>8, <2>1, ZenonT(30) DEF LoopsMatch
  <2>2. LoopsMatch(ms, lt)
    BY <1>7, <2>1 DEF LoopsMatch
  <2> QED BY <1>8, <2>2 DEF ms
<1>9. CASE IsLoop(f)
  <2>1. ASSUME NEW i \in 1 .. Len(ms), IsLoop(ms[i])
        PROVE  \E k \in 1 .. Len(mt) : mt[k].break = ms[i].merge
    <3>1. CASE i = Len(ns) + 1
      BY <1>1, <1>2, <1>6, <3>1, FrameTargets
    <3>2. CASE i \in 1 .. Len(ns) /\ ms[i] = ns[i]
      <4>1. PICK k \in 1 .. Len(lt) : lt[k].break = ns[i].merge
        BY <2>1, <3>2 DEF LoopsMatch
      <4>2. k \in 1 .. Len(mt) /\ mt[k] = lt[k]
        BY <1>2, <1>6
      <4> QED BY <3>2, <4>1, <4>2
    <3> QED BY <1>3, <3>1, <3>2
  <2>2. ASSUME NEW k \in 1 .. Len(mt)
        PROVE  \E i \in 1 .. Len(ms) : IsLoop(ms[i]) /\ mt[k] = Targets(ms[i])
    BY <1>1, <1>2, <1>4, <1>5, <1>7, <1>9
  <2>3. ASSUME NEW k \in 1 .. Len(lt)
        PROVE  lt[k].break < f.merge
    <3>1. PICK i \in 1 .. Len(ns) : IsLoop(ns[i]) /\ lt[k] = Targets(ns[i])
      BY DEF LoopsMatch
    <3>2. FrameShape(ns[i]) /\ ns[i].merge < f.next
      BY DEF Nested
    <3>3. ns[i].merge \in Nat /\ f.next \in Nat /\ f.merge \in Nat /\ f.next <= f.merge
      BY <3>2, FrameBounds
    <3>4. lt[k].break = ns[i].merge
      BY <3>1, <3>2, FrameTargets
    <3> QED BY <3>2, <3>3, <3>4
  <2>4. ASSUME NEW k \in 1 .. Len(mt), NEW l \in 1 .. Len(mt), k < l
        PROVE  mt[k].break < mt[l].break
    <3>1. k \in 1 .. Len(lt) /\ mt[k] = lt[k]
      BY <1>2, <2>4
    <3>2. CASE l = Len(lt) + 1
      <4>1. mt[l].break = f.merge
        BY <1>2, <3>2, FrameTargets
      <4> QED BY <2>3, <3>1, <4>1
    <3>3. CASE l \in 1 .. Len(lt) /\ mt[l] = lt[l]
      BY <2>4, <3>1, <3>3 DEF LoopsMatch
    <3> QED BY <1>5, <3>2, <3>3
  <2>5. LoopsMatch(ms, mt)
    BY <1>2, <2>1, <2>2, <2>4 DEF LoopsMatch
  <2> QED BY <1>9, <2>5 DEF ms, mt
<1> QED BY <1>8, <1>9

LEMMA LoopsPop ==
  ASSUME NEW ns \in Seq(Frames), NEW n, NEW lt, NEW f, f \in Frames,
         Nested(Append(ns, f), n), LoopsMatch(Append(ns, f), lt)
  PROVE  /\ IsLoop(f) => /\ Len(lt) > 0 /\ lt # <<>> /\ lt[Len(lt)] = Targets(f)
                         /\ LoopsMatch(ns, Popped(lt))
         /\ ~IsLoop(f) => LoopsMatch(ns, lt)
<1> DEFINE ms == Append(ns, f)
<1>1. /\ Len(ms) = Len(ns) + 1 /\ ms[Len(ns) + 1] = f /\ Len(ns) \in Nat
      /\ \A i \in 1 .. Len(ns) : ms[i] = ns[i]
  OBVIOUS
<1>2. Nested(ms, n) /\ LoopsMatch(ms, lt)
  OBVIOUS
<1> HIDE DEF ms
<1>3. \A i \in 1 .. Len(ms) : (i \in 1 .. Len(ns) /\ ms[i] = ns[i]) \/ i = Len(ns) + 1
  BY <1>1
<1>4. Len(ns) + 1 \in 1 .. Len(ms) /\ \A i \in 1 .. Len(ns) : i \in 1 .. Len(ms) /\ i < Len(ns) + 1
  BY <1>1
<1>5. lt \in Seq(TargetPairs) /\ Len(lt) \in Nat
  BY <1>2 DEF LoopsMatch
<1>6. ASSUME NEW i \in 1 .. Len(ns)
      PROVE  ns[i].merge < f.merge /\ FrameShape(ns[i]) /\ ns[i].merge \in Nat /\ f.merge \in Nat
  <2>1. FrameShape(ns[i]) /\ FrameShape(f) /\ ns[i].merge < f.next
    BY <1>1, <1>2, <1>4 DEF Nested
  <2>2. ns[i].merge \in Nat /\ f.next \in Nat /\ f.merge \in Nat /\ f.next <= f.merge
    BY <2>1, FrameBounds
  <2> QED BY <2>1, <2>2
<1>7. FrameShape(f)
  BY <1>1, <1>2, <1>4 DEF Nested
<1>8. ASSUME ~IsLoop(f)
      PROVE  LoopsMatch(ns, lt)
  <2>1. ASSUME NEW i \in 1 .. Len(ns), IsLoop(ns[i])
        PROVE  \E k \in 1 .. Len(lt) : lt[k].break = ns[i].merge
    <3>1. i \in 1 .. Len(ms) /\ ms[i] = ns[i]
      BY <1>1, <1>4
    <3> QED BY <1>2, <2>1, <3>1 DEF LoopsMatch
  <2>2. ASSUME NEW k \in 1 .. Len(lt)
        PROVE  \E i \in 1 .. Len(ns) : IsLoop(ns[i]) /\ lt[k] = Targets(ns[i])
    <3>1. PICK i \in 1 .. Len(ms) : IsLoop(ms[i]) /\ lt[k] = Targets(ms[i])
      BY <1>2 DEF LoopsMatch
    <3>2. i \in 1 .. Len(ns) /\ ms[i] = ns[i]
      BY <1>1, <1>3, <1>8, <3>1
    <3> QED BY <3>1, <3>2
  <2> QED BY <1>2, <2>1, <2>2 DEF LoopsMatch
<1>9. ASSUME IsLoop(f)
      PROVE  /\ Len(lt) > 0 /\ lt # <<>> /\ lt[Len(lt)] = Targets(f)
             /\ LoopsMatch(ns, Popped(lt))
  <2>1. PICK k \in 1 .. Len(lt) : lt[k].break = f.merge
    BY <1>1, <1>2, <1>4, <1>9 DEF LoopsMatch
  <2>2. Len(lt) > 0 /\ Len(lt) \in 1 .. Len(lt) /\ lt # <<>>
    BY <1>5
  <2>3. PICK i \in 1 .. Len(ms) : IsLoop(ms[i]) /\ lt[Len(lt)] = Targets(ms[i])
    BY <1>2, <2>2 DEF LoopsMatch
  <2>4. FrameShape(ms[i]) /\ lt[Len(lt)].break = ms[i].merge
    BY <1>2, <2>3, FrameTargets DEF Nested
  <2>5. k = Len(lt) \/ f.merge < lt[Len(lt)].break
    BY <1>2, <1>5, <2>1, <2>2 DEF LoopsMatch
  <2>6. i \notin 1 .. Len(ns) \/ ms[i] # ns[i]
    <3> SUFFICES ASSUME i \in 1 .. Len(ns), ms[i] = ns[i]
                 PROVE  FALSE
      OBVIOUS
    <3>1. ns[i].merge < f.merge /\ ns[i].merge \in Nat /\ f.merge \in Nat
      BY <1>6
    <3>2. lt[Len(lt)].break = ns[i].merge
      BY <2>4
    <3> QED BY <2>1, <2>5, <3>1, <3>2
  <2>7. lt[Len(lt)] = Targets(f)
    BY <1>1, <1>3, <2>3, <2>6
  <2> DEFINE mt == Popped(lt)
  <2>8. /\ mt \in Seq(TargetPairs) /\ Len(mt) = Len(lt) - 1
        /\ \A j \in 1 .. Len(lt) - 1 : mt[j] = lt[j]
    BY <1>5, <2>2, PoppedShape
  <2> HIDE DEF mt
  <2>9. ASSUME NEW j \in 1 .. Len(ns), IsLoop(ns[j])
        PROVE  \E l \in 1 .. Len(mt) : mt[l].break = ns[j].merge
    <3>0. j \in 1 .. Len(ms) /\ ms[j] = ns[j]
      BY <1>1, <1>4
    <3>1. PICK l \in 1 .. Len(lt) : lt[l].break = ns[j].merge
      BY <1>2, <2>9, <3>0 DEF LoopsMatch
    <3>2. l # Len(lt)
      <4>1. ns[j].merge < f.merge /\ ns[j].merge \in Nat /\ f.merge \in Nat
        BY <1>6
      <4>2. lt[Len(lt)].break = f.merge
        BY <1>7, <2>7, FrameTargets
      <4> QED BY <3>1, <4>1, <4>2
    <3>3. l \in 1 .. Len(mt) /\ mt[l] = lt[l]
      BY <1>5, <2>8, <3>2
    <3> QED BY <3>1, <3>3
  <2>10. ASSUME NEW l \in 1 .. Len(mt)
         PROVE  \E j \in 1 .. Len(ns) : IsLoop(ns[j]) /\ mt[l] = Targets(ns[j])
    <3>1. l \in 1 .. Len(lt) /\ l < Len(lt) /\ mt[l] = lt[l]
      BY <1>5, <2>2, <2>8
    <3>2. PICK j \in 1 .. Len(ms) : IsLoop(ms[j]) /\ lt[l] = Targets(ms[j])
      BY <1>2, <3>1 DEF LoopsMatch
    <3>3. j # Len(ns) + 1
      <4>1. lt[l].break < lt[Len(lt)].break
        BY <1>2, <2>2, <3>1 DEF LoopsMatch
      <4>2. lt[Len(lt)].break = f.merge /\ f.merge \in Nat
        BY <1>7, <2>7, FrameTargets, FrameBounds
      <4>3. j = Len(ns) + 1 => lt[l].break = f.merge
        BY <1>1, <1>7, <3>2, FrameTargets
      <4> QED BY <4>1, <4>2, <4>3
    <3> QED BY <1>3, <3>1, <3>2, <3>3
  <2>11. ASSUME NEW j \in 1 .. Len(mt), NEW l \in 1 .. Len(mt), j < l
         PROVE  mt[j].break < mt[l].break
    <3>1. j \in 1 .. Len(lt) /\ l \in 1 .. Len(lt) /\ mt[j] = lt[j] /\ mt[l] = lt[l]
      BY <1>5, <2>2, <2>8
    <3> QED BY <1>2, <2>11, <3>1 DEF LoopsMatch
  <2>12. LoopsMatch(ns, mt)
    BY <2>8, <2>9, <2>10, <2>11 DEF LoopsMatch
  <2> QED BY <2>2, <2>7, <2>12 DEF mt
<1> QED BY <1>8, <1>9

\* A construct is opened and takes loose blocks.
LEMMA EmitPush ==
  ASSUME NEW bs, NEW c, NEW more, NEW ns, NEW lt, NEW st,
         Emitted(bs, c, more, ns, lt, st), st = TRUE,
         NEW f, FrameShape(f), Pends(f) \subseteq more,
         \A i \in 1 .. Len(ns) : ns[i].merge < f.next,
         IsLoop(f) => ~bs[f.next].erased, MayVanish(f) => Untaken(bs, f.merge)
  PROVE  Emitted(bs, c, more \ Pends(f), Append(ns, f),
                 IF IsLoop(f) THEN Append(lt, Targets(f)) ELSE lt, st)
<1> DEFINE ms == Append(ns, f)
           mt == IF IsLoop(f) THEN Append(lt, Targets(f)) ELSE lt
<1>0. /\ Nested(ns, Len(bs)) /\ ns \in Seq(Frames) /\ f \in Frames /\ LoopsMatch(ns, lt)
      /\ Loose(bs, c, more, ns) /\ Waiting(bs, ns, c) /\ Unreached(bs, ns)
      /\ Sound(bs, {c} \cup more \cup Pending(ns)) /\ Len(bs) \in Nat
  BY FrameBounds DEF Emitted, Nested, Sound
<1>1. /\ ms \in Seq(Frames) /\ Len(ms) = Len(ns) + 1 /\ ms[Len(ns) + 1] = f /\ Len(ns) \in Nat
      /\ \A i \in 1 .. Len(ns) : ms[i] = ns[i]
  BY <1>0
<1>2. Pending(ms) = Pending(ns) \cup Pends(f)
  BY <1>0, PendingAppend
<1>3. LoopsMatch(ms, mt)
  BY <1>0, LoopsPush
<1> HIDE DEF ms, mt
<1>4. \A i \in 1 .. Len(ms) :
        \/ i \in 1 .. Len(ns) /\ ms[i] = ns[i]
        \/ i = Len(ns) + 1 /\ ms[i] = f
  BY <1>1
<1>5. f.merge <= Len(bs)
  <2>1. f.merge \in more
    BY DEF Pends
  <2>2. f.merge \in 2 .. Len(bs)
    BY <1>0, <2>1 DEF Loose
  <2> QED BY <1>0, <2>2
<1>6. Nested(ms, Len(bs))
  <2>1. \A i \in 1 .. Len(ms) : FrameShape(ms[i]) /\ ms[i].merge <= Len(bs)
    BY <1>0, <1>4, <1>5 DEF Nested
  <2>2. ASSUME NEW i \in 1 .. Len(ms), NEW j \in 1 .. Len(ms), i < j
        PROVE  ms[i].merge < ms[j].next
    <3>1. i \in 1 .. Len(ns) /\ ms[i] = ns[i]
      BY <1>1, <2>2
    <3> QED BY <1>0, <1>4, <2>2, <3>1 DEF Nested
  <2> QED BY <1>0, <1>1, <2>1, <2>2 DEF Nested
<1>7. Sound(bs, {c} \cup (more \ Pends(f)) \cup Pending(ms))
  BY <1>0, <1>2, MoreOpen
<1>8. Loose(bs, c, more \ Pends(f), ms)
  BY <1>0, <1>2 DEF Loose
<1>9. Waiting(bs, ms, c)
  <2>1. \A b \in Pends(f) : b # c /\ bs[b].ops = <<>> /\ ~bs[b].erased
    BY <1>0 DEF Loose
  <2> QED BY <1>0, <1>2, <1>4, <2>1 DEF Waiting
<1>10. Unreached(bs, ms)
  BY <1>0, <1>4 DEF Unreached
<1>11. Stored(bs, c, ms, st)
  BY DEF Emitted, Stored
<1>12. Emitted(bs, c, more \ Pends(f), ms, mt, st)
  BY <1>3, <1>6, <1>7, <1>8, <1>9, <1>10, <1>11 DEF Emitted
<1> QED BY <1>12 DEF ms, mt

\* The construct f was closed.
Closed(bs, c, more, ns, lt, st, f) ==
  /\ Emitted(bs, c, more \cup Pends(f), ns, IF IsLoop(f) THEN Popped(lt) ELSE lt, st)
  /\ st = TRUE /\ FrameShape(f) /\ f.merge \in Pends(f)
  /\ \A i \in 1 .. Len(ns) : ns[i].merge < f.next
  /\ MayVanish(f) => Untaken(bs, f.merge)
  /\ IsLoop(f) => Reachable(bs, ns, f.next) /\ lt[Len(lt)] = Targets(f)

\* A construct is closed and its blocks are loose again.
LEMMA EmitPop ==
  ASSUME NEW bs, NEW c, NEW more, NEW ns \in Seq(Frames), NEW lt, NEW st, NEW f,
         Emitted(bs, c, more, Append(ns, f), lt, st), f \in Frames
  PROVE  Closed(bs, c, more, ns, lt, st, f)
<1> DEFINE ms == Append(ns, f)
           mt == IF IsLoop(f) THEN Popped(lt) ELSE lt
<1>0. /\ Nested(ms, Len(bs)) /\ LoopsMatch(ms, lt)
      /\ Loose(bs, c, more, ms) /\ Waiting(bs, ms, c) /\ Unreached(bs, ms)
      /\ Sound(bs, {c} \cup more \cup Pending(ms)) /\ Len(bs) \in Nat /\ Stored(bs, c, ms, st)
  BY DEF Emitted, Nested
<1>1. /\ ms \in Seq(Frames) /\ Len(ms) = Len(ns) + 1 /\ ms[Len(ns) + 1] = f /\ Len(ns) \in Nat
      /\ \A i \in 1 .. Len(ns) : ms[i] = ns[i]
  OBVIOUS
<1>l. LoopsMatch(ns, mt) /\ (IsLoop(f) => lt # <<>> /\ lt[Len(lt)] = Targets(f))
  BY <1>0, LoopsPop
<1>2. FrameShape(f) => Pending(ms) = Pending(ns) \cup Pends(f)
  BY PendingAppend
<1> HIDE DEF ms, mt
<1>3. Len(ns) + 1 \in 1 .. Len(ms) /\ \A i \in 1 .. Len(ns) : i \in 1 .. Len(ms) /\ i < Len(ns) + 1
  BY <1>1
<1>4. /\ FrameShape(f) /\ f.merge <= Len(bs)
      /\ \A i \in 1 .. Len(ns) : ns[i].merge < f.next
  BY <1>0, <1>1, <1>3 DEF Nested
<1>5. /\ f.next \in Nat /\ f.merge \in Nat /\ 2 <= f.next /\ f.next <= f.merge
      /\ Pends(f) \subseteq f.next .. f.merge
  BY <1>4, FrameBounds
<1>6. Nested(ns, Len(bs))
  <2>1. \A i \in 1 .. Len(ns) : FrameShape(ns[i]) /\ ns[i].merge <= Len(bs)
    BY <1>0, <1>1, <1>3 DEF Nested
  <2>2. ASSUME NEW i \in 1 .. Len(ns), NEW j \in 1 .. Len(ns), i < j
        PROVE  ns[i].merge < ns[j].next
    <3>1. i \in 1 .. Len(ms) /\ j \in 1 .. Len(ms) /\ ms[i] = ns[i] /\ ms[j] = ns[j]
      BY <1>1, <1>3
    <3> QED BY <1>0, <2>2, <3>1 DEF Nested
  <2> QED BY <1>0, <2>1, <2>2 DEF Nested
<1>7. ASSUME NEW i \in 1 .. Len(ns)
      PROVE  ns[i].merge < f.next /\ ns[i].merge \in Nat /\ Pends(ns[i]) \subseteq 1 .. ns[i].merge
  <2>1. FrameShape(ns[i])
    BY <1>6 DEF Nested
  <2>2. /\ ns[i].next \in Nat /\ ns[i].merge \in Nat /\ 2 <= ns[i].next
        /\ Pends(ns[i]) \subseteq ns[i].next .. ns[i].merge
    BY <2>1, FrameBounds
  <2> QED BY <1>4, <2>2
<1>8. \A b \in Pends(f) : b \notin Pending(ns)
  BY <1>5, <1>7 DEF Pending
<1>9. Pending(ms) = Pending(ns) \cup Pends(f)
  BY <1>2, <1>4
<1>10. Sound(bs, {c} \cup (more \cup Pends(f)) \cup Pending(ns))
  BY <1>0, <1>9, MoreOpen
<1>11. Loose(bs, c, more \cup Pends(f), ns)
  <2>1. Pends(f) \subseteq 2 .. Len(bs)
    BY <1>0, <1>4, <1>5
  <2> QED BY <1>0, <1>8, <1>9, <2>1 DEF Loose, Waiting
<1>12. Waiting(bs, ns, c)
  BY <1>0, <1>1, <1>3, <1>9 DEF Waiting
<1>13. Unreached(bs, ns) /\ (MayVanish(f) => Untaken(bs, f.merge))
  BY <1>0, <1>1, <1>3 DEF Unreached
<1>14. st = TRUE /\ Stored(bs, c, ns, st)
  <2>1. ms # <<>>
    BY <1>1
  <2> QED BY <1>0, <2>1 DEF Stored
<1>15. Emitted(bs, c, more \cup Pends(f), ns, mt, st)
  BY <1>l, <1>6, <1>10, <1>11, <1>12, <1>13, <1>14 DEF Emitted
<1>16. f.merge \in Pends(f)
  BY DEF Pends
<1>17. IsLoop(f) => Reachable(bs, ns, f.next)
  <2>1. IsLoop(f) => ~bs[f.next].erased
    BY <1>0, <1>1, <1>3 DEF Waiting
  <2>2. f.next \in 2 .. Len(bs)
    BY <1>0, <1>4, <1>5
  <2>3. \A i \in 1 .. Len(ns) : f.next # ns[i].merge
    BY <1>5, <1>7
  <2> QED BY <2>1, <2>2, <2>3 DEF Reachable
<1> QED BY <1>l, <1>4, <1>13, <1>14, <1>15, <1>16, <1>17 DEF mt, Closed

\* A loose block nothing leads to is erased.
LEMMA EmitErase ==
  ASSUME NEW bs, NEW c, NEW more, NEW ns, NEW lt, NEW st,
         Emitted(bs, c, more, ns, lt, st), NEW b \in more, Untaken(bs, b),
         \A i \in 1 .. Len(ns) : IsLoop(ns[i]) => ns[i].next # b
  PROVE  Emitted([bs EXCEPT ![b].erased = TRUE], c, more \ {b}, ns, lt, st)
<1> DEFINE block == [bs[b] EXCEPT !.erased = TRUE]
           bt    == [bs EXCEPT ![b].erased = TRUE]
<1>0. /\ Nested(ns, Len(bs)) /\ bs \in Seq(Blocks) /\ Len(bs) \in Nat /\ c \in 1 .. Len(bs)
      /\ Loose(bs, c, more, ns) /\ Waiting(bs, ns, c) /\ Unreached(bs, ns)
      /\ Sound(bs, {c} \cup more \cup Pending(ns)) /\ Stored(bs, c, ns, st) /\ LoopsMatch(ns, lt)
  BY DEF Emitted, Nested, Sound
<1>1. b \in 1 .. Len(bs) /\ b # c /\ b \notin Pending(ns) /\ bs[b].ops = <<>> /\ b # 1
  BY <1>0 DEF Loose
<1>2. bt \in Seq(Blocks) /\ Len(bt) = Len(bs) /\ bt[b].ops = <<>> /\ bt[b].erased
      /\ \A d \in 1 .. Len(bs) : d # b => bt[d] = bs[d]
  <2>1. bs[b] \in Blocks
    BY <1>0, <1>1
  <2>2. block \in Blocks /\ block.ops = <<>> /\ block.erased
    BY <1>1, <2>1 DEF Blocks
  <2>3. bt = [bs EXCEPT ![b] = block]
    OBVIOUS
  <2> HIDE DEF block, bt
  <2> QED BY <1>0, <1>1, <2>2, <2>3
<1> HIDE DEF bt
<1>3. \A d \in 1 .. Len(bs) : bt[d].ops = bs[d].ops
  BY <1>1, <1>2
<1>4. \A d \in 1 .. Len(bs) : d # b => (bt[d].erased <=> bs[d].erased)
  BY <1>2
<1>5. Sound(bt, {c} \cup (more \ {b}) \cup Pending(ns))
  <2>1. ASSUME NEW d \in 1 .. Len(bt)
        PROVE  /\ EndsOnce(bt[d].ops) /\ Shaped(bt[d].ops)
               /\ \A t : LeadsTo(bt[d].ops, t) => t \in 2 .. Len(bt) /\ ~bt[t].erased
               /\ bt[d].erased \/ d \in {c} \cup (more \ {b}) \cup Pending(ns) \/ Ends(bt[d].ops)
    <3>1. bt[d].ops = bs[d].ops /\ d \in 1 .. Len(bs)
      BY <1>2, <1>3
    <3>2. EndsOnce(bs[d].ops) /\ Shaped(bs[d].ops)
      BY <1>0, <3>1 DEF Sound
    <3>3. ASSUME NEW t, LeadsTo(bs[d].ops, t)
          PROVE  t \in 2 .. Len(bt) /\ ~bt[t].erased
      <4>1. t \in 2 .. Len(bs) /\ ~bs[t].erased /\ t # b
        BY <1>0, <3>1, <3>3 DEF Sound, Untaken
      <4> QED BY <1>2, <1>4, <4>1
    <3>4. bt[d].erased \/ d \in {c} \cup (more \ {b}) \cup Pending(ns) \/ Ends(bs[d].ops)
      <4>1. bs[d].erased \/ d \in {c} \cup more \cup Pending(ns) \/ Ends(bs[d].ops)
        BY <1>0, <3>1 DEF Sound
      <4> QED BY <1>2, <1>4, <3>1, <4>1
    <3> QED BY <3>1, <3>2, <3>3, <3>4
  <2> QED BY <1>2, <2>1 DEF Sound
<1>6. Loose(bt, c, more \ {b}, ns)
  <2>1. \A d \in more : d \in 1 .. Len(bs)
    BY <1>0 DEF Loose
  <2> QED BY <1>0, <1>2, <2>1 DEF Loose
<1>7. Waiting(bt, ns, c)
  <2>1. \A d \in Pending(ns) : d \in 1 .. Len(bs) /\ d # b
    BY <1>0, <1>1, NestBounds
  <2>2. \A i \in 1 .. Len(ns) : ns[i].next \in 1 .. Len(bs)
    BY <1>0, NestBounds
  <2> QED BY <1>0, <1>2, <1>4, <2>1, <2>2 DEF Waiting
<1>8. Unreached(bt, ns)
  BY <1>0, <1>2, <1>3 DEF Unreached, Untaken
<1>9. Stored(bt, c, ns, st)
  <2>1. SlotSound(bt, st)
    <3>1. \A d \in 2 .. Len(bs) : bt[d].ops = bs[d].ops
      BY <1>3
    <3>2. 1 \in 1 .. Len(bs)
      BY <1>0
    <3>3. SlotSound(bs, st)
      BY <1>0 DEF Stored
    <3> QED BY <1>2, <1>3, <3>1, <3>2, <3>3 DEF SlotSound
  <2> QED BY <1>0, <1>2, <1>3, <2>1 DEF Stored
<1>10. Emitted(bt, c, more \ {b}, ns, lt, st)
  BY <1>0, <1>2, <1>5, <1>6, <1>7, <1>8, <1>9 DEF Emitted
<1> QED BY <1>10 DEF bt

\* The insertion block goes on to b, unless it already ends.
Continued(bs, c, b) == IF Ends(bs[c].ops) THEN bs ELSE With(bs, c, <<Branch(b)>>)

\* bt is bs with block c finished, if it was not.
Finishes(bt, bs, c) ==
  /\ Ends(bt[c].ops) /\ Len(bt) = Len(bs) /\ bt[c].erased = bs[c].erased
  /\ Ends(bs[c].ops) => bt = bs
  /\ \A d \in 1 .. Len(bs) : d # c => bt[d] = bs[d]

LEMMA EmitContinue ==
  ASSUME NEW bs, NEW c, NEW more, NEW ns, NEW lt, NEW st,
         Emitted(bs, c, more, ns, lt, st), st = TRUE, NEW b, Reachable(bs, ns, b)
  PROVE  /\ Emitted(Continued(bs, c, b), c, more, ns, lt, st)
         /\ Finishes(Continued(bs, c, b), bs, c)
<1>1. CASE Ends(bs[c].ops)
  BY <1>1 DEF Continued, Finishes
<1>2. CASE ~Ends(bs[c].ops)
  <2>1. b \in Nat
    BY DEF Reachable
  <2>2. Row(<<Branch(b)>>, TRUE, {b}, TRUE, TRUE)
    BY <2>1, BranchRow
  <2>3. \A t \in {b} : Reachable(bs, ns, t)
    OBVIOUS
  <2> DEFINE row == With(bs, c, <<Branch(b)>>)
  <2>4. Emitted(row, c, more, ns, lt, TRUE) /\ Extends(row, bs, c, TRUE, {b})
    BY <1>2, <2>2, <2>3, EmitRow
  <2>5. Continued(bs, c, b) = row
    BY <1>2 DEF Continued
  <2> HIDE DEF row
  <2> QED BY <1>2, <2>4, <2>5 DEF Extends, Finishes
<1> QED BY <1>1, <1>2

-----------------------------------------------------------------------------
(* The steps of generation.                                                   *)

\* The state of generation; every block made so far has been given to a construct.
Generated ==
  /\ family \in Families
  /\ source \in Seq(Tokens)
  /\ Emitted(blocks, cur, {}, nest, loopTargets, stored)

LEMMA GeneratedTypes ==
  ASSUME Generated
  PROVE  /\ Len(source) + 1 \in Nat /\ Len(nest) \in Nat /\ nest \in Seq(Frames)
         /\ stored \in BOOLEAN /\ blocks \in Seq(Blocks) /\ cur \in 1 .. Len(blocks)
         /\ Len(blocks) \in Nat \ {0}
         /\ Terminated(blocks, cur) <=> Ends(blocks[cur].ops)
         /\ \A u \in family.uses : u \in {"none", "read", "assign"}
         /\ \A form \in family.forForms :
              /\ form.init \in BOOLEAN /\ form.test \in BOOLEAN /\ form.incr \in BOOLEAN
<1>1. /\ nest \in Seq(Frames) /\ stored \in BOOLEAN /\ blocks \in Seq(Blocks)
      /\ cur \in 1 .. Len(blocks) /\ source \in Seq(Tokens)
  BY DEF Generated, Emitted, Nested, Stored, Sound
<1>2. Len(blocks) \in Nat \ {0}
  BY <1>1
<1>3. /\ \A u \in family.uses : u \in {"none", "read", "assign"}
      /\ \A form \in family.forForms :
           /\ form.init \in BOOLEAN /\ form.test \in BOOLEAN /\ form.incr \in BOOLEAN
  BY Bounds DEF Generated
<1> QED BY <1>1, <1>2, <1>3 DEF Terminated, Ends

LEMMA TokenTypes ==
  ASSUME Len(nest) \in Nat,
         NEW kind \in {"stmt", "dead", "break", "continue", "return", "if", "else", "end",
                       "while", "for", "finish"},
         NEW test \in BOOLEAN, NEW rest \in BOOLEAN, NEW use \in {"none", "read", "assign"}
  PROVE  /\ Token(kind, test, rest, use) \in Tokens /\ Closing(kind) \in Tokens
         /\ [Closing(kind) EXCEPT !.use = use] \in Tokens
<1>1. Token(kind, test, rest, use) \in Tokens
  BY DEF Token, Tokens
<1>2. PICK no \in BOOLEAN : no = FALSE
  OBVIOUS
<1>3. Closing(kind) = [kind |-> kind, depth |-> Len(nest) - 1, test |-> no, rest |-> no,
                       use |-> "none"]
  BY <1>2, Zenon DEF Closing
<1>4. Len(nest) - 1 \in Int
  OBVIOUS
<1> QED BY <1>1, <1>2, <1>3, <1>4 DEF Tokens

LEMMA SourceGrows ==
  ASSUME Generated,
         NEW kind \in {"stmt", "dead", "break", "continue", "return", "if", "else", "end",
                       "while", "for", "finish"},
         NEW test \in BOOLEAN, NEW rest \in BOOLEAN, NEW use \in {"none", "read", "assign"},
         \/ source' = Append(source, Token(kind, test, rest, use))
         \/ source' = Append(source, Closing(kind))
         \/ source' = Append(source, [Closing(kind) EXCEPT !.use = use])
  PROVE  source' \in Seq(Tokens)
<1> DEFINE a == Token(kind, test, rest, use)
           b == Closing(kind)
           c == [Closing(kind) EXCEPT !.use = use]
<1>0. Len(nest) \in Nat
  BY GeneratedTypes
<1>1. a \in Tokens /\ b \in Tokens /\ c \in Tokens
  BY <1>0, TokenTypes, ZenonT(30)
<1>2. source \in Seq(Tokens)
  BY DEF Generated
<1>3. source' = Append(source, a) \/ source' = Append(source, b) \/ source' = Append(source, c)
  OBVIOUS
<1> HIDE DEF a, b, c
<1> QED BY <1>1, <1>2, <1>3

\* A loose block may be led to.
LEMMA LooseReach ==
  ASSUME NEW bs, NEW c, NEW more, NEW ns, NEW lt, NEW st,
         Emitted(bs, c, more, ns, lt, st), NEW b \in more
  PROVE  Reachable(bs, ns, b) /\ b \in 2 .. Len(bs) /\ bs[b].ops = <<>>
<1>1. Loose(bs, c, more, ns) /\ Nested(ns, Len(bs))
  BY DEF Emitted
<1>2. b \in 2 .. Len(bs) /\ ~bs[b].erased /\ b \notin Pending(ns) /\ bs[b].ops = <<>>
  BY <1>1 DEF Loose
<1>3. \A i \in 1 .. Len(ns) : ns[i].merge \in Pending(ns)
  <2>1. \A i \in 1 .. Len(ns) : ns[i].merge \in Nat
    BY <1>1, NestBounds
  <2> QED BY <2>1 DEF Pending, Pends
<1> QED BY <1>2, <1>3 DEF Reachable

\* So may the blocks break and continue lead to.
LEMMA TargetReach ==
  ASSUME NEW bs, NEW c, NEW more, NEW ns, NEW lt, NEW st,
         Emitted(bs, c, more, ns, lt, st), NEW k \in 1 .. Len(lt)
  PROVE  /\ Reachable(bs, ns, lt[k].break) /\ Reachable(bs, ns, lt[k].continue)
         /\ ns # <<>>
<1>1. Waiting(bs, ns, c) /\ Nested(ns, Len(bs)) /\ LoopsMatch(ns, lt)
  BY DEF Emitted
<1>2. PICK i \in 1 .. Len(ns) : IsLoop(ns[i]) /\ lt[k] = Targets(ns[i])
  BY <1>1 DEF LoopsMatch
<1> DEFINE f == ns[i]
<1>3. FrameShape(f) /\ f.merge <= Len(bs) /\ Len(bs) \in Nat
  BY <1>1 DEF Nested
<1>4. /\ f.next \in Nat /\ f.merge \in Nat /\ 2 <= f.next
      /\ f.kind = "while" => f.merge = f.next + 2
      /\ f.kind = "for" => f.merge = f.next + 3
      /\ f.kind \in {"while", "for"}
  BY <1>2, <1>3, FrameBounds DEF FrameShape, IsLoop
<1>5. /\ lt[k].break = f.merge
      /\ lt[k].continue = IF f.kind = "while" THEN f.next ELSE f.merge - 1
  BY <1>2, <1>3, <1>4, FrameTargets
<1>6. ~bs[f.next].erased
  BY <1>1, <1>2 DEF Waiting
<1>7. ~bs[f.merge].erased
  <2>1. f.merge \in Pending(ns)
    BY <1>4 DEF Pending, Pends
  <2> QED BY <1>1, <2>1 DEF Waiting
<1>8. f.kind = "for" => ~bs[f.merge - 1].erased
  <2>1. f.kind = "for" => f.merge - 1 \in Pending(ns)
    BY <1>4 DEF Pending, Pends
  <2> QED BY <1>1, <2>1 DEF Waiting
<1>9. ASSUME NEW j \in 1 .. Len(ns), MayVanish(ns[j])
      PROVE  ns[j].merge \notin f.next .. f.merge
  <2>1. j # i
    BY <1>4, <1>9 DEF MayVanish
  <2>2. FrameShape(ns[j]) /\ (i < j => f.merge < ns[j].next) /\ (j < i => ns[j].merge < f.next)
    BY <1>1 DEF Nested
  <2>3. ns[j].next \in Nat /\ ns[j].merge \in Nat /\ ns[j].next <= ns[j].merge
    BY <2>2, FrameBounds
  <2> QED BY <1>4, <2>1, <2>2, <2>3, SMTT(30)
<1> HIDE DEF f
<1>10. lt[k].break \in f.next .. f.merge /\ lt[k].continue \in f.next .. f.merge
       /\ ~bs[lt[k].break].erased /\ ~bs[lt[k].continue].erased
  <2>1. CASE f.kind = "while"
    BY <1>4, <1>5, <1>6, <1>7, <2>1
  <2>2. CASE f.kind = "for"
    BY <1>4, <1>5, <1>7, <1>8, <2>2, SMTT(30)
  <2> QED BY <1>4, <2>1, <2>2
<1>11. \A t \in f.next .. f.merge : t \in 2 .. Len(bs)
  BY <1>3, <1>4
<1>12. ns # <<>>
  <2>1. ns \in Seq(Frames)
    BY <1>1 DEF Nested
  <2> QED BY <2>1
<1> QED BY <1>9, <1>10, <1>11, <1>12 DEF Reachable

\* A declaration, an expression, a call or a return.
LEMMA PlainStep ==
  ASSUME Generated, NEW kind \in {"stmt", "return"}, NEW u \in family.uses,
         ~Terminated(blocks, cur),
         source' = Append(source, Token(kind, FALSE, FALSE, u)),
         blocks' = With(blocks, cur, Lazily(u) \o
                          <<Op(kind, Len(source) + 1, <<>>, Access(u, stored))>>),
         stored' = (stored \/ u = "assign"),
         UNCHANGED <<cur, nest, loopTargets, family>>
  PROVE  Generated'
<1> DEFINE e == Lazily(u) \o <<Op(kind, Len(source) + 1, <<>>, Access(u, stored))>>
           ends  == kind = "return"
           after == stored \/ u = "assign"
<1>1. /\ Len(source) + 1 \in Nat /\ Len(nest) \in Nat /\ stored \in BOOLEAN
      /\ u \in {"none", "read", "assign"} /\ ~Ends(blocks[cur].ops)
  BY GeneratedTypes
<1>2. Row(e, ends, {}, stored, after)
  BY <1>1, StatementRow
<1>3. ends \in BOOLEAN /\ after \in BOOLEAN
  OBVIOUS
<1>4. Emitted(blocks, cur, {}, nest, loopTargets, stored)
  BY DEF Generated
<1>5. blocks' = With(blocks, cur, e) /\ stored' = after
  OBVIOUS
<1> HIDE DEF e, ends, after
<1>6. Emitted(With(blocks, cur, e), cur, {}, nest, loopTargets, after)
  BY <1>1, <1>2, <1>3, <1>4, EmitRow
<1>7. source' \in Seq(Tokens)
  BY <1>1, SourceGrows
<1> QED BY <1>5, <1>6, <1>7 DEF Generated

LEMMA JumpStep ==
  ASSUME Generated, NEW kind \in {"break", "continue"}, NEW target, Jump(kind, target),
         \/ target = loopTargets[Len(loopTargets)].break
         \/ target = loopTargets[Len(loopTargets)].continue
  PROVE  Generated'
<1> DEFINE e == <<Branch(target)>>
<1>0. /\ CanEmit /\ loopTargets # <<>>
      /\ source' = Append(source, Token(kind, FALSE, FALSE, "none"))
      /\ blocks' = With(blocks, cur, e)
      /\ UNCHANGED <<cur, nest, loopTargets, stored, family>>
  BY DEF Jump, Unchanged
<1>1. Len(nest) \in Nat /\ stored \in BOOLEAN /\ ~Ends(blocks[cur].ops)
  BY <1>0, GeneratedTypes DEF CanEmit
<1>2. Emitted(blocks, cur, {}, nest, loopTargets, stored)
  BY DEF Generated
<1>3. Len(loopTargets) \in 1 .. Len(loopTargets)
  <2>1. loopTargets \in Seq(TargetPairs)
    BY <1>2 DEF Emitted, LoopsMatch
  <2> QED BY <1>0, <2>1
<1>4. Reachable(blocks, nest, target) /\ nest # <<>>
  BY <1>2, <1>3, TargetReach
<1>5. stored = TRUE
  BY <1>2, <1>4 DEF Emitted, Stored
<1>6. Row(e, TRUE, {target}, stored, TRUE)
  <2>1. target \in Nat
    BY <1>4 DEF Reachable
  <2>2. Row(e, TRUE, {target}, TRUE, TRUE)
    BY <2>1, BranchRow
  <2> QED BY <1>5, <2>2
<1> HIDE DEF e
<1>7. Emitted(With(blocks, cur, e), cur, {}, nest, loopTargets, TRUE)
  <2>1. \A t \in {target} : Reachable(blocks, nest, t)
    BY <1>4
  <2> QED BY <1>1, <1>2, <1>6, <2>1, EmitRow
<1>8. source' \in Seq(Tokens)
  BY <1>0, SourceGrows
<1> QED BY <1>0, <1>5, <1>7, <1>8 DEF Generated

\* A construct opened here gets later blocks than those already open.
LEMMA LaterBlocks ==
  ASSUME NEW bs, NEW c, NEW more, NEW ns, NEW lt, NEW st,
         Emitted(bs, c, more, ns, lt, st), NEW next, next \in Nat, next > Len(bs)
  PROVE  \A i \in 1 .. Len(ns) : ns[i].merge < next
<1>1. Nested(ns, Len(bs)) /\ Len(bs) \in Nat
  BY DEF Emitted, Nested
<1> QED BY <1>1, NestBounds

LEMMA BeginIfStep ==
  ASSUME Generated, BeginIf
  PROVE  Generated'
<1> DEFINE n == Len(blocks)
<1>1. PICK u \in family.uses, hasElse \in BOOLEAN :
        /\ source' = Append(source, Token("if", TRUE, hasElse, u))
        /\ blocks' = With(blocks \o Fresh((IF hasElse THEN n + 3 ELSE n + 2) - n), cur,
                          Materialize \o <<CondBranch(Len(source) + 1, Access(u, TRUE),
                                                      n + 1, n + 2)>>)
        /\ cur' = n + 1
        /\ nest' = Append(nest, [kind |-> "then", next |-> n + 2,
                                 merge |-> IF hasElse THEN n + 3 ELSE n + 2,
                                 continues |-> TRUE, rest |-> hasElse])
  BY DEF BeginIf
<1>2. stored' = TRUE /\ loopTargets' = loopTargets /\ family' = family /\ CanEmit
  BY DEF BeginIf, Unchanged, CanOpen
<1>3. /\ Len(source) + 1 \in Nat /\ Len(nest) \in Nat /\ stored \in BOOLEAN
      /\ u \in {"none", "read", "assign"} /\ ~Ends(blocks[cur].ops)
      /\ n \in Nat \ {0} /\ cur \in 1 .. n
  BY <1>2, GeneratedTypes DEF CanEmit
<1> DEFINE merge == IF hasElse THEN n + 3 ELSE n + 2
           new == merge - n
           e == Materialize \o <<CondBranch(Len(source) + 1, Access(u, TRUE), n + 1, n + 2)>>
           f == [kind |-> "then", next |-> n + 2, merge |-> merge, continues |-> TRUE,
                 rest |-> hasElse]
           b1 == blocks \o Fresh(new)
           b2 == With(b1, cur, e)
           more == n + 1 .. n + new
<1>4. merge \in Nat /\ new \in {2, 3} /\ n + new = merge /\ (hasElse => merge = n + 3)
      /\ (~hasElse => merge = n + 2)
  BY <1>3
<1>5. /\ blocks' = b2 /\ nest' = Append(nest, f)
  BY <1>1
<1>6. f \in Frames /\ f.kind = "then" /\ f.next = n + 2 /\ f.merge = merge /\ (f.rest <=> hasElse)
  <2> HIDE DEF merge
  <2> QED BY <1>3, <1>4 DEF Frames
<1>7. Row(e, TRUE, {n + 1, n + 2}, stored, TRUE)
  <2>0. n + 1 \in Nat /\ n + 2 \in Nat
    BY <1>3
  <2>1. Access(u, TRUE) \in {"none", "slot", "store"}
    BY <1>3, AccessReach, Zenon
  <2> DEFINE test == <<CondBranch(Len(source) + 1, Access(u, TRUE), n + 1, n + 2)>>
  <2>2. Row(test, TRUE, {n + 1, n + 2}, TRUE, TRUE)
    BY <1>3, <2>0, <2>1, TestRow
  <2> HIDE DEF test, n
  <2>3. Row(Materialize \o test, TRUE, {n + 1, n + 2}, stored, TRUE)
    BY <1>3, <2>2, MaterializeRow
  <2> QED BY <2>3 DEF test
<1>8. Emitted(blocks, cur, {}, nest, loopTargets, stored)
  BY DEF Generated
<1>9. /\ Emitted(b1, cur, more, nest, loopTargets, stored)
      /\ Len(b1) = n + new /\ b1[cur] = blocks[cur]
      /\ \A b \in more : Untaken(b1, b)
  <2>1. {} \cup more = more /\ new \in Nat
    BY <1>4
  <2> HIDE DEF new, merge, more
  <2>2. /\ Emitted(b1, cur, {} \cup (Len(blocks) + 1 .. Len(blocks) + new), nest,
                   loopTargets, stored)
        /\ Grows(b1, blocks, new)
    BY <1>8, <2>1, EmitFresh
  <2>3. more = Len(blocks) + 1 .. Len(blocks) + new
    BY DEF more
  <2> HIDE DEF b1
  <2> QED BY <1>3, <2>1, <2>2, <2>3 DEF Grows
<1> HIDE DEF e, f, b1, b2, merge, new
<1>10. more = {n + 1, n + 2, merge}
  BY <1>3, <1>4
<1>11. Emitted(b2, cur, more, nest, loopTargets, TRUE) /\ Extends(b2, b1, cur, TRUE, {n + 1, n + 2})
  <2>1. \A t \in {n + 1, n + 2} : Reachable(b1, nest, t)
    BY <1>9, <1>10, LooseReach
  <2>2. ~Ends(b1[cur].ops)
    BY <1>3, <1>9
  <2> HIDE DEF n, more
  <2> QED BY <1>7, <1>9, <2>1, <2>2, EmitRow DEF b2
<1>12. Emitted(b2, n + 1, more \ {n + 1}, nest, loopTargets, TRUE)
  <2>1. Ends(b2[cur].ops) /\ n + 1 \in more
    BY <1>10, <1>11 DEF Extends
  <2> HIDE DEF n, more
  <2> QED BY <1>11, <2>1, EmitMove
<1>13. Pends(f) = {n + 2, merge} /\ FrameShape(f) /\ ~IsLoop(f)
  BY <1>3, <1>4, <1>6 DEF Pends, FrameShape, IsLoop
<1>14. MayVanish(f) => Untaken(b2, f.merge)
  <2> SUFFICES ASSUME MayVanish(f), NEW d \in 1 .. Len(b2), LeadsTo(b2[d].ops, merge)
               PROVE  FALSE
    BY <1>6 DEF Untaken
  <2>1. merge = n + 3
    BY <1>4, <1>6 DEF MayVanish
  <2>2. d \in 1 .. Len(b1) /\ ~LeadsTo(b1[d].ops, merge)
    BY <1>9, <1>10, <1>11 DEF Extends, Untaken
  <2>3. merge \notin {n + 1, n + 2}
    BY <1>3, <2>1
  <2> QED BY <1>11, <2>2, <2>3 DEF Extends
<1>15. Emitted(b2, n + 1, (more \ {n + 1}) \ Pends(f), Append(nest, f), loopTargets, TRUE)
  <2>1. \A i \in 1 .. Len(nest) : nest[i].merge < f.next
    <3>1. f.next \in Nat /\ f.next > Len(blocks)
      BY <1>3, <1>6
    <3> QED BY <1>8, <3>1, LaterBlocks
  <2>2. Pends(f) \subseteq more \ {n + 1}
    BY <1>3, <1>4, <1>10, <1>13
  <2> HIDE DEF n, more
  <2> QED BY <1>12, <1>13, <1>14, <2>1, <2>2, EmitPush
<1>16. (more \ {n + 1}) \ Pends(f) = {}
  BY <1>10, <1>13
<1>17. source' \in Seq(Tokens)
  BY <1>1, <1>3, SourceGrows
<1> HIDE DEF more
<1>18. Emitted(blocks', cur', {}, nest', loopTargets', stored')
  BY <1>1, <1>2, <1>5, <1>15, <1>16
<1> QED BY <1>2, <1>17, <1>18 DEF Generated

LEMMA TopOfNest ==
  ASSUME Generated, nest # <<>>
  PROVE  /\ nest = Append(Popped(nest), Top) /\ Popped(nest) \in Seq(Frames) /\ Top \in Frames
         /\ Emitted(blocks, cur, {}, Append(Popped(nest), Top), loopTargets, stored)
<1>1. nest \in Seq(Frames) /\ Emitted(blocks, cur, {}, nest, loopTargets, stored)
  BY GeneratedTypes DEF Generated
<1>2. nest = Append(Popped(nest), Top) /\ Popped(nest) \in Seq(Frames) /\ Top \in Frames
  BY <1>1, PoppedShape DEF Top
<1> QED BY <1>1, <1>2

\* The frame of an if becomes that of its else part.
LEMMA ElseNest ==
  ASSUME Generated, EndThen, Top.rest
  PROVE  \E g \in Frames :
           /\ g.kind = "else" /\ g.continues = ~Terminated(blocks, cur)
           /\ g.next = Top.next /\ g.merge = Top.merge /\ g.rest = Top.rest
           /\ nest' = Append(Popped(nest), g)
<1> DEFINE f == Top
           ns == Popped(nest)
           goes == ~Terminated(blocks, cur)
           g == [f EXCEPT !.kind = "else", !.continues = goes]
<1>1. /\ nest # <<>>
      /\ nest' = [nest EXCEPT ![Len(nest)].kind = "else", ![Len(nest)].continues = goes]
  BY DEF EndThen
<1>2. goes \in BOOLEAN
  OBVIOUS
<1> HIDE DEF goes
<1>3. nest' = [nest EXCEPT ![Len(nest)] = g]
  BY <1>1 DEF Top
<1>4. ns \in Seq(Frames) /\ f \in Frames
  BY <1>1, TopOfNest
<1>5. nest \in Seq(Frames) /\ Len(nest) \in Nat \ {0}
  BY <1>1, GeneratedTypes
<1>6. Len(ns) = Len(nest) - 1 /\ \A i \in 1 .. Len(nest) - 1 : ns[i] = nest[i]
  BY <1>1, <1>5, PoppedShape
<1> HIDE DEF f, ns
<1>7. /\ g \in Frames /\ g.kind = "else" /\ g.continues = goes
      /\ g.next = f.next /\ g.merge = f.merge /\ g.rest = f.rest
  BY <1>2, <1>4 DEF Frames
<1> HIDE DEF g
<1>8. nest' \in Seq(Frames) /\ Len(nest') = Len(nest)
      /\ \A i \in 1 .. Len(nest) : nest'[i] = IF i = Len(nest) THEN g ELSE nest[i]
  BY <1>3, <1>5, <1>7
<1>9. Append(ns, g) \in Seq(Frames) /\ Len(Append(ns, g)) = Len(nest)
      /\ \A i \in 1 .. Len(nest) : Append(ns, g)[i] = IF i = Len(nest) THEN g ELSE nest[i]
  BY <1>4, <1>5, <1>6, <1>7
<1>10. \A i \in 1 .. Len(nest') : nest'[i] = Append(ns, g)[i]
  BY <1>8, <1>9
<1>11. nest' = Append(ns, g)
  BY <1>8, <1>9, <1>10, SeqEqual
<1> QED BY <1>7, <1>11 DEF f, ns, goes

LEMMA EndThenStep ==
  ASSUME Generated, EndThen
  PROVE  Generated'
<1> DEFINE f == Top
           ns == Popped(nest)
           more == Pends(f)
           bt == Continued(blocks, cur, f.merge)
<1>1. /\ nest # <<>> /\ f.kind = "then" /\ blocks' = Continue(f.merge) /\ cur' = f.next
      /\ loopTargets' = loopTargets /\ stored' = stored /\ family' = family
  BY DEF EndThen, Unchanged
<1>2. /\ nest = Append(ns, f) /\ ns \in Seq(Frames) /\ f \in Frames
      /\ Emitted(blocks, cur, {}, Append(ns, f), loopTargets, stored)
  BY <1>1, TopOfNest
<1>3. Terminated(blocks, cur) <=> Ends(blocks[cur].ops)
  BY GeneratedTypes
<1>4. blocks' = bt
  BY <1>1, <1>3 DEF Continue, Continued
<1>5. source' \in Seq(Tokens)
  <2>1. source' = Append(source, Closing("else")) \/ source' = Append(source, Closing("end"))
    BY DEF EndThen
  <2> QED BY <2>1, SourceGrows
<1> HIDE DEF f, ns, bt, more
<1>6. ~IsLoop(f)
  BY <1>1 DEF IsLoop
<1>7. /\ Emitted(blocks, cur, more, ns, loopTargets, stored) /\ stored = TRUE /\ FrameShape(f)
      /\ \A i \in 1 .. Len(ns) : ns[i].merge < f.next
      /\ MayVanish(f) => Untaken(blocks, f.merge)
  <2>1. {} \cup Pends(f) = more
    BY DEF more
  <2>2. Closed(blocks, cur, {}, ns, loopTargets, stored, f)
    BY <1>2, EmitPop
  <2> QED BY <1>6, <2>1, <2>2 DEF Closed
<1>8. f.merge \in more /\ f.next \in more
  BY <1>1 DEF more, Pends
<1>9. /\ Emitted(bt, cur, more, ns, loopTargets, stored) /\ Ends(bt[cur].ops)
      /\ Ends(blocks[cur].ops) => bt = blocks
  <2>1. Reachable(blocks, ns, f.merge)
    BY <1>7, <1>8, LooseReach
  <2>2. Emitted(bt, cur, more, ns, loopTargets, stored) /\ Finishes(bt, blocks, cur)
    BY <1>7, <2>1, EmitContinue DEF bt
  <2> QED BY <2>2 DEF Finishes
<1>10. Emitted(bt, f.next, more \ {f.next}, ns, loopTargets, TRUE)
  BY <1>7, <1>8, <1>9, EmitMove
<1>11. ASSUME f.rest
       PROVE  Emitted(bt, f.next, {}, nest', loopTargets, TRUE)
  <2>1. PICK g \in Frames :
          /\ g.kind = "else" /\ g.continues = ~Terminated(blocks, cur)
          /\ g.next = f.next /\ g.merge = f.merge /\ g.rest = f.rest
          /\ nest' = Append(ns, g)
    BY <1>11, ElseNest DEF f, ns
  <2>3. g.kind = "else" /\ g.next = f.next /\ g.merge = f.merge
    BY <2>1
  <2>4. nest' = Append(ns, g)
    BY <2>1
  <2>5. FrameShape(g) /\ Pends(g) = {f.merge} /\ ~IsLoop(g)
    BY <1>1, <1>7, <1>11, <2>3 DEF FrameShape, Pends, IsLoop
  <2>6. more \ {f.next} = {f.merge}
    <3>1. f.next # f.merge
      BY <1>1, <1>7, <1>11, FrameBounds DEF FrameShape
    <3> QED BY <1>1, <3>1 DEF more, Pends
  <2>7. MayVanish(g) => Untaken(bt, g.merge)
    BY <1>1, <1>3, <1>7, <1>9, <1>11, <2>1, <2>3 DEF MayVanish
  <2>8. Emitted(bt, f.next, {f.merge} \ Pends(g), Append(ns, g), loopTargets, TRUE)
    BY <1>7, <1>10, <2>3, <2>5, <2>6, <2>7, EmitPush
  <2>9. {f.merge} \ Pends(g) = {}
    BY <2>5
  <2> QED BY <2>4, <2>8, <2>9
<1>12. ASSUME ~f.rest
       PROVE  Emitted(bt, f.next, {}, nest', loopTargets, TRUE)
  <2>1. nest' = ns
    BY <1>12 DEF EndThen, f, ns
  <2>2. more \ {f.next} = {}
    BY <1>1, <1>7, <1>12 DEF more, Pends, FrameShape
  <2> QED BY <1>10, <2>1, <2>2
<1>13. Emitted(blocks', cur', {}, nest', loopTargets', stored')
  BY <1>1, <1>4, <1>7, <1>11, <1>12
<1> QED BY <1>1, <1>5, <1>13 DEF Generated

\* The innermost construct is closed.
LEMMA CloseTop ==
  ASSUME Generated, nest # <<>>
  PROVE  /\ Emitted(blocks, cur, Pends(Top), Popped(nest),
                    IF IsLoop(Top) THEN Popped(loopTargets) ELSE loopTargets, stored)
         /\ stored = TRUE /\ FrameShape(Top) /\ Top.merge \in Pends(Top)
         /\ \A i \in 1 .. Len(Popped(nest)) : Popped(nest)[i].merge < Top.next
         /\ MayVanish(Top) => Untaken(blocks, Top.merge)
         /\ IsLoop(Top) => /\ Reachable(blocks, Popped(nest), Top.next)
                           /\ loopTargets[Len(loopTargets)] = Targets(Top)
<1> DEFINE f == Top
           ns == Popped(nest)
<1>1. /\ ns \in Seq(Frames) /\ f \in Frames
      /\ Emitted(blocks, cur, {}, Append(ns, f), loopTargets, stored)
  BY TopOfNest
<1> HIDE DEF f, ns
<1>2. Closed(blocks, cur, {}, ns, loopTargets, stored, f)
  BY <1>1, EmitPop
<1>3. {} \cup Pends(f) = Pends(f)
  OBVIOUS
<1> QED BY <1>2, <1>3 DEF f, ns, Closed

LEMMA ContinueIsContinued ==
  ASSUME Generated, NEW b
  PROVE  Continue(b) = Continued(blocks, cur, b)
BY GeneratedTypes DEF Continue, Continued

LEMMA EndElseStep ==
  ASSUME Generated, EndElse
  PROVE  Generated'
<1> DEFINE f == Top
           ns == Popped(nest)
           bt == Continued(blocks, cur, f.merge)
<1>1. /\ nest # <<>> /\ f.kind = "else" /\ nest' = ns
      /\ loopTargets' = loopTargets /\ stored' = stored /\ family' = family
      /\ source' = Append(source, Closing("end"))
      /\ IF MergeNeeded(f)
         THEN blocks' = Continue(f.merge) /\ cur' = f.merge
         ELSE blocks' = [blocks EXCEPT ![f.merge].erased = TRUE] /\ cur' = cur
  BY DEF EndElse, Unchanged
<1>2. /\ Emitted(blocks, cur, Pends(f), ns,
                 IF IsLoop(f) THEN Popped(loopTargets) ELSE loopTargets, stored)
      /\ stored = TRUE /\ FrameShape(f)
      /\ \A i \in 1 .. Len(ns) : ns[i].merge < f.next
      /\ MayVanish(f) => Untaken(blocks, f.merge)
  BY <1>1, CloseTop
<1>3. Continue(f.merge) = bt
  BY ContinueIsContinued
<1>4. Terminated(blocks, cur) <=> Ends(blocks[cur].ops)
  BY GeneratedTypes
<1>5. source' \in Seq(Tokens)
  BY <1>1, SourceGrows
<1> HIDE DEF f, ns, bt
<1>6. ~IsLoop(f) /\ Pends(f) = {f.merge}
  BY <1>1 DEF IsLoop, Pends
<1>7. Emitted(blocks, cur, {f.merge}, ns, loopTargets, stored)
  BY <1>2, <1>6
<1>8. {f.merge} \ {f.merge} = {}
  OBVIOUS
<1>9. CASE MergeNeeded(f)
  <2>1. Reachable(blocks, ns, f.merge)
    BY <1>7, LooseReach
  <2>2. Emitted(bt, cur, {f.merge}, ns, loopTargets, stored) /\ Finishes(bt, blocks, cur)
    BY <1>2, <1>7, <2>1, EmitContinue DEF bt
  <2>3. Emitted(bt, f.merge, {f.merge} \ {f.merge}, ns, loopTargets, stored)
    BY <1>2, <2>2, EmitMove DEF Finishes
  <2>4. Emitted(blocks', cur', {}, nest', loopTargets', stored')
    BY <1>1, <1>3, <1>8, <1>9, <2>3
  <2> QED BY <1>1, <1>5, <2>4 DEF Generated
<1>10. CASE ~MergeNeeded(f)
  <2>1. MayVanish(f)
    BY <1>1, <1>10 DEF MergeNeeded, MayVanish
  <2>2. \A i \in 1 .. Len(ns) : IsLoop(ns[i]) => ns[i].next # f.merge
    <3> SUFFICES ASSUME NEW i \in 1 .. Len(ns)
                 PROVE  ns[i].next # f.merge
      OBVIOUS
    <3>1. FrameShape(ns[i]) /\ ns[i].merge < f.next
      BY <1>2, <1>7 DEF Emitted, Nested
    <3>2. /\ ns[i].next \in Nat /\ ns[i].merge \in Nat /\ ns[i].next <= ns[i].merge
          /\ f.next \in Nat /\ f.merge \in Nat /\ f.next <= f.merge
      BY <1>2, <3>1, FrameBounds
    <3> QED BY <3>1, <3>2
  <2> DEFINE be == [blocks EXCEPT ![f.merge].erased = TRUE]
  <2>3. Emitted(be, cur, {f.merge} \ {f.merge}, ns, loopTargets, stored)
    BY <1>2, <1>7, <2>1, <2>2, EmitErase
  <2>4. blocks' = be
    BY <1>1, <1>10
  <2> HIDE DEF be
  <2>5. Emitted(blocks', cur', {}, nest', loopTargets', stored')
    BY <1>1, <1>8, <1>10, <2>3, <2>4
  <2> QED BY <1>1, <1>5, <2>5 DEF Generated
<1> QED BY <1>9, <1>10

LEMMA EndWhileStep ==
  ASSUME Generated, EndWhile
  PROVE  Generated'
<1> DEFINE f == Top
           ns == Popped(nest)
           lt == Popped(loopTargets)
           bt == Continued(blocks, cur, f.next)
<1>1. /\ nest # <<>> /\ f.kind = "while" /\ nest' = ns /\ loopTargets' = lt
      /\ stored' = stored /\ family' = family
      /\ source' = Append(source, Closing("end"))
      /\ blocks' = Continue(f.next) /\ cur' = f.merge
  BY DEF EndWhile, Unchanged, DropTargets
<1>2. /\ Emitted(blocks, cur, Pends(f), ns,
                 IF IsLoop(f) THEN lt ELSE loopTargets, stored)
      /\ stored = TRUE /\ (IsLoop(f) => Reachable(blocks, ns, f.next))
  BY <1>1, CloseTop
<1>3. blocks' = bt
  BY <1>1, ContinueIsContinued
<1>4. source' \in Seq(Tokens)
  BY <1>1, SourceGrows
<1> HIDE DEF f, ns, bt, lt
<1>5. IsLoop(f) /\ Pends(f) = {f.merge}
  BY <1>1 DEF IsLoop, Pends
<1>6. Emitted(blocks, cur, {f.merge}, ns, lt, stored)
  BY <1>2, <1>5
<1>7. Emitted(bt, cur, {f.merge}, ns, lt, stored) /\ Finishes(bt, blocks, cur)
  BY <1>2, <1>5, <1>6, EmitContinue DEF bt
<1>8. Emitted(bt, f.merge, {f.merge} \ {f.merge}, ns, lt, stored)
  BY <1>2, <1>7, EmitMove DEF Finishes
<1>9. {f.merge} \ {f.merge} = {}
  OBVIOUS
<1>10. Emitted(blocks', cur', {}, nest', loopTargets', stored')
  BY <1>1, <1>3, <1>8, <1>9
<1> QED BY <1>1, <1>4, <1>10 DEF Generated

LEMMA EndForStep ==
  ASSUME Generated, EndFor
  PROVE  Generated'
<1> DEFINE f == Top
           ns == Popped(nest)
           lt == Popped(loopTargets)
           increment == loopTargets[Len(loopTargets)].continue
           bt == Continued(blocks, cur, increment)
<1>1. /\ nest # <<>> /\ f.kind = "for" /\ nest' = ns /\ loopTargets' = lt
      /\ stored' = stored /\ family' = family /\ cur' = f.merge
  BY DEF EndFor, Unchanged, DropTargets
<1>2. PICK u \in IF f.rest THEN family.uses ELSE {"none"} :
        /\ source' = Append(source, [Closing("end") EXCEPT !.use = u])
        /\ blocks' = With(Continue(increment), increment,
                          (IF f.rest THEN <<Op("stmt", Len(source) + 1, <<>>, Access(u, TRUE))>>
                                     ELSE <<>>)
                          \o <<Branch(f.next)>>)
  BY DEF EndFor
<1>3. /\ Emitted(blocks, cur, Pends(f), ns, IF IsLoop(f) THEN lt ELSE loopTargets, stored)
      /\ stored = TRUE /\ FrameShape(f)
      /\ IsLoop(f) => /\ Reachable(blocks, ns, f.next)
                      /\ loopTargets[Len(loopTargets)] = Targets(f)
  BY <1>1, CloseTop
<1>4. Continue(increment) = bt
  BY ContinueIsContinued
<1>5. u \in {"none", "read", "assign"} /\ Len(source) + 1 \in Nat
  BY <1>2, GeneratedTypes
<1>6. source' \in Seq(Tokens)
  BY <1>2, <1>5, SourceGrows
<1> DEFINE e == (IF f.rest THEN <<Op("stmt", Len(source) + 1, <<>>, Access(u, TRUE))>>
                           ELSE <<>>)
                \o <<Branch(f.next)>>
<1>7. blocks' = With(bt, increment, e)
  BY <1>2, <1>4
<1> HIDE DEF f, ns, bt, lt
<1>8. /\ IsLoop(f) /\ f.next \in Nat /\ f.merge \in Nat
      /\ increment = f.merge - 1 /\ Pends(f) = {f.merge, f.merge - 1}
  BY <1>1, <1>3, FrameTargets, FrameBounds DEF IsLoop, Pends
<1>9. Row(e, TRUE, {f.next}, TRUE, TRUE)
  <2>1. Row(<<Branch(f.next)>>, TRUE, {f.next}, TRUE, TRUE)
    BY <1>8, BranchRow
  <2>2. CASE f.rest
    <3> DEFINE s == <<Op("stmt", Len(source) + 1, <<>>, Access(u, TRUE))>>
    <3>1. Access(u, TRUE) \in {"none", "slot", "store"}
      BY <1>5, AccessReach, Zenon
    <3>2. Row(s, FALSE, {}, TRUE, TRUE)
      BY <1>5, <3>1, ExpressionRow
    <3> HIDE DEF s
    <3>3. Row(s \o <<Branch(f.next)>>, TRUE, {f.next}, TRUE, TRUE)
      BY <2>1, <3>2, RowBehind
    <3> QED BY <2>2, <3>3 DEF s
  <2>3. CASE ~f.rest
    <3>1. <<>> \o <<Branch(f.next)>> = <<Branch(f.next)>>
      OBVIOUS
    <3> QED BY <2>1, <2>3, <3>1
  <2> QED BY <2>2, <2>3
<1> HIDE DEF e, increment
<1>10. Emitted(blocks, cur, Pends(f), ns, lt, stored) /\ increment \in Pends(f)
  BY <1>3, <1>8
<1>11. Emitted(bt, cur, Pends(f), ns, lt, stored) /\ Finishes(bt, blocks, cur)
  <2>1. Reachable(blocks, ns, increment)
    BY <1>10, LooseReach
  <2> QED BY <1>3, <1>10, <2>1, EmitContinue DEF bt
<1>12. Reachable(bt, ns, f.next)
  <2>1. Reachable(blocks, ns, f.next)
    BY <1>3, <1>8
  <2>2. f.next \in 1 .. Len(blocks)
    BY <1>8, <2>1 DEF Reachable
  <2> QED BY <1>11, <2>1, <2>2 DEF Reachable, Finishes
<1> DEFINE bu == With(bt, increment, e)
<1>13. Emitted(bu, cur, Pends(f) \ {increment}, ns, lt, stored) /\ Extends(bu, bt, increment, TRUE, {f.next})
  <2>1. \A t \in {f.next} : Reachable(bt, ns, t)
    BY <1>12
  <2>2. Emitted(bt, cur, Pends(f), ns, lt, stored)
    BY <1>11
  <2>3. WrittenInto(bt, cur, Pends(f), ns, lt, stored, increment, e, {f.next})
    BY <1>3, <1>9, <1>10, <2>1, <2>2, EmitInto
  <2> QED BY <2>3 DEF WrittenInto
<1> HIDE DEF bu
<1>14. Ends(bu[cur].ops)
  <2>1. cur # increment /\ cur \in 1 .. Len(bt)
    BY <1>10, <1>11 DEF Emitted, Loose
  <2> QED BY <1>11, <1>13, <2>1 DEF Extends, Finishes
<1>15. Pends(f) \ {increment} = {f.merge}
  BY <1>8
<1>16. Emitted(bu, f.merge, {f.merge} \ {f.merge}, ns, lt, stored)
  BY <1>3, <1>13, <1>14, <1>15, EmitMove
<1>17. {f.merge} \ {f.merge} = {} /\ blocks' = bu
  BY <1>7 DEF bu
<1>18. Emitted(blocks', cur', {}, nest', loopTargets', stored')
  BY <1>1, <1>16, <1>17
<1> QED BY <1>1, <1>6, <1>18 DEF Generated

LEMMA BeginWhileStep ==
  ASSUME Generated, BeginWhile
  PROVE  Generated'
<1> DEFINE n == Len(blocks)
           f == [kind |-> "while", next |-> n + 1, merge |-> n + 3, continues |-> TRUE,
                 rest |-> FALSE]
           lt == Append(loopTargets, [break |-> n + 3, continue |-> n + 1])
<1>1. PICK u \in family.uses :
        /\ source' = Append(source, Token("while", TRUE, FALSE, u))
        /\ blocks' = With(With(blocks \o Fresh(3), cur, Materialize \o <<Branch(n + 1)>>), n + 1,
                          <<CondBranch(Len(source) + 1, Access(u, TRUE), n + 2, n + 3)>>)
        /\ cur' = n + 2 /\ nest' = Append(nest, f) /\ loopTargets' = lt
  BY DEF BeginWhile
<1>2. stored' = TRUE /\ family' = family /\ CanEmit
  BY DEF BeginWhile, Unchanged, CanOpen
<1>3. /\ Len(source) + 1 \in Nat /\ stored \in BOOLEAN
      /\ u \in {"none", "read", "assign"} /\ ~Ends(blocks[cur].ops)
      /\ n \in Nat \ {0} /\ cur \in 1 .. n
  BY <1>2, GeneratedTypes DEF CanEmit
<1> DEFINE e  == Materialize \o <<Branch(n + 1)>>
           e2 == <<CondBranch(Len(source) + 1, Access(u, TRUE), n + 2, n + 3)>>
           b1 == blocks \o Fresh(3)
           b2 == With(b1, cur, e)
           b3 == With(b2, n + 1, e2)
           more == {n + 1, n + 2, n + 3}
<1>4. blocks' = b3
  BY <1>1
<1>5. /\ f \in Frames /\ f.kind = "while" /\ f.next = n + 1 /\ f.merge = n + 3
      /\ lt = Append(loopTargets, Targets(f))
  BY <1>3 DEF Frames, Targets
<1>6. Pends(f) = {n + 3} /\ FrameShape(f) /\ IsLoop(f) /\ ~MayVanish(f)
  BY <1>3, <1>5 DEF Pends, FrameShape, IsLoop, MayVanish
<1>7. Row(e, TRUE, {n + 1}, stored, TRUE)
  <2>1. n + 1 \in Nat
    BY <1>3
  <2> HIDE DEF n
  <2>2. Row(<<Branch(n + 1)>>, TRUE, {n + 1}, TRUE, TRUE)
    BY <2>1, BranchRow
  <2> QED BY <1>3, <2>2, MaterializeRow
<1>8. Row(e2, TRUE, {n + 2, n + 3}, TRUE, TRUE)
  <2>1. n + 2 \in Nat /\ n + 3 \in Nat
    BY <1>3
  <2>2. Access(u, TRUE) \in {"none", "slot", "store"}
    BY <1>3, AccessReach, Zenon
  <2> HIDE DEF n
  <2> QED BY <1>3, <2>1, <2>2, TestRow
<1>9. Emitted(blocks, cur, {}, nest, loopTargets, stored)
  BY DEF Generated
<1>10. Emitted(b1, cur, more, nest, loopTargets, stored) /\ Grows(b1, blocks, 3)
  <2>1. {} \cup (Len(blocks) + 1 .. Len(blocks) + 3) = more
    BY <1>3
  <2>2. /\ Emitted(b1, cur, {} \cup (Len(blocks) + 1 .. Len(blocks) + 3), nest, loopTargets, stored)
        /\ Grows(b1, blocks, 3)
    BY <1>9, EmitFresh
  <2> QED BY <2>1, <2>2
<1>11. b1[cur] = blocks[cur]
  BY <1>3, <1>10 DEF Grows
<1> HIDE DEF e, e2, f, b1, b2, b3, lt
<1>12. Emitted(b2, cur, more, nest, loopTargets, TRUE) /\ Extends(b2, b1, cur, TRUE, {n + 1})
  <2>1. \A t \in {n + 1} : Reachable(b1, nest, t)
    BY <1>10, LooseReach
  <2> HIDE DEF n, more
  <2> QED BY <1>3, <1>7, <1>10, <1>11, <2>1, EmitRow DEF b2
<1>13. WrittenInto(b2, cur, more, nest, loopTargets, TRUE, n + 1, e2, {n + 2, n + 3})
  <2>2. n + 1 \in more /\ n + 2 \in more /\ n + 3 \in more
    OBVIOUS
  <2> HIDE DEF more
  <2>1. Reachable(b2, nest, n + 2) /\ Reachable(b2, nest, n + 3)
    BY <1>12, <2>2, LooseReach
  <2> HIDE DEF n, more
  <2> QED BY <1>8, <1>12, <2>1, <2>2, EmitInto
<1>14. /\ Emitted(b3, cur, more \ {n + 1}, nest, loopTargets, TRUE)
       /\ Extends(b3, b2, n + 1, TRUE, {n + 2, n + 3})
  BY <1>13 DEF WrittenInto, b3
<1>15. Ends(b3[cur].ops)
  <2>1. cur # n + 1 /\ cur \in 1 .. Len(b2)
    BY <1>3, <1>12 DEF Emitted
  <2> QED BY <1>12, <1>14, <2>1 DEF Extends
<1>16. ~b3[f.next].erased
  <2>1. ~b2[n + 1].erased
    BY <1>12, LooseReach DEF Reachable
  <2> QED BY <1>5, <1>14, <2>1 DEF Extends
<1>17. more \ {n + 1} = {n + 2, n + 3} /\ {n + 2, n + 3} \ {n + 2} = {n + 3}
  BY <1>3
<1>18. Emitted(b3, n + 2, {n + 3}, nest, loopTargets, TRUE)
  <2>1. n + 2 \in {n + 2, n + 3}
    OBVIOUS
  <2>2. Emitted(b3, cur, {n + 2, n + 3}, nest, loopTargets, TRUE)
    BY <1>14, <1>17
  <2> HIDE DEF n
  <2>3. Emitted(b3, n + 2, {n + 2, n + 3} \ {n + 2}, nest, loopTargets, TRUE)
    BY <1>15, <2>1, <2>2, EmitMove
  <2> QED BY <1>17, <2>3 DEF n
<1>19. \A i \in 1 .. Len(nest) : nest[i].merge < f.next
  <2>1. f.next \in Nat /\ f.next > Len(blocks)
    BY <1>3, <1>5
  <2> QED BY <1>9, <2>1, LaterBlocks
<1>20. Emitted(b3, n + 2, {n + 3} \ Pends(f), Append(nest, f),
               IF IsLoop(f) THEN Append(loopTargets, Targets(f)) ELSE loopTargets, TRUE)
  <2>1. Pends(f) \subseteq {n + 3}
    BY <1>6
  <2> HIDE DEF n
  <2> QED BY <1>6, <1>16, <1>18, <1>19, <2>1, EmitPush
<1>21. {n + 3} \ Pends(f) = {}
  BY <1>6
<1>22. source' \in Seq(Tokens)
  BY <1>1, <1>3, SourceGrows
<1> HIDE DEF n, more
<1>23. Emitted(blocks', cur', {}, nest', loopTargets', stored')
  BY <1>1, <1>2, <1>4, <1>5, <1>6, <1>20, <1>21
<1> QED BY <1>2, <1>22, <1>23 DEF Generated

\* The row in front of a for loop.
LEMMA ForRow ==
  ASSUME stored \in BOOLEAN, NEW t \in Nat, NEW u \in {"none", "slot", "store"}, NEW c \in Nat,
         NEW n \in {0, 1}
  PROVE  Row(Materialize \o [i \in 1 .. n |-> Op("stmt", t, <<>>, u)] \o <<Branch(c)>>,
             TRUE, {c}, stored, TRUE)
<1> DEFINE s == [i \in 1 .. n |-> Op("stmt", t, <<>>, u)]
           o == Op("stmt", t, <<>>, u)
           e == <<Branch(c)>>
<1>1. Row(e, TRUE, {c}, TRUE, TRUE)
  BY BranchRow
<1>2. CASE n = 0
  <2>1. s = <<>>
    BY <1>2
  <2>2. Materialize \o <<>> = Materialize
    <3>1. Materialize \in Seq(Operations)
      <4>1. <<>> \in OpSeqs /\ <<Alloca>> \in OpSeqs
        BY AllocaOp, NoOp
      <4> QED BY <4>1 DEF Materialize, OpSeqs
    <3> QED BY <3>1
  <2>3. Row(Materialize \o e, TRUE, {c}, stored, TRUE)
    BY <1>1, MaterializeRow
  <2> HIDE DEF s, e
  <2>4. Row(Materialize \o s \o e, TRUE, {c}, stored, TRUE)
    BY <2>1, <2>2, <2>3
  <2> QED BY <2>4 DEF s, e
<1>3. CASE n = 1
  <2>1. s = <<o>>
    BY <1>3
  <2>2. Row(<<o>>, FALSE, {}, TRUE, TRUE)
    BY ExpressionRow
  <2> HIDE DEF s, e, o
  <2>3. Row(Materialize \o s, FALSE, {}, stored, TRUE)
    BY <2>1, <2>2, MaterializeRow
  <2>4. Row(Materialize \o s \o e, TRUE, {c}, stored, TRUE)
    BY <1>1, <2>3, RowBehind
  <2> QED BY <2>4 DEF s, e
<1> QED BY <1>2, <1>3

\* The row that ends the block of a for loop's condition.
LEMMA ForTestRow ==
  ASSUME NEW t \in Nat, NEW u \in {"none", "slot", "store"}, NEW b \in Nat, NEW c \in Nat,
         NEW test \in BOOLEAN
  PROVE  Row(<<IF test THEN CondBranch(t, u, b, c) ELSE [Branch(b) EXCEPT !.token = t]>>,
             TRUE, IF test THEN {b, c} ELSE {b}, TRUE, TRUE)
<1> DEFINE o == [Branch(b) EXCEPT !.token = t]
<1>1. CASE test
  BY <1>1, TestRow
<1>2. CASE ~test
  <2>1. o \in Operations /\ o.kind = "br" /\ o.use = "none" /\ o.to = <<b>>
    <3>1. /\ Branch(b) \in Operations /\ Branch(b).kind = "br" /\ Branch(b).use = "none"
          /\ Branch(b).to = <<b>>
      BY BranchOp
    <3> QED BY <3>1 DEF Operations
  <2> HIDE DEF o
  <2>2. DOMAIN o.to = {1} /\ o.to[1] = b
    BY <2>1
  <2>3. \A c1 : (\E m \in DOMAIN o.to : o.to[m] = c1) <=> c1 \in {b}
    BY <2>2
  <2>4. /\ <<o>> \in OpSeqs /\ <<o>> # <<>> /\ EndsOnce(<<o>>) /\ Ends(<<o>>) /\ Shaped(<<o>>)
        /\ InSlot(<<o>>)
    BY <2>1, <2>2, SingleOp DEF Terminators
  <2>5. \A c1 : LeadsTo(<<o>>, c1) <=> c1 \in {b}
    BY <2>1, <2>3, SingleOp
  <2> DEFINE e == <<o>>
  <2> HIDE DEF e
  <2>6. Row(e, TRUE, {b}, TRUE, TRUE)
    BY <2>4, <2>5 DEF Row, e
  <2> QED BY <1>2, <2>6 DEF e, o
<1> QED BY <1>1, <1>2

\* The initializer of a for loop and its header follow in the body.
LEMMA ForSource ==
  ASSUME Generated, NEW u \in {"none", "read", "assign"}, NEW init \in BOOLEAN,
         NEW test \in BOOLEAN, NEW incr \in BOOLEAN
  PROVE  source \o (IF init THEN <<Token("stmt", FALSE, FALSE, u)>> ELSE <<>>)
                \o <<Token("for", test, incr, u)>> \in Seq(Tokens)
<1> DEFINE a == Token("stmt", FALSE, FALSE, u)
           b == Token("for", test, incr, u)
<1>1. a \in Tokens /\ b \in Tokens
  BY GeneratedTypes, TokenTypes
<1>2. source \in Seq(Tokens)
  BY DEF Generated
<1> HIDE DEF a, b
<1>3. source \o (IF init THEN <<a>> ELSE <<>>) \o <<b>> \in Seq(Tokens)
  BY <1>1, <1>2
<1> QED BY <1>3 DEF a, b

LEMMA BeginForStep ==
  ASSUME Generated, BeginFor
  PROVE  Generated'
<1> DEFINE n == Len(blocks)
           Initial(form, u) == IF form.init THEN <<Token("stmt", FALSE, FALSE, u)>> ELSE <<>>
           TestToken(form, u) == Len(source) + Len(Initial(form, u)) + 1
           Frame(form) == [kind |-> "for", next |-> n + 1, merge |-> n + 4, continues |-> TRUE,
                           rest |-> form.incr]
           lt == Append(loopTargets, [break |-> n + 4, continue |-> n + 3])
<1>1. PICK u \in family.uses, form \in family.forForms :
        /\ source' = source \o Initial(form, u) \o <<Token("for", form.test, form.incr, u)>>
        /\ blocks' = With(With(blocks \o Fresh(4), cur,
                               Materialize
                               \o [i \in 1 .. Len(Initial(form, u)) |->
                                     Op("stmt", Len(source) + 1, <<>>, Access(u, TRUE))]
                               \o <<Branch(n + 1)>>),
                          n + 1,
                          <<IF form.test
                            THEN CondBranch(TestToken(form, u), Access(u, TRUE), n + 2, n + 4)
                            ELSE [Branch(n + 2) EXCEPT !.token = TestToken(form, u)]>>)
        /\ cur' = n + 2 /\ nest' = Append(nest, Frame(form)) /\ loopTargets' = lt
  BY DEF BeginFor
<1>2. stored' = TRUE /\ family' = family /\ CanEmit
  BY DEF BeginFor, Unchanged, CanOpen
<1>3. /\ Len(source) + 1 \in Nat /\ Len(source) \in Nat /\ stored \in BOOLEAN
      /\ u \in {"none", "read", "assign"} /\ ~Ends(blocks[cur].ops)
      /\ n \in Nat \ {0} /\ cur \in 1 .. n
      /\ form.init \in BOOLEAN /\ form.test \in BOOLEAN /\ form.incr \in BOOLEAN
  BY <1>2, GeneratedTypes DEF CanEmit, Generated
<1> DEFINE k == Len(Initial(form, u))
           t == TestToken(form, u)
           reach == Access(u, TRUE)
           f == Frame(form)
<1>4. k \in {0, 1} /\ t \in Nat
  <2>1. k \in {0, 1}
    BY <1>3
  <2> HIDE DEF k
  <2>2. t = Len(source) + k + 1
    BY DEF k
  <2> QED BY <1>3, <2>1, <2>2
<1>5. reach \in {"none", "slot", "store"}
  BY <1>3, AccessReach, Zenon
<1>6. source' \in Seq(Tokens)
  BY <1>1, <1>3, ForSource
<1> DEFINE e  == Materialize \o [i \in 1 .. k |-> Op("stmt", Len(source) + 1, <<>>, reach)]
                 \o <<Branch(n + 1)>>
           e2 == <<IF form.test THEN CondBranch(t, reach, n + 2, n + 4)
                                ELSE [Branch(n + 2) EXCEPT !.token = t]>>
           targets == IF form.test THEN {n + 2, n + 4} ELSE {n + 2}
           b1 == blocks \o Fresh(4)
           b2 == With(b1, cur, e)
           b3 == With(b2, n + 1, e2)
           more == {n + 1, n + 2, n + 3, n + 4}
<1>7. blocks' = b3
  BY <1>1
<1>8. /\ f \in Frames /\ f.kind = "for" /\ f.next = n + 1 /\ f.merge = n + 4
      /\ nest' = Append(nest, f)
  BY <1>1, <1>3 DEF Frames
<1>9. lt = Append(loopTargets, Targets(f))
  <2>1. n + 4 - 1 = n + 3
    BY <1>3
  <2> QED BY <1>8, <2>1 DEF Targets
<1> HIDE DEF f, Frame, k, t, reach, TestToken, Initial
<1>10. Pends(f) = {n + 3, n + 4} /\ FrameShape(f) /\ IsLoop(f) /\ ~MayVanish(f)
  <2>1. n + 4 - 1 = n + 3
    BY <1>3
  <2> QED BY <1>3, <1>8, <2>1 DEF Pends, FrameShape, IsLoop, MayVanish
<1>11. Row(e, TRUE, {n + 1}, stored, TRUE)
  <2>1. n + 1 \in Nat
    BY <1>3
  <2> HIDE DEF n
  <2> QED BY <1>3, <1>4, <1>5, <2>1, ForRow
<1>12. Row(e2, TRUE, targets, TRUE, TRUE)
  <2>1. n + 2 \in Nat /\ n + 4 \in Nat
    BY <1>3
  <2> HIDE DEF n
  <2> QED BY <1>3, <1>4, <1>5, <2>1, ForTestRow
<1>13. Emitted(blocks, cur, {}, nest, loopTargets, stored)
  BY DEF Generated
<1>14. Emitted(b1, cur, more, nest, loopTargets, stored) /\ Grows(b1, blocks, 4)
  <2>1. {} \cup (Len(blocks) + 1 .. Len(blocks) + 4) = more
    BY <1>3, SMTT(30)
  <2>2. /\ Emitted(b1, cur, {} \cup (Len(blocks) + 1 .. Len(blocks) + 4), nest, loopTargets, stored)
        /\ Grows(b1, blocks, 4)
    BY <1>13, EmitFresh
  <2> QED BY <2>1, <2>2
<1>15. b1[cur] = blocks[cur]
  BY <1>3, <1>14 DEF Grows
<1>16. targets \subseteq {n + 2, n + 4}
  OBVIOUS
<1> HIDE DEF e, e2, b1, b2, b3, lt, targets
<1>17. Emitted(b2, cur, more, nest, loopTargets, TRUE) /\ Extends(b2, b1, cur, TRUE, {n + 1})
  <2>1. \A d \in {n + 1} : Reachable(b1, nest, d)
    BY <1>14, LooseReach
  <2> HIDE DEF n, more
  <2> QED BY <1>3, <1>11, <1>14, <1>15, <2>1, EmitRow DEF b2
<1>18. WrittenInto(b2, cur, more, nest, loopTargets, TRUE, n + 1, e2, targets)
  <2>1. n + 1 \in more /\ n + 2 \in more /\ n + 4 \in more
    OBVIOUS
  <2> HIDE DEF more
  <2>2. Reachable(b2, nest, n + 2) /\ Reachable(b2, nest, n + 4)
    BY <1>17, <2>1, LooseReach
  <2>3. \A d \in targets : Reachable(b2, nest, d)
    BY <1>16, <2>2
  <2> HIDE DEF n
  <2> QED BY <1>12, <1>17, <2>1, <2>3, EmitInto
<1>19. /\ Emitted(b3, cur, more \ {n + 1}, nest, loopTargets, TRUE)
       /\ Extends(b3, b2, n + 1, TRUE, targets)
  BY <1>18 DEF WrittenInto, b3
<1>20. Ends(b3[cur].ops)
  <2>1. cur # n + 1 /\ cur \in 1 .. Len(b2)
    BY <1>3, <1>17 DEF Emitted
  <2> QED BY <1>17, <1>19, <2>1 DEF Extends
<1>21. ~b3[f.next].erased
  <2>1. ~b2[n + 1].erased
    BY <1>17, LooseReach, ZenonT(30) DEF Reachable
  <2> QED BY <1>8, <1>19, <2>1 DEF Extends
<1>22. /\ more \ {n + 1} = {n + 2, n + 3, n + 4}
       /\ {n + 2, n + 3, n + 4} \ {n + 2} = {n + 3, n + 4}
  BY <1>3
<1>23. Emitted(b3, n + 2, {n + 3, n + 4}, nest, loopTargets, TRUE)
  <2>1. n + 2 \in {n + 2, n + 3, n + 4}
    OBVIOUS
  <2>2. Emitted(b3, cur, {n + 2, n + 3, n + 4}, nest, loopTargets, TRUE)
    BY <1>19, <1>22
  <2> HIDE DEF n
  <2>3. Emitted(b3, n + 2, {n + 2, n + 3, n + 4} \ {n + 2}, nest, loopTargets, TRUE)
    BY <1>20, <2>1, <2>2, EmitMove
  <2> QED BY <1>22, <2>3 DEF n
<1>24. \A i \in 1 .. Len(nest) : nest[i].merge < f.next
  <2>1. f.next \in Nat /\ f.next > Len(blocks)
    BY <1>3, <1>8
  <2> QED BY <1>13, <2>1, LaterBlocks
<1>25. Emitted(b3, n + 2, {n + 3, n + 4} \ Pends(f), Append(nest, f),
               IF IsLoop(f) THEN Append(loopTargets, Targets(f)) ELSE loopTargets, TRUE)
  <2>1. Pends(f) \subseteq {n + 3, n + 4}
    BY <1>10
  <2> HIDE DEF n
  <2> QED BY <1>10, <1>21, <1>23, <1>24, <2>1, EmitPush
<1>26. {n + 3, n + 4} \ Pends(f) = {}
  BY <1>10
<1> HIDE DEF n, more
<1>27. Emitted(blocks', cur', {}, nest', loopTargets', stored')
  BY <1>1, <1>2, <1>7, <1>8, <1>9, <1>10, <1>25, <1>26
<1> QED BY <1>2, <1>6, <1>27 DEF Generated

\* The other steps of generation.
LEMMA StatementStep ==
  ASSUME Generated, Statement
  PROVE  Generated'
<1>1. PICK u \in family.uses :
        /\ source' = Append(source, Token("stmt", FALSE, FALSE, u))
        /\ blocks' = With(blocks, cur, Lazily(u) \o
                            <<Op("stmt", Len(source) + 1, <<>>, Access(u, stored))>>)
        /\ stored' = (stored \/ u = "assign")
  BY DEF Statement
<1>2. UNCHANGED <<cur, nest, loopTargets, family>> /\ ~Terminated(blocks, cur)
  BY DEF Statement, Unchanged, CanEmit
<1> QED BY <1>1, <1>2, PlainStep

LEMMA ReturnStep ==
  ASSUME Generated, Return
  PROVE  Generated'
<1>1. PICK u \in family.uses :
        /\ source' = Append(source, Token("return", FALSE, FALSE, u))
        /\ blocks' = With(blocks, cur, Lazily(u) \o
                            <<Op("return", Len(source) + 1, <<>>, Access(u, stored))>>)
        /\ stored' = (stored \/ u = "assign")
  BY DEF Return
<1>2. UNCHANGED <<cur, nest, loopTargets, family>> /\ ~Terminated(blocks, cur)
  BY DEF Return, Unchanged, CanEmit
<1> QED BY <1>1, <1>2, PlainStep

LEMMA LeaveOutStep ==
  ASSUME Generated, LeaveOut
  PROVE  Generated'
<1>1. /\ source' = Append(source, Token("dead", FALSE, FALSE, "none"))
      /\ UNCHANGED <<blocks, cur, nest, loopTargets, stored, family>>
  BY DEF LeaveOut, Unchanged
<1>2. source' \in Seq(Tokens)
  BY <1>1, SourceGrows
<1> QED BY <1>1, <1>2 DEF Generated

LEMMA BreakStep ==
  ASSUME Generated, Break \/ ContinueStatement
  PROVE  Generated'
<1> DEFINE last == loopTargets[Len(loopTargets)]
<1>1. Jump("break", last.break) \/ Jump("continue", last.continue)
  BY DEF Break, ContinueStatement, BreakTarget, ContinueTarget
<1> QED BY <1>1, JumpStep

\* The end of the body: what was generated ends, or generation fails.
LEMMA EndBodyStep ==
  ASSUME Generated, EndBody
  PROVE  /\ Generated' /\ nest' = <<>> /\ stage' \in {"run", "failed"} /\ UNCHANGED execution
         /\ stage' = "run" => Ends(blocks'[cur'].ops)
<1> DEFINE e == <<Op("return", Len(source) + 1, <<>>, "none")>>
<1>1. /\ stage = "emit" /\ nest = <<>>
      /\ source' = Append(source, Token("finish", FALSE, FALSE, "none"))
      /\ UNCHANGED <<family, cur, nest, loopTargets, stored>> /\ UNCHANGED execution
      /\ \/ blocks' = blocks /\ stage' = "run" /\ Terminated(blocks, cur)
         \/ blocks' = blocks /\ stage' = "failed"
         \/ blocks' = With(blocks, cur, e) /\ stage' = "run" /\ ~Terminated(blocks, cur)
  BY DEF EndBody
<1>2. /\ Len(source) + 1 \in Nat /\ stored \in BOOLEAN
      /\ Terminated(blocks, cur) <=> Ends(blocks[cur].ops)
  BY GeneratedTypes
<1>3. source' \in Seq(Tokens)
  BY <1>1, SourceGrows
<1>4. Emitted(blocks, cur, {}, nest, loopTargets, stored)
  BY DEF Generated
<1>5. CASE blocks' = blocks /\ (stage' = "failed" \/ (stage' = "run" /\ Terminated(blocks, cur)))
  BY <1>1, <1>2, <1>3, <1>5 DEF Generated
<1>6. CASE blocks' = With(blocks, cur, e) /\ stage' = "run" /\ ~Terminated(blocks, cur)
  <2>1. /\ e \in OpSeqs /\ e # <<>> /\ EndsOnce(e) /\ Ends(e) /\ Shaped(e)
        /\ \A d : ~LeadsTo(e, d)
        /\ InArgument(e) /\ InSlot(e)
    BY <1>2, PlainOp DEF Reaches
  <2> HIDE DEF e
  <2>2. Row(e, TRUE, {}, stored, stored)
    BY <1>2, <2>1 DEF Row
  <2> DEFINE bt == With(blocks, cur, e)
  <2>3. Emitted(bt, cur, {}, nest, loopTargets, stored) /\ Extends(bt, blocks, cur, TRUE, {})
    <3>1. ~Ends(blocks[cur].ops)
      BY <1>2, <1>6
    <3> DEFINE slot == stored
               none == {}
    <3>2. slot \in BOOLEAN /\ Row(e, TRUE, none, slot, slot) /\ slot = stored
          /\ Emitted(blocks, cur, {}, nest, loopTargets, slot)
          /\ \A t \in none : Reachable(blocks, nest, t) /\ slot
      BY <1>2, <1>4, <2>2
    <3> HIDE DEF bt, slot, none
    <3>3. Emitted(bt, cur, {}, nest, loopTargets, slot) /\ Extends(bt, blocks, cur, TRUE, none)
      BY <3>1, <3>2, EmitRow DEF bt
    <3>4. none = {}
      BY DEF none
    <3> QED BY <3>2, <3>3, <3>4
  <2>4. blocks' = bt
    BY <1>6
  <2> HIDE DEF bt
  <2>5. Ends(bt[cur].ops)
    BY <2>3 DEF Extends
  <2> QED BY <1>1, <1>3, <1>6, <2>3, <2>4, <2>5 DEF Generated
<1> HIDE DEF e
<1> QED BY <1>1, <1>5, <1>6

-----------------------------------------------------------------------------
(* The invariant.                                                             *)

\* Once the function runs, no construct is open and the last block ends.
Completed ==
  /\ stage \in {"emit", "run", "failed"}
  /\ stage = "run" => nest = <<>> /\ Ends(blocks[cur].ops)

Places == [block : Nat, op : Nat \ {0}]
Slots  == [exists : BOOLEAN, assigned : BOOLEAN]

\* Where the function is and whether the slot was made on the way: behind the
\* first block it was, and in the first block it was if its operation is past.
Running ==
  /\ pc \in Places /\ pc.block <= Len(blocks)
  /\ memory \in Slots
  /\ stage # "run" => pc.block = 1 /\ pc.op = 1 /\ ~memory.exists
  /\ memory.assigned => memory.exists
  /\ pc.block >= 2 => memory.exists
  /\ pc.block = 1 => (memory.exists <=> \E a \in 1 .. Len(blocks[1].ops) :
                                          blocks[1].ops[a].kind = "alloca" /\ a < pc.op)

IInv == Generated /\ Completed /\ Running

\* Generation starts with one empty block.
LEMMA InitIInv == Init => IInv
<1> SUFFICES ASSUME Init PROVE IInv
  OBVIOUS
<1>1. /\ family \in Families /\ source = <<>> /\ blocks = <<NewBlock>> /\ cur = 1
      /\ nest = <<>> /\ loopTargets = <<>> /\ stored = FALSE /\ stage = "emit"
      /\ pc = [block |-> 1, op |-> 1] /\ memory = [exists |-> FALSE, assigned |-> FALSE]
  BY DEF Init
<1>2. /\ NewBlock \in Blocks /\ NewBlock.ops = <<>> /\ ~NewBlock.erased
  BY NoOp DEF NewBlock, Blocks
<1>3. /\ blocks \in Seq(Blocks) /\ Len(blocks) = 1 /\ blocks[1].ops = <<>> /\ 1 .. 1 = {1}
      /\ 2 .. 1 = {} /\ 1 .. 0 = {} /\ Len(<<>>) = 0
  <2> HIDE DEF NewBlock
  <2> QED BY <1>1, <1>2
<1>4. Pending(<<>>) = {}
  BY <1>3 DEF Pending
<1>5. Sound(blocks, {1} \cup {} \cup {})
  BY <1>3, NoOp DEF Sound
<1>6. Loose(blocks, 1, {}, <<>>) /\ Waiting(blocks, <<>>, 1) /\ Unreached(blocks, <<>>)
  BY <1>3, <1>4 DEF Loose, Waiting, Unreached
<1>7. Nested(<<>>, 1) /\ LoopsMatch(<<>>, <<>>)
  <2>1. <<>> \in Seq(Frames) /\ <<>> \in Seq(TargetPairs)
    OBVIOUS
  <2> QED BY <1>3, <2>1 DEF Nested, LoopsMatch
<1>8. Stored(blocks, 1, <<>>, FALSE)
  BY <1>3, NoOp DEF Stored, SlotSound
<1>9. Emitted(blocks, 1, {}, <<>>, <<>>, FALSE)
  BY <1>3, <1>4, <1>5, <1>6, <1>7, <1>8 DEF Emitted
<1>10. source \in Seq(Tokens)
  BY <1>1
<1>11. Generated
  BY <1>1, <1>9, <1>10 DEF Generated
<1>12. pc \in Places /\ pc.block = 1 /\ pc.op = 1
  BY <1>1 DEF Places
<1>13. memory \in Slots /\ ~memory.exists /\ ~memory.assigned
  BY <1>1 DEF Slots
<1>14. Running
  BY <1>3, <1>12, <1>13 DEF Running
<1> QED BY <1>1, <1>11, <1>14 DEF IInv, Completed

\* One step of generation.
LEMMA EmitIInv ==
  ASSUME IInv, Emit
  PROVE  IInv'
<1>0. Generated /\ Running
  BY DEF IInv
<1>1. CASE EndBody
  <2>1. /\ Generated' /\ nest' = <<>> /\ stage' \in {"run", "failed"} /\ UNCHANGED execution
        /\ stage' = "run" => Ends(blocks'[cur'].ops)
    BY <1>0, <1>1, EndBodyStep
  <2>2. Completed'
    BY <2>1 DEF Completed
  <2>3. stage = "emit"
    BY <1>1 DEF EndBody
  <2>4. Running'
    <3>1. Len(blocks') \in Nat \ {0} /\ blocks' \in Seq(Blocks)
      <4>1. blocks' \in Seq(Blocks) /\ cur' \in 1 .. Len(blocks')
        BY <2>1 DEF Generated, Emitted, Sound
      <4> QED BY <4>1
    <3>2. /\ pc \in Places /\ pc.block = 1 /\ pc.op = 1 /\ memory \in Slots /\ ~memory.exists
          /\ ~memory.assigned
      BY <1>0, <2>3 DEF Running
    <3>3. pc' = pc /\ memory' = memory
      BY <2>1 DEF execution
    <3> QED BY <3>1, <3>2, <3>3 DEF Running
  <2> QED BY <2>1, <2>2, <2>4 DEF IInv
<1>2. CASE Fail
  <2>1. stage' = "failed" /\ UNCHANGED emission /\ UNCHANGED execution /\ stage = "emit"
    BY <1>2 DEF Fail
  <2>2. Generated'
    BY <1>0, <2>1 DEF Generated, emission
  <2>3. Completed' /\ Running'
    BY <1>0, <2>1 DEF Completed, Running, emission, execution
  <2> QED BY <2>2, <2>3 DEF IInv
<1>3. CASE \/ Statement \/ LeaveOut \/ Break \/ ContinueStatement \/ Return
           \/ BeginIf \/ EndThen \/ EndElse \/ BeginWhile \/ EndWhile \/ BeginFor \/ EndFor
  <2>1. Generated'
    BY <1>0, <1>3, StatementStep, LeaveOutStep, BreakStep, ReturnStep, BeginIfStep, EndThenStep,
       EndElseStep, BeginWhileStep, EndWhileStep, BeginForStep, EndForStep
  <2>2. stage = "emit" /\ Unchanged
    BY <1>3 DEF Statement, LeaveOut, Break, ContinueStatement, Jump, Return, BeginIf, EndThen,
                EndElse, BeginWhile, EndWhile, BeginFor, EndFor, CanOpen, CanEmit
  <2>3. stage' = "emit" /\ pc' = pc /\ memory' = memory
    BY <2>2 DEF Unchanged, execution
  <2>4. Len(blocks') \in Nat \ {0}
    <3>1. blocks' \in Seq(Blocks) /\ cur' \in 1 .. Len(blocks')
      BY <2>1 DEF Generated, Emitted, Sound
    <3> QED BY <3>1
  <2>5. /\ pc \in Places /\ pc.block = 1 /\ pc.op = 1 /\ memory \in Slots /\ ~memory.exists
        /\ ~memory.assigned
    BY <1>0, <2>2 DEF Running
  <2>6. Completed' /\ Running'
    BY <2>3, <2>4, <2>5 DEF Completed, Running
  <2> QED BY <2>1, <2>6 DEF IInv
<1> QED BY <1>1, <1>2, <1>3 DEF Emit

\* What the invariant says of the blocks while the function runs.
LEMMA RunningBlocks ==
  ASSUME IInv, stage = "run"
  PROVE  /\ blocks \in Seq(Blocks) /\ stored \in BOOLEAN /\ SlotSound(blocks, stored)
         /\ \A b \in 1 .. Len(blocks) :
              /\ EndsOnce(blocks[b].ops) /\ Shaped(blocks[b].ops) /\ blocks[b].ops \in OpSeqs
              /\ blocks[b].erased \/ Ends(blocks[b].ops)
              /\ \A c : LeadsTo(blocks[b].ops, c) =>
                          c \in 2 .. Len(blocks) /\ ~blocks[c].erased /\ stored
<1>1. Emitted(blocks, cur, {}, nest, loopTargets, stored) /\ nest = <<>> /\ Ends(blocks[cur].ops)
  BY DEF IInv, Generated, Completed
<1>2. Pending(nest) = {}
  <2>1. 1 .. Len(nest) = {}
    BY <1>1
  <2> QED BY <2>1 DEF Pending
<1>3. /\ Sound(blocks, {cur} \cup {} \cup {}) /\ Stored(blocks, cur, nest, stored)
  BY <1>1, <1>2 DEF Emitted
<1>4. blocks \in Seq(Blocks)
  BY <1>3 DEF Sound
<1>5. \A b \in 1 .. Len(blocks) : blocks[b].ops \in OpSeqs
  <2>1. \A b \in 1 .. Len(blocks) : blocks[b] \in Blocks
    BY <1>4
  <2> QED BY <2>1 DEF Blocks
<1> QED BY <1>1, <1>3, <1>4, <1>5 DEF Sound, Stored

\* With nothing open, every block that was not erased is finished.
LEMMA IInvVerifies == IInv => Verifies
<1> SUFFICES ASSUME IInv, stage = "run", NEW b \in DOMAIN blocks, ~blocks[b].erased
             PROVE  LET ops == blocks[b].ops
                    IN  /\ Terminated(blocks, b)
                        /\ \A k \in 1..(Len(ops) - 1) : ops[k].kind \notin Terminators
                        /\ \A c \in {ops[Len(ops)].to[i] : i \in DOMAIN ops[Len(ops)].to} :
                             c # 1 /\ ~blocks[c].erased
  BY DEF Verifies
<1> DEFINE ops == blocks[b].ops
<1>1. b \in 1 .. Len(blocks)
  BY RunningBlocks
<1>2. /\ EndsOnce(ops) /\ ops \in OpSeqs /\ Ends(ops)
      /\ \A c : LeadsTo(ops, c) => c \in 2 .. Len(blocks) /\ ~blocks[c].erased
  BY <1>1, RunningBlocks
<1>3. Terminated(blocks, b)
  BY <1>2 DEF Terminated, Ends
<1> HIDE DEF ops
<1>4. Len(ops) \in 1 .. Len(ops)
  BY <1>2 DEF OpSeqs, Ends
<1>5. ASSUME NEW i \in DOMAIN ops[Len(ops)].to
      PROVE  ops[Len(ops)].to[i] # 1 /\ ~blocks[ops[Len(ops)].to[i]].erased
  <2>1. LeadsTo(ops, ops[Len(ops)].to[i])
    BY <1>4, <1>5 DEF LeadsTo
  <2> QED BY <1>2, <2>1
<1> QED BY <1>2, <1>3, <1>5 DEF EndsOnce, ops

\* The operation executed lies before the slot's, is that one, or lies behind it.
LEMMA IInvParameter == IInv => ParameterIsCurrent
<1> SUFFICES ASSUME IInv, stage = "run", pc.block # 0, pc.op <= Len(blocks[pc.block].ops)
             PROVE  /\ Executed.use \in {"slot", "store"} => memory.exists
                    /\ Executed.use = "argument" => ~memory.assigned
                    /\ Executed.kind = "alloca" => ~memory.exists
  BY DEF ParameterIsCurrent
<1> DEFINE b == pc.block
           k == pc.op
           ops == blocks[b].ops
<1>1. /\ b \in 1 .. Len(blocks) /\ k \in Nat \ {0}
      /\ memory.assigned => memory.exists
      /\ b >= 2 => memory.exists
      /\ b = 1 => (memory.exists <=> \E a \in 1 .. Len(blocks[1].ops) :
                                       blocks[1].ops[a].kind = "alloca" /\ a < k)
  <2>1. pc \in Places /\ pc.block <= Len(blocks)
    BY DEF IInv, Running
  <2>2. blocks \in Seq(Blocks)
    BY RunningBlocks
  <2> QED BY <2>1, <2>2 DEF IInv, Running, Places
<1>2. ops \in OpSeqs /\ SlotSound(blocks, stored) /\ stored \in BOOLEAN
  BY <1>1, RunningBlocks
<1>3. k \in 1 .. Len(ops) /\ Executed = ops[k] /\ Len(ops) \in Nat
  BY <1>1, <1>2 DEF Executed, OpSeqs
<1>4. CASE b >= 2
  <2>1. b \in 2 .. Len(blocks)
    BY <1>1, <1>4
  <2>2. ops[k].kind # "alloca" /\ ops[k].use \in {"none", "slot", "store"}
    BY <1>2, <1>3, <2>1 DEF SlotSound, InSlot
  <2> QED BY <1>1, <1>3, <1>4, <2>2
<1>5. CASE b = 1 /\ ~stored
  <2>1. InArgument(ops)
    BY <1>2, <1>5 DEF SlotSound
  <2>2. \A a \in 1 .. Len(ops) : ops[a].kind # "alloca" /\ ops[a].use \in {"none", "argument"}
    BY <2>1 DEF InArgument
  <2>3. ~memory.exists
    BY <1>1, <1>5, <2>2
  <2> QED BY <1>1, <1>3, <2>2, <2>3
<1>6. CASE b = 1 /\ stored
  <2>1. MakesSlot(ops)
    BY <1>2, <1>6 DEF SlotSound
  <2>2. PICK a \in 1 .. Len(ops) : MakesAt(ops, a)
    BY <2>1 DEF MakesSlot
  <2> HIDE DEF ops, b, k
  <2>3. CASE k <= a
    <3>1. \A c \in 1 .. Len(ops) : c < k => ops[c].kind # "alloca"
      BY <1>3, <2>2, <2>3 DEF MakesAt
    <3>2. ~memory.exists
      BY <1>1, <1>6, <3>1 DEF ops
    <3>3. ops[k].use \in {"none", "argument"}
      BY <1>3, <2>2, <2>3 DEF MakesAt
    <3> QED BY <1>1, <1>3, <3>2, <3>3
  <2>4. CASE k > a
    <3>1. memory.exists
      BY <1>1, <1>6, <2>2, <2>4 DEF ops, MakesAt
    <3>2. ops[k].kind # "alloca" /\ ops[k].use \in {"none", "slot", "store"}
      BY <1>3, <2>2, <2>4 DEF MakesAt
    <3> QED BY <1>3, <3>1, <3>2
  <2> QED BY <1>3, <2>3, <2>4
<1> QED BY <1>1, <1>2, <1>4, <1>5, <1>6

\* The operation that makes the slot does not use it.
LEMMA SlotMadeUnused ==
  ASSUME NEW slot \in BOOLEAN, NEW bs \in Seq(Blocks), SlotSound(bs, slot),
         NEW b \in 1 .. Len(bs), NEW k \in 1 .. Len(bs[b].ops), bs[b].ops[k].kind = "alloca"
  PROVE  bs[b].ops[k].use = "none"
<1> DEFINE ops == bs[b].ops
<1>1. b \notin 2 .. Len(bs)
  BY DEF SlotSound, InSlot
<1>2. b = 1 /\ slot
  <2>1. b = 1
    BY <1>1
  <2> QED BY <2>1 DEF SlotSound, InArgument
<1>3. PICK a \in 1 .. Len(ops) : MakesAt(ops, a)
  BY <1>2 DEF SlotSound, MakesSlot
<1>4. Len(ops) \in Nat
  <2>1. bs[b] \in Blocks
    OBVIOUS
  <2> QED BY <2>1 DEF Blocks, OpSeqs
<1> HIDE DEF ops
<1>5. ops[k].kind = "alloca" /\ k \in 1 .. Len(ops)
  BY DEF ops
<1>6. k = a
  BY <1>3, <1>4, <1>5 DEF MakesAt
<1>7. ops[k].use = "none"
  BY <1>3, <1>6 DEF MakesAt
<1> QED BY <1>7 DEF ops

\* What one operation does to the place and to the slot.
LEMMA RunEffects ==
  ASSUME Run, memory \in Slots, pc \in Places,
         Executed.kind = "alloca" => Executed.use # "store"
  PROVE  /\ stage = "run" /\ pc.block # 0 /\ pc.op <= Len(blocks[pc.block].ops)
         /\ UNCHANGED emission /\ UNCHANGED stage
         /\ \/ Executed.kind = "br" /\ pc' = [block |-> Executed.to[1], op |-> 1]
            \/ /\ Executed.kind = "cond_br"
               /\ \E m \in {1, 2} : pc' = [block |-> Executed.to[m], op |-> 1]
            \/ Executed.kind = "return" /\ pc' = [block |-> 0, op |-> 1]
            \/ Executed.kind \notin Terminators /\ pc' = [block |-> pc.block, op |-> pc.op + 1]
         /\ memory' \in Slots
         /\ memory'.exists = (memory.exists \/ Executed.kind = "alloca")
         /\ memory'.assigned =>
              memory.assigned \/ (Executed.kind # "alloca" /\ Executed.use = "store")
<1> DEFINE op == Executed
<1>1. /\ stage = "run" /\ pc.block # 0 /\ pc.op <= Len(blocks[pc.block].ops)
      /\ UNCHANGED emission /\ UNCHANGED stage
      /\ pc' = CASE op.kind = "br"      -> [block |-> op.to[1], op |-> 1]
                 [] op.kind = "cond_br" -> [block |-> op.to[IF outcome' THEN 1 ELSE 2], op |-> 1]
                 [] op.kind = "return"  -> [block |-> 0, op |-> 1]
                 [] OTHER               -> [pc EXCEPT !.op = @ + 1]
      /\ memory' = CASE op.kind = "alloca" -> [exists |-> TRUE, assigned |-> FALSE]
                     [] op.use = "store"   -> [memory EXCEPT !.assigned = TRUE]
                     [] OTHER              -> memory
  BY DEF Run
<1> HIDE DEF op
<1>2. \/ op.kind = "br" /\ pc' = [block |-> op.to[1], op |-> 1]
      \/ op.kind = "cond_br" /\ \E m \in {1, 2} : pc' = [block |-> op.to[m], op |-> 1]
      \/ op.kind = "return" /\ pc' = [block |-> 0, op |-> 1]
      \/ op.kind \notin Terminators /\ pc' = [block |-> pc.block, op |-> pc.op + 1]
  <2>1. CASE op.kind = "br"
    BY <1>1, <2>1, Zenon
  <2>2. CASE op.kind = "cond_br"
    <3>1. pc' = [block |-> op.to[IF outcome' THEN 1 ELSE 2], op |-> 1]
      BY <1>1, <2>2, Zenon
    <3>2. (IF outcome' THEN 1 ELSE 2) \in {1, 2}
      OBVIOUS
    <3> QED BY <2>2, <3>1, <3>2, Zenon
  <2>3. CASE op.kind = "return"
    BY <1>1, <2>3, Zenon
  <2>4. CASE op.kind \notin Terminators
    <3>1. op.kind # "br" /\ op.kind # "cond_br" /\ op.kind # "return"
      BY <2>4 DEF Terminators
    <3>2. pc' = [pc EXCEPT !.op = @ + 1]
      BY <1>1, <3>1, Zenon
    <3>3. pc' = [block |-> pc.block, op |-> pc.op + 1]
      BY <3>2 DEF Places
    <3> QED BY <2>4, <3>3
  <2> QED BY <2>1, <2>2, <2>3, <2>4 DEF Terminators
<1> DEFINE made == [exists |-> TRUE, assigned |-> FALSE]
           assigned == [memory EXCEPT !.assigned = TRUE]
<1>3. /\ made \in Slots /\ made.exists = TRUE /\ made.assigned = FALSE
      /\ assigned \in Slots /\ assigned.exists = memory.exists
  BY DEF Slots
<1>4. memory' = CASE op.kind = "alloca" -> made
                  [] op.use = "store"   -> assigned
                  [] OTHER              -> memory
  BY <1>1
<1> HIDE DEF made, assigned
<1>5. /\ memory' \in Slots
      /\ memory'.exists = (memory.exists \/ op.kind = "alloca")
      /\ memory'.assigned => memory.assigned \/ (op.kind # "alloca" /\ op.use = "store")
  <2>1. CASE op.kind = "alloca"
    <3>1. op.use # "store"
      BY <2>1 DEF op
    <3>2. memory' = made
      BY <1>4, <2>1, <3>1
    <3> QED BY <1>3, <2>1, <3>2
  <2>2. CASE op.kind # "alloca" /\ op.use = "store"
    <3>1. memory' = assigned
      BY <1>4, <2>2
    <3>2. memory.exists \in BOOLEAN
      BY DEF Slots
    <3> QED BY <1>3, <2>2, <3>1, <3>2
  <2>3. CASE op.kind # "alloca" /\ op.use # "store"
    <3>1. memory' = memory
      BY <1>4, <2>3
    <3> QED BY <2>3, <3>1 DEF Slots
  <2> QED BY <2>1, <2>2, <2>3
<1> QED BY <1>1, <1>2, <1>5 DEF op

\* One operation of the generated function.
LEMMA RunIInv ==
  ASSUME IInv, Run
  PROVE  IInv'
<1> DEFINE b == pc.block
           k == pc.op
           ops == blocks[b].ops
           op == Executed
<1>1. pc \in Places /\ memory \in Slots /\ pc.block <= Len(blocks)
  BY DEF IInv, Running
<1>2. /\ stage = "run" /\ b # 0 /\ k <= Len(ops)
      /\ UNCHANGED emission /\ UNCHANGED stage
      /\ \/ op.kind = "br" /\ pc' = [block |-> op.to[1], op |-> 1]
         \/ op.kind = "cond_br" /\ \E m \in {1, 2} : pc' = [block |-> op.to[m], op |-> 1]
         \/ op.kind = "return" /\ pc' = [block |-> 0, op |-> 1]
         \/ op.kind \notin Terminators /\ pc' = [block |-> b, op |-> k + 1]
      /\ memory' \in Slots
      /\ memory'.exists = (memory.exists \/ op.kind = "alloca")
      /\ memory'.assigned => memory.assigned \/ (op.kind # "alloca" /\ op.use = "store")
  <2>1. stage = "run" /\ b # 0 /\ k <= Len(ops)
    BY DEF Run
  <2>2. /\ blocks \in Seq(Blocks) /\ stored \in BOOLEAN /\ SlotSound(blocks, stored)
    BY <2>1, RunningBlocks
  <2>3. b \in 1 .. Len(blocks)
    BY <1>1, <2>1, <2>2 DEF Places
  <2>4. ops \in OpSeqs
    BY <2>1, <2>3, RunningBlocks
  <2>5. k \in 1 .. Len(ops)
    BY <1>1, <2>1, <2>4 DEF Places, OpSeqs
  <2>6. op.kind = "alloca" => op.use = "none"
    BY <2>2, <2>3, <2>5, SlotMadeUnused DEF Executed
  <2>7. op.kind = "alloca" => op.use # "store"
    BY <2>6
  <2> QED BY <1>1, <2>7, RunEffects
<1>3. /\ UNCHANGED <<family, source, blocks, cur, nest, loopTargets, stored>>
      /\ UNCHANGED stage
  BY <1>2 DEF emission
<1>4. Generated' /\ Completed'
  BY <1>3 DEF IInv, Generated, Completed
<1>5. /\ blocks \in Seq(Blocks) /\ stored \in BOOLEAN /\ SlotSound(blocks, stored)
      /\ b \in 1 .. Len(blocks) /\ k \in Nat \ {0}
      /\ EndsOnce(ops) /\ Shaped(ops) /\ ops \in OpSeqs
      /\ \A c : LeadsTo(ops, c) => c \in 2 .. Len(blocks) /\ stored
  <2>1. blocks \in Seq(Blocks)
    BY <1>2, RunningBlocks
  <2>2. b \in 1 .. Len(blocks) /\ k \in Nat \ {0}
    BY <1>1, <1>2, <2>1 DEF Places
  <2> QED BY <1>2, <2>1, <2>2, RunningBlocks
<1>6. k \in 1 .. Len(ops) /\ op = ops[k] /\ Len(ops) \in Nat
  BY <1>2, <1>5, SMTT(30) DEF Executed, OpSeqs
<1>7. /\ memory.assigned => memory.exists
      /\ b >= 2 => memory.exists
      /\ b = 1 => (memory.exists <=> \E a \in 1 .. Len(blocks[1].ops) :
                                       blocks[1].ops[a].kind = "alloca" /\ a < k)
      /\ op.use = "store" => memory.exists
  <2>1. op.use = "store" => memory.exists
    BY <1>2, IInvParameter DEF ParameterIsCurrent
  <2> QED BY <2>1 DEF IInv, Running
<1>8. memory'.assigned => memory'.exists
  BY <1>2, <1>7
<1> HIDE DEF op, ops
<1>9. ASSUME NEW m \in DOMAIN op.to, pc' = [block |-> op.to[m], op |-> 1], op.kind \in Terminators
      PROVE  Running'
  <2>1. op.to[m] \in 2 .. Len(blocks) /\ stored
    <3>1. LeadsTo(ops, op.to[m])
      BY <1>6, <1>9 DEF LeadsTo
    <3> QED BY <1>5, <3>1
  <2>2. memory.exists
    <3>1. CASE b >= 2
      BY <1>7, <3>1
    <3>2. CASE b = 1
      <4>1. PICK a \in 1 .. Len(ops) : MakesAt(ops, a)
        BY <1>5, <2>1, <3>2 DEF SlotSound, MakesSlot, ops
      <4>2. ops[a].kind = "alloca"
        BY <4>1 DEF MakesAt
      <4>3. a # k
        BY <1>6, <1>9, <4>2 DEF Terminators
      <4>4. k = Len(ops)
        BY <1>5, <1>6, <1>9 DEF EndsOnce
      <4>5. a < k
        BY <1>6, <4>3, <4>4
      <4> QED BY <1>7, <3>2, <4>2, <4>5 DEF ops
    <3> QED BY <1>5, <3>1, <3>2
  <2>3. pc' \in Places /\ pc'.block \in 2 .. Len(blocks)
    BY <1>9, <2>1 DEF Places
  <2> HIDE DEF b, k
  <2>4. memory'.exists
    BY <1>2, <2>2
  <2> QED BY <1>2, <1>3, <1>8, <2>3, <2>4 DEF Running
<1>10. ASSUME op.kind = "br" /\ pc' = [block |-> op.to[1], op |-> 1]
       PROVE  Running'
  <2>1. 1 \in DOMAIN op.to
    BY <1>5, <1>6, <1>10 DEF Shaped
  <2> QED BY <1>9, <1>10, <2>1 DEF Terminators
<1>11. ASSUME op.kind = "cond_br" /\ \E m \in {1, 2} : pc' = [block |-> op.to[m], op |-> 1]
       PROVE  Running'
  <2>1. {1, 2} \subseteq DOMAIN op.to
    BY <1>5, <1>6, <1>11 DEF Shaped
  <2> QED BY <1>9, <1>11, <2>1 DEF Terminators
<1>12. ASSUME pc' = [block |-> 0, op |-> 1]
       PROVE  Running'
  <2>1. pc' \in Places /\ pc'.block = 0
    BY <1>12 DEF Places
  <2>2. 0 <= Len(blocks)
    BY <1>5
  <2> QED BY <1>2, <1>3, <1>8, <2>1, <2>2 DEF Running
<1>13. ASSUME op.kind \notin Terminators /\ pc' = [block |-> b, op |-> k + 1]
       PROVE  Running'
  <2>1. pc' \in Places /\ pc'.block = b /\ pc'.op = k + 1
    BY <1>5, <1>13 DEF Places
  <2>2. b >= 2 => memory'.exists
    BY <1>2, <1>7
  <2>3. b = 1 => (memory'.exists <=> \E a \in 1 .. Len(blocks[1].ops) :
                                       blocks[1].ops[a].kind = "alloca" /\ a < k + 1)
    <3> SUFFICES ASSUME b = 1
                 PROVE  memory'.exists <=> \E a \in 1 .. Len(ops) :
                                             ops[a].kind = "alloca" /\ a < k + 1
      BY DEF ops
    <3>1. memory.exists <=> \E a \in 1 .. Len(ops) : ops[a].kind = "alloca" /\ a < k
      BY <1>7 DEF ops
    <3>2. memory'.exists <=> memory.exists \/ ops[k].kind = "alloca"
      BY <1>2, <1>6
    <3> HIDE DEF k
    <3>3. \A a \in 1 .. Len(ops) : a < k + 1 <=> a < k \/ a = k
      BY <1>5
    <3> QED BY <1>6, <3>1, <3>2, <3>3
  <2>4. b <= Len(blocks)
    BY <1>1
  <2> HIDE DEF b, k
  <2> QED BY <1>2, <1>3, <1>8, <2>1, <2>2, <2>3, <2>4 DEF Running
<1>14. Running'
  BY <1>2, <1>10, <1>11, <1>12, <1>13
<1> QED BY <1>4, <1>14 DEF IInv

\* The invariant is inductive.
LEMMA NextIInv == IInv /\ [Next]_vars => IInv'
<1>1. ASSUME IInv, UNCHANGED vars
      PROVE  IInv'
  <2>1. UNCHANGED <<family, source, blocks, cur, nest, loopTargets, stored, stage, pc, memory>>
    BY <1>1 DEF vars, emission, execution
  <2> QED BY <1>1, <2>1 DEF IInv, Generated, Completed, Running
<1> QED BY <1>1, EmitIInv, RunIInv DEF Next

-----------------------------------------------------------------------------

\* The blocks that are open, finished or erased at any time of generation are
\* as described above, for bodies of any length and depth, and the function
\* that runs keeps track of its parameter's slot.
THEOREM Invariance == Spec => []IInv
<1>1. Init /\ [][Next]_vars => []IInv
  BY InitIInv, NextIInv, PTL
<1> QED BY <1>1, PTL DEF Spec

\* Whatever its body, a function that is generated passes the verifier: no
\* block without a terminator or with a second one, no branch to a block that
\* was erased or to the entry.
THEOREM FunctionsVerify == Spec => []Verifies
BY Invariance, IInvVerifies, PTL

\* Whatever its body, no path of a generated function uses the slot of a
\* parameter before it was made, makes it again, or reads the argument after
\* an assignment.
THEOREM ParameterStaysCurrent == Spec => []ParameterIsCurrent
BY Invariance, IInvParameter, PTL

-----------------------------------------------------------------------------
(* The program a function was generated from.  Every else, end, break and    *)
(* continue is linked to the construct it belongs to.                        *)

LoopKinds == {"while", "for"}
Heads     == LoopKinds \cup {"if"}

\* Between a closing token and the construct it closes there are only tokens of
\* the construct's parts, and its else.
ClosesOwn(s, link, j) ==
  s[j].kind \in {"else", "end"} =>
    LET i == link[j]
    IN  /\ i \in 1 .. j - 1 /\ s[i].kind \in Heads /\ s[i].depth = s[j].depth
        /\ \A k \in i + 1 .. j - 1 : \/ s[k].depth > s[j].depth
                                     \/ s[j].kind = "end" /\ s[k].kind = "else" /\ link[k] = i
        /\ s[j].kind = "else" => s[i].kind = "if" /\ s[i].rest

\* A break or continue lies in the body of its loop, and every loop begun in
\* between is closed.
LeavesOwn(s, link, j) ==
  s[j].kind \in {"break", "continue"} =>
    LET l == link[j]
    IN  /\ l \in 1 .. j - 1 /\ s[l].kind \in LoopKinds
        /\ \A k \in l + 1 .. j : s[k].depth > s[l].depth
        /\ \A m \in l + 1 .. j - 1 : s[m].kind \in LoopKinds =>
             \E e \in m + 1 .. j - 1 : s[e].kind = "end" /\ link[e] = m

Closes(s, link, j, kind, i) == j \in i + 1 .. Len(s) /\ s[j].kind = kind /\ link[j] = i

Linked(s, link) ==
  /\ s \in Seq(Tokens) /\ link \in Seq(Nat) /\ Len(link) = Len(s)
  /\ \A j \in 1 .. Len(s) : s[j].depth \in Nat /\ ClosesOwn(s, link, j) /\ LeavesOwn(s, link, j)

\* The whole program: every construct is closed.
Whole(s, link) ==
  /\ Linked(s, link)
  /\ Len(s) > 0 /\ s[Len(s)].kind = "finish"
  /\ \A i \in 1 .. Len(s) : s[i].kind \in Heads =>
       /\ \E j : Closes(s, link, j, "end", i)
       /\ s[i].kind = "if" /\ s[i].rest => \E j : Closes(s, link, j, "else", i)

LEMMA LargestIs ==
  ASSUME NEW S \in SUBSET Nat, NEW m \in S, \A j \in S : j <= m
  PROVE  Source!Max(S) = m
<1> DEFINE x == CHOOSE x \in S : \A y \in S : x >= y
<1>1. x \in S /\ \A y \in S : x >= y
  <2>1. \A y \in S : m >= y
    BY SMT
  <2>2. \E z \in S : \A y \in S : z >= y
    BY <2>1
  <2> QED BY <2>2, Zenon
<1>2. Source!Max(S) = x
  BY DEF Source!Max
<1> HIDE DEF x
<1>3. x = m
  BY <1>1
<1> QED BY <1>2, <1>3

LEMMA SmallestIs ==
  ASSUME NEW S \in SUBSET Nat, NEW m \in S, \A j \in S : m <= j
  PROVE  Source!Min(S) = m
<1> DEFINE x == CHOOSE x \in S : \A y \in S : x =< y
<1>1. x \in S /\ \A y \in S : x =< y
  <2>1. \E z \in S : \A y \in S : z =< y
    OBVIOUS
  <2> QED BY <2>1, Zenon
<1>2. Source!Min(S) = x
  BY DEF Source!Min
<1> HIDE DEF x
<1>3. x = m
  BY <1>1
<1> QED BY <1>2, <1>3

\* What is known of a token.
LEMMA TokenFacts ==
  ASSUME NEW s, NEW link, Linked(s, link), NEW j \in 1 .. Len(s)
  PROVE  /\ Len(s) \in Nat /\ s[j] \in Tokens /\ s[j].depth \in Nat /\ link[j] \in Nat
         /\ ClosesOwn(s, link, j) /\ LeavesOwn(s, link, j)
BY DEF Linked

\* What is known of a token that closes a construct.
LEMMA ClosingFacts ==
  ASSUME NEW s, NEW link, Linked(s, link), NEW i \in 1 .. Len(s),
         NEW kind \in {"else", "end"}, NEW j, Closes(s, link, j, kind, i)
  PROVE  /\ j \in i + 1 .. Len(s) /\ j \in Nat /\ s[i].kind \in Heads
         /\ s[j].depth = s[i].depth /\ s[i].depth \in Nat
         /\ \A k \in i + 1 .. j - 1 : \/ s[k].depth > s[i].depth
                                      \/ kind = "end" /\ s[k].kind = "else" /\ link[k] = i
         /\ kind = "else" => s[i].kind = "if" /\ s[i].rest
<1>1. Len(s) \in Nat /\ j \in 1 .. Len(s) /\ j \in i + 1 .. Len(s) /\ link[j] = i /\ s[j].kind = kind
  BY DEF Closes, Linked
<1>2. ClosesOwn(s, link, j) /\ s[i].depth \in Nat
  BY <1>1 DEF Linked
<1> QED BY <1>1, <1>2 DEF ClosesOwn

\* The end of a construct is the one linked to it.
LEMMA EndIs ==
  ASSUME NEW s, NEW link, Linked(s, link), NEW i \in 1 .. Len(s),
         NEW e, Closes(s, link, e, "end", i)
  PROVE  Source!End(s, i) = e
<1> DEFINE S == {j \in (i + 1) .. Len(s) : s[j].kind = "end" /\ s[j].depth = s[i].depth}
<1>1. /\ e \in i + 1 .. Len(s) /\ s[e].depth = s[i].depth /\ s[e].kind = "end"
      /\ \A k \in i + 1 .. e - 1 : s[k].depth > s[i].depth \/ s[k].kind = "else"
      /\ s[i].depth \in Nat /\ Len(s) \in Nat
  <2>1. Len(s) \in Nat
    BY DEF Linked
  <2> QED BY <2>1, ClosingFacts DEF Closes
<1>2. e \in S /\ S \in SUBSET Nat
  BY <1>1
<1>3. ASSUME NEW j \in S
      PROVE  e <= j
  BY <1>1
<1> HIDE DEF S
<1>4. Source!Min(S) = e
  BY <1>2, <1>3, SmallestIs
<1> QED BY <1>4 DEF S, Source!End

\* An if goes on at its else, if it has one, when the test fails.
LEMMA CloserIs ==
  ASSUME NEW s, NEW link, Linked(s, link), NEW i \in 1 .. Len(s), s[i].kind = "if",
         NEW e, Closes(s, link, e, IF s[i].rest THEN "else" ELSE "end", i)
  PROVE  Source!Closer(s, i) = e
<1> DEFINE S == {j \in (i + 1) .. Len(s) : s[j].kind \in {"else", "end"} /\ s[j].depth = s[i].depth}
<1>0. Len(s) \in Nat
  BY DEF Linked
<1>1. /\ e \in i + 1 .. Len(s) /\ s[e].depth = s[i].depth /\ s[e].kind \in {"else", "end"}
      /\ \A k \in i + 1 .. e - 1 : \/ s[k].depth > s[i].depth
                                   \/ ~s[i].rest /\ s[k].kind = "else" /\ link[k] = i
      /\ s[i].depth \in Nat
  <2>1. CASE s[i].rest
    <3>1. Closes(s, link, e, "else", i)
      BY <2>1
    <3> QED BY <1>0, <3>1, ClosingFacts DEF Closes
  <2>2. CASE ~s[i].rest
    <3>1. Closes(s, link, e, "end", i)
      BY <2>2
    <3> QED BY <1>0, <2>2, <3>1, ClosingFacts DEF Closes
  <2> QED BY <2>1, <2>2
<1>2. ASSUME NEW k \in i + 1 .. e - 1
      PROVE  s[k].depth > s[i].depth
  <2>1. ~(~s[i].rest /\ s[k].kind = "else" /\ link[k] = i)
    <3> SUFFICES ASSUME ~s[i].rest, s[k].kind = "else", link[k] = i PROVE FALSE
      OBVIOUS
    <3>1. Closes(s, link, k, "else", i)
      BY <1>0, <1>1 DEF Closes
    <3> QED BY <3>1, ClosingFacts
  <2> QED BY <1>1, <2>1
<1>3. e \in S /\ S \in SUBSET Nat
  BY <1>0, <1>1
<1>4. ASSUME NEW j \in S
      PROVE  e <= j
  BY <1>0, <1>1, <1>2
<1> HIDE DEF S
<1>5. Source!Min(S) = e
  BY <1>3, <1>4, SmallestIs
<1> QED BY <1>5 DEF S, Source!Closer

\* The end of a construct knows what it closes.
LEMMA OpenerIs ==
  ASSUME NEW s, NEW link, Linked(s, link), NEW i \in 1 .. Len(s),
         NEW e, Closes(s, link, e, "end", i)
  PROVE  Source!Opener(s, e) = i
<1> DEFINE S == {j \in 1 .. (e - 1) : s[j].kind \in Source!Loops \union {"if"}
                                      /\ s[j].depth = s[e].depth}
<1>1. /\ e \in i + 1 .. Len(s) /\ s[e].depth = s[i].depth /\ s[i].kind \in Heads
      /\ \A k \in i + 1 .. e - 1 : s[k].depth > s[i].depth \/ s[k].kind = "else"
      /\ s[i].depth \in Nat /\ Len(s) \in Nat
  <2>1. Len(s) \in Nat
    BY DEF Linked
  <2> QED BY <2>1, ClosingFacts
<1>2. i \in S /\ S \in SUBSET Nat
  BY <1>1 DEF Heads, LoopKinds, Source!Loops
<1>3. ASSUME NEW j \in S
      PROVE  j <= i
  BY <1>1 DEF Source!Loops
<1> HIDE DEF S
<1>4. Source!Max(S) = i
  BY <1>2, <1>3, LargestIs
<1> QED BY <1>4 DEF S, Source!Opener

\* The end behind an else is that of its if.
LEMMA ElseEndIs ==
  ASSUME NEW s, NEW link, Linked(s, link), NEW i \in 1 .. Len(s),
         NEW j, Closes(s, link, j, "else", i), NEW e, Closes(s, link, e, "end", i)
  PROVE  Source!End(s, j) = e /\ e \in j + 1 .. Len(s)
<1> DEFINE S == {k \in (j + 1) .. Len(s) : s[k].kind = "end" /\ s[k].depth = s[j].depth}
<1>0. Len(s) \in Nat
  BY DEF Linked
<1>1. /\ e \in i + 1 .. Len(s) /\ s[e].depth = s[i].depth /\ s[e].kind = "end"
      /\ \A k \in i + 1 .. e - 1 : s[k].depth > s[i].depth \/ s[k].kind = "else"
      /\ s[i].depth \in Nat
  BY <1>0, ClosingFacts DEF Closes
<1>2. /\ j \in i + 1 .. Len(s) /\ s[j].depth = s[i].depth /\ s[j].kind = "else"
      /\ \A k \in i + 1 .. j - 1 : s[k].depth > s[i].depth
  BY <1>0, ClosingFacts DEF Closes
<1>3. j < e
  <2>1. e # j
    BY <1>1, <1>2
  <2>2. ~(e < j)
    <3> SUFFICES ASSUME e < j PROVE FALSE
      OBVIOUS
    <3>1. e \in i + 1 .. j - 1
      BY <1>0, <1>1, <1>2
    <3> QED BY <1>1, <1>2, <3>1
  <2> QED BY <1>0, <1>1, <1>2, <2>1, <2>2
<1>4. e \in S /\ S \in SUBSET Nat /\ e \in j + 1 .. Len(s)
  BY <1>0, <1>1, <1>2, <1>3
<1>5. ASSUME NEW k \in S
      PROVE  e <= k
  BY <1>0, <1>1, <1>2
<1> HIDE DEF S
<1>6. Source!Min(S) = e
  BY <1>4, <1>5, SmallestIs
<1> QED BY <1>4, <1>6 DEF S, Source!End

\* A break or continue leaves the loop it is linked to.
LEMMA LoopIs ==
  ASSUME NEW s, NEW link, Whole(s, link), NEW j \in 1 .. Len(s),
         s[j].kind \in {"break", "continue"}
  PROVE  /\ Source!LoopOf(s, j) = link[j]
         /\ \E e : Closes(s, link, e, "end", link[j]) /\ e > j
         /\ link[j] \in 1 .. j - 1 /\ s[link[j]].kind \in LoopKinds
<1> DEFINE S == {l \in 1 .. (j - 1) : s[l].kind \in Source!Loops /\ s[l].depth < s[j].depth
                                      /\ Source!End(s, l) > j}
           m == link[j]
<1>0. Len(s) \in Nat /\ Linked(s, link)
  BY DEF Whole, Linked
<1>1. /\ m \in 1 .. j - 1 /\ s[m].kind \in LoopKinds
      /\ \A k \in m + 1 .. j : s[k].depth > s[m].depth
      /\ \A l \in m + 1 .. j - 1 : s[l].kind \in LoopKinds =>
           \E e \in l + 1 .. j - 1 : s[e].kind = "end" /\ link[e] = l
  BY <1>0, TokenFacts DEF LeavesOwn
<1>2. m \in 1 .. Len(s) /\ s[m].depth \in Nat /\ s[j].depth \in Nat /\ s[m].depth < s[j].depth
  <2>1. m \in 1 .. Len(s)
    BY <1>0, <1>1
  <2>2. s[m].depth \in Nat /\ s[j].depth \in Nat
    BY <1>0, <2>1, TokenFacts
  <2>3. s[j].depth > s[m].depth
    BY <1>0, <1>1
  <2> QED BY <2>1, <2>2, <2>3
<1> HIDE DEF m
<1>3. PICK e : Closes(s, link, e, "end", m)
  BY <1>1, <1>2 DEF Whole, Heads
<1>4. e > j /\ Source!End(s, m) = e
  <2>1. e \in m + 1 .. Len(s) /\ s[e].depth = s[m].depth
    BY <1>0, <1>2, <1>3, ClosingFacts
  <2>2. e \notin m + 1 .. j
    BY <1>1, <1>2, <2>1
  <2> QED BY <1>0, <1>1, <1>2, <1>3, <2>1, <2>2, EndIs
<1>5. m \in S /\ S \in SUBSET Nat
  BY <1>1, <1>2, <1>4 DEF LoopKinds, Source!Loops
<1>6. ASSUME NEW l \in S, l > m
      PROVE  FALSE
  <2>1. l \in m + 1 .. j - 1 /\ s[l].kind \in LoopKinds /\ l \in 1 .. Len(s)
    BY <1>0, <1>1, <1>6 DEF LoopKinds, Source!Loops
  <2>2. PICK f \in l + 1 .. j - 1 : s[f].kind = "end" /\ link[f] = l
    BY <1>1, <2>1
  <2>3. Closes(s, link, f, "end", l)
    BY <1>0, <2>1, <2>2 DEF Closes
  <2>4. Source!End(s, l) = f
    BY <1>0, <2>1, <2>3, EndIs
  <2> QED BY <2>2, <2>4
<1>7. \A l \in S : l <= m
  BY <1>1, <1>6
<1> HIDE DEF S
<1>8. Source!Max(S) = m
  BY <1>5, <1>7, LargestIs
<1>9. Source!LoopOf(s, j) = m
  BY <1>8 DEF S, Source!LoopOf
<1> QED BY <1>1, <1>3, <1>4, <1>9 DEF m

\* Something follows the end of a construct.
LEMMA BehindEnd ==
  ASSUME NEW s, NEW link, Whole(s, link), NEW e \in 1 .. Len(s), s[e].kind # "finish"
  PROVE  e + 1 \in 1 .. Len(s) /\ e + 1 > e
<1>1. Len(s) \in Nat /\ s[Len(s)].kind = "finish"
  BY DEF Whole, Linked
<1>2. e # Len(s)
  BY <1>1
<1> QED BY <1>1, <1>2

-----------------------------------------------------------------------------
(* Arriving at a token.  The recursion of Arrive always looks ahead, so it    *)
(* has a solution.                                                            *)

ArriveOf(s, f, j) ==
  IF s[j].kind = "else" THEN f[Source!End(s, j) + 1]
  ELSE IF s[j].kind = "break" THEN f[Source!End(s, Source!LoopOf(s, j)) + 1]
  ELSE IF s[j].kind = "continue" THEN Source!NextRound(s, Source!LoopOf(s, j))
  ELSE IF s[j].kind # "end" THEN j
  ELSE IF s[Source!Opener(s, j)].kind = "if" THEN f[j + 1]
  ELSE Source!NextRound(s, Source!Opener(s, j))

ArrivesFrom(s, m, f) == f = [j \in m .. Len(s) |-> ArriveOf(s, f, j)]

LEMMA ArriveRule ==
  ASSUME NEW s, NEW f, NEW j
  PROVE  (CASE s[j].kind = "else"     -> f[Source!End(s, j) + 1]
            [] s[j].kind = "break"    -> f[Source!End(s, Source!LoopOf(s, j)) + 1]
            [] s[j].kind = "continue" -> Source!NextRound(s, Source!LoopOf(s, j))
            [] s[j].kind = "end"      ->
                 LET i == Source!Opener(s, j)
                 IN  IF s[i].kind = "if" THEN f[j + 1] ELSE Source!NextRound(s, i)
            [] OTHER                  -> j) = ArriveOf(s, f, j)
<1>1. CASE s[j].kind = "else"
  BY <1>1, Zenon DEF ArriveOf
<1>2. CASE s[j].kind = "break"
  BY <1>2, Zenon DEF ArriveOf
<1>3. CASE s[j].kind = "continue"
  BY <1>3, Zenon DEF ArriveOf
<1>4. CASE s[j].kind = "end"
  BY <1>4, Zenon DEF ArriveOf
<1>5. CASE s[j].kind \notin {"else", "break", "continue", "end"}
  BY <1>5, Zenon DEF ArriveOf
<1> QED BY <1>1, <1>2, <1>3, <1>4, <1>5

LEMMA ArriveIsChosen ==
  ASSUME NEW s
  PROVE  Source!Arrive(s) = CHOOSE f : ArrivesFrom(s, 1, f)
BY ArriveRule, Zenon DEF Source!Arrive, ArrivesFrom

LEMMA ArriveLooksAhead ==
  ASSUME NEW s, NEW link, Whole(s, link), NEW j \in 1 .. Len(s),
         NEW f, NEW g, \A k \in j + 1 .. Len(s) : f[k] = g[k]
  PROVE  ArriveOf(s, f, j) = ArriveOf(s, g, j)
<1>0. Len(s) \in Nat /\ Linked(s, link)
  BY DEF Whole, Linked
<1>1. CASE s[j].kind = "else"
  <2> DEFINE i == link[j]
  <2>1. i \in 1 .. Len(s) /\ s[i].kind = "if" /\ s[i].rest /\ Closes(s, link, j, "else", i)
    <3>1. i \in 1 .. j - 1 /\ s[i].kind = "if" /\ s[i].rest
      BY <1>0, <1>1, TokenFacts DEF ClosesOwn
    <3> QED BY <1>0, <1>1, <3>1 DEF Closes
  <2>2. PICK e : Closes(s, link, e, "end", i)
    BY <2>1 DEF Whole, Heads
  <2> HIDE DEF i
  <2>3. Source!End(s, j) = e /\ e \in j + 1 .. Len(s)
    BY <1>0, <2>1, <2>2, ElseEndIs
  <2>4. e + 1 \in 1 .. Len(s)
    BY <1>0, <2>2, <2>3, BehindEnd DEF Closes
  <2>5. e + 1 \in j + 1 .. Len(s)
    BY <1>0, <2>3, <2>4
  <2> QED BY <1>1, <2>3, <2>5, Zenon DEF ArriveOf
<1>2. CASE s[j].kind = "break"
  <2>1. PICK e : Closes(s, link, e, "end", link[j]) /\ e > j
    BY <1>2, LoopIs
  <2>2. Source!LoopOf(s, j) = link[j] /\ link[j] \in 1 .. Len(s)
    BY <1>0, <1>2, LoopIs
  <2>3. Source!End(s, Source!LoopOf(s, j)) = e
    BY <1>0, <2>1, <2>2, EndIs
  <2>4. e + 1 \in j + 1 .. Len(s)
    <3>1. e \in 1 .. Len(s) /\ s[e].kind # "finish"
      BY <1>0, <2>1, <2>2 DEF Closes
    <3> QED BY <1>0, <2>1, <3>1, BehindEnd
  <2>5. f[e + 1] = g[e + 1]
    BY <2>4
  <2> QED BY <1>2, <2>3, <2>5, Zenon DEF ArriveOf
<1>3. CASE s[j].kind = "end"
  <2>1. j + 1 \in j + 1 .. Len(s)
    BY <1>0, <1>3, BehindEnd
  <2>2. f[j + 1] = g[j + 1]
    BY <2>1
  <2> QED BY <1>3, <2>2, Zenon DEF ArriveOf
<1>4. CASE s[j].kind \notin {"else", "break", "end"}
  BY <1>4, Zenon DEF ArriveOf
<1> QED BY <1>1, <1>2, <1>3, <1>4

\* Every set of numbers has a least member.
LEMMA LeastOf ==
  ASSUME NEW S \in SUBSET Nat, NEW n \in S
  PROVE  \E i \in S : \A j \in S : i <= j
<1> DEFINE Less == {p \in Nat \X Nat : p[1] < p[2]}
<1>1. IsWellFoundedOn(Less, Nat)
  BY NatLessThanWellFounded DEF OpToRel
<1>2. \A i, j \in Nat : <<j, i>> \in Less <=> j < i
  OBVIOUS
<1> HIDE DEF Less
<1>3. PICK m \in S : \A j \in S : ~(<<j, m>> \in Less)
  BY <1>1, WFMin
<1>4. ASSUME NEW j \in S
      PROVE  m <= j
  <2>1. m \in Nat /\ j \in Nat /\ ~(<<j, m>> \in Less)
    BY <1>3
  <2>2. ~(j < m)
    BY <1>2, <2>1
  <2> QED BY <2>1, <2>2
<1> QED BY <1>4

LEMMA ArriveExists ==
  ASSUME NEW s, NEW link, Whole(s, link)
  PROVE  \E f : ArrivesFrom(s, 1, f)
<1> DEFINE n == Len(s)
           Missing == {k \in 0 .. n : ~ \E f : ArrivesFrom(s, n + 1 - k, f)}
<1>0. n \in Nat
  BY DEF Whole, Linked
<1>1. SUFFICES ASSUME Missing # {} PROVE FALSE
  <2>1. n \in 0 .. n /\ n + 1 - n = 1
    BY <1>0
  <2>2. n \notin Missing
    BY <1>1
  <2> QED BY <2>1, <2>2
<1>2. PICK k \in Missing : \A l \in Missing : k <= l
  <2>1. Missing \in SUBSET Nat
    BY <1>0
  <2> HIDE DEF Missing
  <2> QED BY <1>1, <2>1, LeastOf
<1>3. k \in 0 .. n /\ ~ \E f : ArrivesFrom(s, n + 1 - k, f)
  OBVIOUS
<1>4. CASE k = 0
  <2> DEFINE none == [j \in {} |-> 0]
  <2>1. n + 1 - k .. n = {}
    BY <1>0, <1>4
  <2>2. none = [j \in n + 1 - k .. n |-> ArriveOf(s, none, j)]
    BY <2>1
  <2> QED BY <1>3, <2>2 DEF ArrivesFrom
<1>5. CASE k # 0
  <2> DEFINE m == n + 1 - k
  <2>1. k - 1 \in 0 .. n /\ ~(k <= k - 1) /\ n + 1 - (k - 1) = m + 1 /\ m \in 1 .. n
    BY <1>0, <1>3, <1>5
  <2>2. k - 1 \notin Missing
    BY <1>2, <2>1
  <2>3. PICK f : ArrivesFrom(s, m + 1, f)
    BY <2>1, <2>2
  <2> DEFINE g == [j \in m .. n |-> ArriveOf(s, f, j)]
  <2>4. \A j \in m + 1 .. n : g[j] = f[j]
    <3>1. f = [j \in m + 1 .. n |-> ArriveOf(s, f, j)]
      BY <2>3 DEF ArrivesFrom
    <3>2. \A j \in m + 1 .. n : f[j] = ArriveOf(s, f, j)
      BY <3>1
    <3>3. \A j \in m + 1 .. n : j \in m .. n
      BY <2>1
    <3> QED BY <3>2, <3>3
  <2>5. ASSUME NEW j \in m .. n
        PROVE  ArriveOf(s, f, j) = ArriveOf(s, g, j)
    <3>1. j \in 1 .. n /\ \A l \in j + 1 .. n : l \in m + 1 .. n
      BY <2>1
    <3>2. \A l \in j + 1 .. n : f[l] = g[l]
      BY <2>4, <3>1
    <3> HIDE DEF g
    <3> QED BY <3>1, <3>2, ArriveLooksAhead
  <2>6. ArrivesFrom(s, m, g)
    <3> DEFINE h == [j \in m .. n |-> ArriveOf(s, g, j)]
    <3>1. g = h
      BY <2>5
    <3> QED BY <3>1 DEF ArrivesFrom
  <2> QED BY <1>3, <2>6
<1> QED BY <1>4, <1>5

\* Arrive satisfies its equation.
LEMMA ArriveIs ==
  ASSUME NEW s, NEW link, Whole(s, link), NEW j \in 1 .. Len(s)
  PROVE  Source!Arrive(s)[j] = ArriveOf(s, Source!Arrive(s), j)
<1> DEFINE a == Source!Arrive(s)
<1>1. ArrivesFrom(s, 1, a)
  BY ArriveIsChosen, ArriveExists, Zenon
<1>2. a = [k \in 1 .. Len(s) |-> ArriveOf(s, a, k)]
  BY <1>1 DEF ArrivesFrom
<1> HIDE DEF a
<1>3. a[j] = ArriveOf(s, a, j)
  BY <1>2
<1> QED BY <1>3 DEF a

-----------------------------------------------------------------------------
(* Points of the program.  A block is made for a point that is known as soon  *)
(* as its construct is: in the construct (the start of its body), the         *)
(* construct itself (its test), its else part, its end (the increment of a    *)
(* loop) or what is behind it.                                                *)

Points == Nat \X {"in", "self", "else", "end", "behind"}

\* The token q is at the point a.
IsPoint(s, link, a, q) ==
  /\ q \in Nat
  /\ a[2] = "in" => q = a[1] + 1
  /\ a[2] = "self" => q = a[1]
  /\ a[2] = "end" => q \in 1 .. Len(s) /\ s[q].kind = "end" /\ link[q] = a[1]
  /\ a[2] = "else" => q - 1 \in 1 .. Len(s) /\ s[q - 1].kind = "else" /\ link[q - 1] = a[1]
  /\ a[2] = "behind" => q - 1 \in 1 .. Len(s) /\ s[q - 1].kind = "end" /\ link[q - 1] = a[1]

\* Where a loop goes on after its body.
Round(s, l) == <<l, IF s[l].rest THEN "end" ELSE "self">>

\* Where a branch leads that executes no token and stands where token p is.
BranchPoint(s, link, p) ==
  IF s[p].kind \in LoopKinds THEN <<p, "self">>
  ELSE IF s[p].kind = "continue" \/ (s[p].kind = "end" /\ s[link[p]].kind \in LoopKinds)
  THEN Round(s, link[p])
  ELSE <<link[p], "behind">>

\* The operation op stands where token p is; label is the points of the blocks.
Stands(s, link, label, op, p) ==
  /\ p \in 1 .. Len(s)
  /\ op.token \in {0, p}
  /\ s[p].kind \in {"else", "end", "break", "continue"} => link[p] \in 1 .. Len(s)
  /\ op.kind = "alloca" => op.token = 0
  /\ op.kind = "stmt" =>
       /\ op.token = p
       /\ \/ s[p].kind = "stmt"
          \/ s[p].kind = "end" /\ s[link[p]].kind \in LoopKinds /\ s[link[p]].rest
  /\ op.kind = "return" => op.token = p /\ s[p].kind \in {"return", "finish"}
  /\ op.kind = "br" =>
       /\ op.to[1] \in 1 .. Len(label)
       /\ op.token = 0 => /\ s[p].kind \in LoopKinds \cup {"break", "continue", "else", "end"}
                          /\ label[op.to[1]] = BranchPoint(s, link, p)
       /\ op.token # 0 => /\ s[p].kind = "for" /\ ~s[p].test
                          /\ label[op.to[1]] = <<p, "in">>
  /\ op.kind = "cond_br" =>
       /\ op.token = p /\ s[p].kind \in Heads /\ s[p].test
       /\ op.to[1] \in 1 .. Len(label) /\ op.to[2] \in 1 .. Len(label)
       /\ label[op.to[1]] = <<p, "in">>
       /\ label[op.to[2]] = <<p, IF s[p].kind = "if" /\ s[p].rest THEN "else" ELSE "behind">>

\* The operation behind op stands where token q is.
Follows(s, link, op, p, q) ==
  /\ op.kind \notin Terminators
  /\ q = IF op.token = 0 THEN p ELSE IF s[p].kind = "end" THEN link[p] ELSE p + 1

\* Most tokens are executed where control arrives.
LEMMA ArriveHere ==
  ASSUME NEW s, NEW link, Whole(s, link), NEW p \in 1 .. Len(s),
         s[p].kind \notin {"else", "break", "continue", "end"}
  PROVE  Source!Arrive(s)[p] = p
BY ArriveIs DEF ArriveOf

\* A token linked to a construct closes it.
LEMMA LinkedCloses ==
  ASSUME NEW s, NEW link, Linked(s, link), NEW e \in 1 .. Len(s),
         NEW kind \in {"else", "end"}, s[e].kind = kind
  PROVE  Closes(s, link, e, kind, link[e]) /\ link[e] \in 1 .. Len(s) /\ s[link[e]].kind \in Heads
<1>1. Len(s) \in Nat
  BY DEF Linked
<1>2. link[e] \in 1 .. e - 1 /\ s[link[e]].kind \in Heads
  BY TokenFacts DEF ClosesOwn
<1> QED BY <1>1, <1>2 DEF Closes

\* The next round of a loop.
LEMMA RoundIs ==
  ASSUME NEW s, NEW link, Whole(s, link), NEW l \in 1 .. Len(s), s[l].kind \in LoopKinds,
         NEW q, IsPoint(s, link, Round(s, l), q)
  PROVE  /\ Source!NextRound(s, l) = q
         /\ Source!Arrive(s)[q] = q
<1>0. Len(s) \in Nat /\ Linked(s, link)
  BY DEF Whole, Linked
<1>1. CASE s[l].rest
  <2>1. q \in 1 .. Len(s) /\ s[q].kind = "end" /\ link[q] = l
    BY <1>1 DEF IsPoint, Round
  <2>2. Closes(s, link, q, "end", l)
    BY <1>0, <2>1, LinkedCloses
  <2>3. Source!End(s, l) = q /\ Source!Opener(s, q) = l
    BY <1>0, <2>2, EndIs, OpenerIs
  <2>4. Source!NextRound(s, l) = q
    BY <1>1, <2>3 DEF Source!NextRound
  <2>5. s[l].kind # "if"
    BY DEF LoopKinds
  <2> QED BY <2>1, <2>3, <2>4, <2>5, ArriveIs DEF ArriveOf
<1>2. CASE ~s[l].rest
  <2>1. q = l
    BY <1>2 DEF IsPoint, Round
  <2>2. s[l].kind \notin {"else", "break", "continue", "end"}
    BY DEF LoopKinds
  <2> QED BY <1>2, <2>1, <2>2, ArriveHere DEF Source!NextRound
<1> QED BY <1>1, <1>2

\* A branch leads to where control arrives.
LEMMA BranchArrives ==
  ASSUME NEW s, NEW link, Whole(s, link), NEW p \in 1 .. Len(s),
         s[p].kind \in LoopKinds \cup {"break", "continue", "else", "end"},
         NEW q, IsPoint(s, link, BranchPoint(s, link, p), q)
  PROVE  Source!Arrive(s)[q] = Source!Arrive(s)[p]
<1> DEFINE a == Source!Arrive(s)
<1>0. Len(s) \in Nat /\ Linked(s, link)
  BY DEF Whole, Linked
<1>a. a[p] = ArriveOf(s, a, p)
  BY ArriveIs
<1> HIDE DEF a
<1>b. ASSUME NEW i, IsPoint(s, link, <<i, "behind">>, q)
      PROVE  Closes(s, link, q - 1, "end", i) /\ q = (q - 1) + 1
  <2>1. q - 1 \in 1 .. Len(s) /\ s[q - 1].kind = "end" /\ link[q - 1] = i /\ q \in Nat
    BY <1>b DEF IsPoint
  <2> QED BY <1>0, <2>1, LinkedCloses
<1>1. CASE s[p].kind \in LoopKinds
  BY <1>1 DEF BranchPoint, IsPoint
<1>2. CASE s[p].kind = "break"
  <2>1. IsPoint(s, link, <<link[p], "behind">>, q)
    BY <1>2 DEF BranchPoint, LoopKinds
  <2>2. Closes(s, link, q - 1, "end", link[p]) /\ q = (q - 1) + 1
    BY <1>b, <2>1
  <2>3. Source!LoopOf(s, p) = link[p] /\ link[p] \in 1 .. Len(s)
    BY <1>0, <1>2, LoopIs
  <2>4. Source!End(s, link[p]) = q - 1
    BY <1>0, <2>2, <2>3, EndIs
  <2> QED BY <1>2, <1>a, <2>2, <2>3, <2>4 DEF ArriveOf, a
<1>3. CASE s[p].kind = "continue"
  <2>1. Source!LoopOf(s, p) = link[p] /\ link[p] \in 1 .. Len(s) /\ s[link[p]].kind \in LoopKinds
    BY <1>0, <1>3, LoopIs
  <2>2. IsPoint(s, link, Round(s, link[p]), q)
    BY <1>3 DEF BranchPoint, LoopKinds
  <2>3. Source!NextRound(s, link[p]) = q /\ a[q] = q
    BY <2>1, <2>2, RoundIs DEF a
  <2>4. a[p] = q
    BY <1>3, <1>a, <2>1, <2>3 DEF ArriveOf
  <2> QED BY <2>3, <2>4 DEF a
<1>4. CASE s[p].kind = "else"
  <2>1. Closes(s, link, p, "else", link[p]) /\ link[p] \in 1 .. Len(s)
    BY <1>0, <1>4, LinkedCloses
  <2>2. IsPoint(s, link, <<link[p], "behind">>, q)
    BY <1>4 DEF BranchPoint, LoopKinds
  <2>3. Closes(s, link, q - 1, "end", link[p]) /\ q = (q - 1) + 1
    BY <1>b, <2>2
  <2>4. Source!End(s, p) = q - 1
    BY <1>0, <2>1, <2>3, ElseEndIs
  <2> QED BY <1>4, <1>a, <2>3, <2>4 DEF ArriveOf, a
<1>5. CASE s[p].kind = "end"
  <2>1. Closes(s, link, p, "end", link[p]) /\ link[p] \in 1 .. Len(s) /\ s[link[p]].kind \in Heads
    BY <1>0, <1>5, LinkedCloses
  <2>2. Source!Opener(s, p) = link[p] /\ Source!End(s, link[p]) = p
    BY <1>0, <2>1, OpenerIs, EndIs
  <2>3. CASE s[link[p]].kind \in LoopKinds
    <3>1. IsPoint(s, link, Round(s, link[p]), q)
      BY <1>5, <2>3 DEF BranchPoint, LoopKinds
    <3>2. Source!NextRound(s, link[p]) = q /\ a[q] = q
      BY <2>1, <2>3, <3>1, RoundIs DEF a
    <3>3. s[link[p]].kind # "if"
      BY <2>3 DEF LoopKinds
    <3>4. a[p] = q
      BY <1>5, <1>a, <2>2, <3>2, <3>3 DEF ArriveOf
    <3> QED BY <3>2, <3>4 DEF a
  <2>4. CASE s[link[p]].kind = "if"
    <3>1. IsPoint(s, link, <<link[p], "behind">>, q)
      BY <1>5, <2>4 DEF BranchPoint, LoopKinds
    <3>2. Closes(s, link, q - 1, "end", link[p]) /\ q = (q - 1) + 1
      BY <1>b, <3>1
    <3>3. Source!End(s, link[p]) = q - 1
      BY <1>0, <2>1, <3>2, EndIs
    <3>4. q = p + 1
      BY <2>2, <3>2, <3>3
    <3>5. a[p] = a[p + 1]
      BY <1>5, <1>a, <2>2, <2>4 DEF ArriveOf
    <3> QED BY <3>4, <3>5 DEF a
  <2> QED BY <2>1, <2>3, <2>4 DEF Heads
<1> QED BY <1>1, <1>2, <1>3, <1>4, <1>5

\* An operation that executes a token stands where control arrived.
LEMMA TokenExecuted ==
  ASSUME NEW s, NEW link, Whole(s, link), NEW label, NEW op, op \in Operations, NEW p,
         Stands(s, link, label, op, p), op.token # 0
  PROVE  /\ op.token = p /\ p \in 1 .. Len(s) /\ Source!Arrive(s)[p] = p
         /\ s[p].kind \in {"stmt", "end", "return", "finish"} \cup Heads
         /\ Source!Tested(s[p]) <=> op.kind = "cond_br"
<1>0. Len(s) \in Nat /\ Linked(s, link)
  BY DEF Whole, Linked
<1>1. op.token = p /\ p \in 1 .. Len(s)
  BY DEF Stands
<1>k. op.kind \in {"stmt", "alloca", "br", "cond_br", "return"}
  BY DEF Operations, Kinds
<1>2. CASE op.kind = "stmt"
  <2>1. CASE s[p].kind = "stmt"
    BY <1>1, <1>2, <2>1, ArriveHere DEF Source!Tested, Source!Loops
  <2>2. CASE s[p].kind = "end"
    <3>1. s[link[p]].kind \in LoopKinds /\ s[link[p]].rest /\ link[p] \in 1 .. Len(s)
      BY <1>2, <2>2 DEF Stands
    <3>2. IsPoint(s, link, Round(s, link[p]), p)
      <4>1. p \in Nat
        BY <1>0, <1>1
      <4> QED BY <1>1, <2>2, <3>1, <4>1 DEF IsPoint, Round
    <3>3. Source!Arrive(s)[p] = p
      BY <3>1, <3>2, RoundIs
    <3> QED BY <1>1, <1>2, <2>2, <3>3 DEF Source!Tested, Source!Loops
  <2> QED BY <1>2, <2>1, <2>2 DEF Stands
<1>3. CASE op.kind = "return"
  <2>1. s[p].kind \in {"return", "finish"}
    BY <1>3 DEF Stands
  <2> QED BY <1>1, <1>3, <2>1, ArriveHere DEF Source!Tested, Source!Loops
<1>4. CASE op.kind = "br"
  <2>1. s[p].kind = "for" /\ ~s[p].test
    BY <1>4 DEF Stands
  <2> QED BY <1>1, <1>4, <2>1, ArriveHere DEF Source!Tested, Source!Loops, Heads, LoopKinds
<1>5. CASE op.kind = "cond_br"
  <2>1. s[p].kind \in Heads /\ s[p].test
    BY <1>5 DEF Stands
  <2> QED BY <1>1, <1>5, <2>1, ArriveHere DEF Source!Tested, Source!Loops, Heads, LoopKinds
<1>6. op.kind # "alloca"
  BY DEF Stands
<1> QED BY <1>k, <1>2, <1>3, <1>4, <1>5, <1>6

\* The cases of Successor.
LEMMA SuccessorOfTest ==
  ASSUME NEW s, NEW p, p # 0
  PROVE  /\ s[p].kind \in Heads => Source!Successor(s, p, TRUE) = Source!Arrive(s)[p + 1]
         /\ s[p].kind = "if" =>
              Source!Successor(s, p, FALSE) = Source!Arrive(s)[Source!Closer(s, p) + 1]
         /\ s[p].kind \in LoopKinds =>
              Source!Successor(s, p, FALSE) = Source!Arrive(s)[Source!End(s, p) + 1]
<1>1. ASSUME s[p].kind = "if"
      PROVE  /\ Source!Successor(s, p, TRUE) = Source!Arrive(s)[p + 1]
             /\ Source!Successor(s, p, FALSE) = Source!Arrive(s)[Source!Closer(s, p) + 1]
  <2>1. s[p].kind \notin Source!Loops /\ s[p].kind # "end" /\ s[p].kind \notin {"return", "finish"}
    BY <1>1 DEF Source!Loops
  <2> QED BY <1>1, <2>1, Zenon DEF Source!Successor
<1>2. ASSUME s[p].kind \in LoopKinds
      PROVE  /\ Source!Successor(s, p, TRUE) = Source!Arrive(s)[p + 1]
             /\ Source!Successor(s, p, FALSE) = Source!Arrive(s)[Source!End(s, p) + 1]
  <2>1. /\ s[p].kind \in Source!Loops /\ s[p].kind # "end" /\ s[p].kind # "if"
        /\ s[p].kind \notin {"return", "finish"}
    BY <1>2 DEF Source!Loops, LoopKinds
  <2> QED BY <1>2, <2>1, Zenon DEF Source!Successor
<1> QED BY <1>1, <1>2 DEF Heads

LEMMA SuccessorOfEnd ==
  ASSUME NEW s, NEW p, p # 0, s[p].kind = "end", NEW out
  PROVE  Source!Successor(s, p, out) = Source!Opener(s, p)
<1>1. s[p].kind \notin Source!Loops /\ s[p].kind # "if" /\ s[p].kind \notin {"return", "finish"}
  BY DEF Source!Loops
<1> QED BY <1>1, Zenon DEF Source!Successor

LEMMA SuccessorOfStatement ==
  ASSUME NEW s, NEW p, p # 0, s[p].kind = "stmt", NEW out
  PROVE  Source!Successor(s, p, out) = Source!Arrive(s)[p + 1]
<1>1. /\ s[p].kind \notin Source!Loops /\ s[p].kind # "if" /\ s[p].kind # "end"
      /\ s[p].kind \notin {"return", "finish"}
  BY DEF Source!Loops
<1> QED BY <1>1, Zenon DEF Source!Successor

LEMMA SuccessorAtFirst ==
  ASSUME NEW s, NEW out
  PROVE  Source!Successor(s, 0, out) = Source!Arrive(s)[1]
BY Zenon DEF Source!Successor

\* Behind the operation op control goes on where the successor of token p is.
GoesOn(s, link, label, op, p, q) ==
  /\ op.kind = "stmt" /\ Follows(s, link, op, p, q) =>
       \A out : Source!Successor(s, p, out) = Source!Arrive(s)[q]
  /\ op.kind \in {"br", "cond_br"} /\ IsPoint(s, link, label[op.to[1]], q) =>
       Source!Successor(s, p, TRUE) = Source!Arrive(s)[q]
  /\ op.kind = "cond_br" /\ IsPoint(s, link, label[op.to[2]], q) =>
       Source!Successor(s, p, FALSE) = Source!Arrive(s)[q]

LEMMA SuccessorIs ==
  ASSUME NEW s, NEW link, Whole(s, link), NEW label, NEW op, op \in Operations, NEW p,
         Stands(s, link, label, op, p), op.token # 0, NEW q
  PROVE  GoesOn(s, link, label, op, p, q)
<1>0. Len(s) \in Nat /\ Linked(s, link)
  BY DEF Whole, Linked
<1>1. op.token = p /\ p \in 1 .. Len(s) /\ p # 0
  BY TokenExecuted
<1>2. ASSUME op.kind = "stmt", Follows(s, link, op, p, q), NEW out
      PROVE  Source!Successor(s, p, out) = Source!Arrive(s)[q]
  <2>1. CASE s[p].kind = "stmt"
    <3>1. q = p + 1
      BY <1>1, <1>2, <2>1 DEF Follows
    <3> QED BY <1>1, <2>1, <3>1, SuccessorOfStatement
  <2>2. CASE s[p].kind = "end"
    <3>1. q = link[p]
      BY <1>1, <1>2, <2>2 DEF Follows
    <3>2. Closes(s, link, p, "end", q) /\ q \in 1 .. Len(s)
      BY <1>0, <1>1, <2>2, <3>1, LinkedCloses
    <3>3. Source!Successor(s, p, out) = q
      <4>1. Source!Opener(s, p) = q
        BY <1>0, <3>2, OpenerIs
      <4> QED BY <1>1, <2>2, <4>1, SuccessorOfEnd
    <3>4. s[q].kind \in LoopKinds
      BY <1>2, <2>2, <3>1 DEF Stands
    <3>5. Source!Arrive(s)[q] = q
      BY <3>2, <3>4, ArriveHere DEF LoopKinds
    <3> QED BY <3>3, <3>5
  <2> QED BY <1>2, <2>1, <2>2 DEF Stands
<1>3. ASSUME op.kind \in {"br", "cond_br"}, IsPoint(s, link, label[op.to[1]], q)
      PROVE  Source!Successor(s, p, TRUE) = Source!Arrive(s)[q]
  <2>1. s[p].kind \in Heads /\ label[op.to[1]] = <<p, "in">>
    BY <1>1, <1>3 DEF Stands, Heads, LoopKinds
  <2>2. q = p + 1
    BY <1>3, <2>1 DEF IsPoint
  <2>3. Source!Successor(s, p, TRUE) = Source!Arrive(s)[p + 1]
    BY <1>1, <2>1, SuccessorOfTest
  <2> QED BY <2>2, <2>3
<1>4. ASSUME op.kind = "cond_br", IsPoint(s, link, label[op.to[2]], q)
      PROVE  Source!Successor(s, p, FALSE) = Source!Arrive(s)[q]
  <2>1. /\ s[p].kind \in Heads
        /\ label[op.to[2]] = <<p, IF s[p].kind = "if" /\ s[p].rest THEN "else" ELSE "behind">>
    BY <1>1, <1>4 DEF Stands
  <2>2. CASE s[p].kind = "if"
    <3>1. /\ q - 1 \in 1 .. Len(s) /\ link[q - 1] = p /\ q \in Nat
          /\ s[q - 1].kind = IF s[p].rest THEN "else" ELSE "end"
      BY <1>4, <2>1, <2>2 DEF IsPoint
    <3>2. Closes(s, link, q - 1, IF s[p].rest THEN "else" ELSE "end", p)
      <4>1. CASE s[p].rest
        BY <1>0, <3>1, <4>1, LinkedCloses
      <4>2. CASE ~s[p].rest
        BY <1>0, <3>1, <4>2, LinkedCloses
      <4> QED BY <4>1, <4>2
    <3>3. Source!Closer(s, p) + 1 = q
      <4> DEFINE e == q - 1
      <4>1. e + 1 = q
        BY <3>1
      <4>2. Closes(s, link, e, IF s[p].rest THEN "else" ELSE "end", p)
        BY <3>2
      <4> HIDE DEF e
      <4>3. Source!Closer(s, p) = e
        BY <1>0, <1>1, <2>2, <4>2, CloserIs, Zenon
      <4> QED BY <4>1, <4>3
    <3> QED BY <1>1, <2>2, <3>3, SuccessorOfTest
  <2>3. CASE s[p].kind \in LoopKinds
    <3>1. /\ q - 1 \in 1 .. Len(s) /\ link[q - 1] = p /\ q \in Nat /\ s[q - 1].kind = "end"
      BY <1>4, <2>1, <2>3 DEF IsPoint, LoopKinds
    <3>2. Closes(s, link, q - 1, "end", p)
      BY <1>0, <3>1, LinkedCloses
    <3>3. Source!End(s, p) + 1 = q
      BY <1>0, <1>1, <3>1, <3>2, EndIs
    <3> QED BY <1>1, <2>3, <3>3, SuccessorOfTest
  <2> QED BY <2>1, <2>2, <2>3 DEF Heads
<1> QED BY <1>2, <1>3, <1>4, Zenon DEF GoesOn

-----------------------------------------------------------------------------
(* Operations that stand where the tokens of ps are, one behind the other.    *)

Strip(s, link, label, e, ps) ==
  /\ ps \in Seq(Nat) /\ Len(ps) = Len(e)
  /\ \A k \in 1 .. Len(e) : Stands(s, link, label, e[k], ps[k])
  /\ \A k \in 1 .. Len(e) - 1 : Follows(s, link, e[k], ps[k], ps[k + 1])

\* From token q on, and to token r if it does not end a block.
StripTo(s, link, label, e, ps, q, r) ==
  /\ Strip(s, link, label, e, ps) /\ e # <<>> /\ ps[1] = q
  /\ e[Len(e)].kind \notin Terminators => Follows(s, link, e[Len(e)], ps[Len(e)], r)
RowTo(s, link, label, e, q, r) == \E ps : StripTo(s, link, label, e, ps, q, r)

\* The operations of a block that was made for the point a.
Filed(s, link, label, a, ops, ps) ==
  Strip(s, link, label, ops, ps) /\ (ops # <<>> => IsPoint(s, link, a, ps[1]))

\* The next operation of the block stands where token q is.
ReadyWith(s, link, label, a, ops, ps, q) ==
  /\ Filed(s, link, label, a, ops, ps)
  /\ ops = <<>> => IsPoint(s, link, a, q)
  /\ ops # <<>> /\ ops[Len(ops)].kind \notin Terminators =>
       Follows(s, link, ops[Len(ops)], ps[Len(ops)], q)
Ready(s, link, label, a, ops, q) == \E ps : ReadyWith(s, link, label, a, ops, ps, q)

Written(s, link, label, bs) ==
  /\ label \in Seq(Points) /\ Len(label) = Len(bs) /\ bs \in Seq(Blocks)
  /\ \A b \in 1 .. Len(bs) : \E ps : Filed(s, link, label, label[b], bs[b].ops, ps)

\* The places u are the places p and then the places q.
PlacesJoined(p, q, u) ==
  /\ u \in Seq(Nat) /\ Len(p) \in Nat /\ Len(q) \in Nat /\ Len(u) = Len(p) + Len(q)
  /\ \A k \in 1 .. Len(u) :
       \/ k <= Len(p) /\ u[k] = p[k]
       \/ k > Len(p) /\ k - Len(p) \in 1 .. Len(q) /\ u[k] = q[k - Len(p)]

LEMMA JoinedPlaces ==
  ASSUME NEW p \in Seq(Nat), NEW q \in Seq(Nat)
  PROVE  PlacesJoined(p, q, p \o q)
BY SMT DEF PlacesJoined

\* Rows behind rows.
LEMMA RowToJoin ==
  ASSUME NEW s, NEW link, NEW label, NEW d \in OpSeqs, NEW e \in OpSeqs, NEW p, NEW q, NEW r,
         RowTo(s, link, label, d, p, q), RowTo(s, link, label, e, q, r),
         d[Len(d)].kind \notin Terminators
  PROVE  RowTo(s, link, label, d \o e, p, r)
<1>1. PICK u : StripTo(s, link, label, d, u, p, q)
  BY DEF RowTo
<1>2. PICK v : StripTo(s, link, label, e, v, q, r)
  BY DEF RowTo
<1>3. /\ Strip(s, link, label, d, u) /\ Strip(s, link, label, e, v) /\ d # <<>> /\ e # <<>>
      /\ u[1] = p /\ v[1] = q /\ Follows(s, link, d[Len(d)], u[Len(d)], v[1])
      /\ e[Len(e)].kind \notin Terminators => Follows(s, link, e[Len(e)], v[Len(e)], r)
      /\ u \in Seq(Nat) /\ v \in Seq(Nat)
  BY <1>1, <1>2 DEF StripTo, Strip
<1> DEFINE t == d \o e
           w == u \o v
<1>4. AreJoined(d, e, t) /\ PlacesJoined(u, v, w)
  BY <1>3, Joined, JoinedPlaces
<1> HIDE DEF t, w
<1> DEFINE m == Len(d)
           n == Len(e)
<1>6. /\ m \in Nat /\ n \in Nat /\ m > 0 /\ n > 0 /\ Len(t) = m + n /\ t # <<>>
      /\ Len(u) = m /\ Len(v) = n /\ Len(w) = m + n /\ w \in Seq(Nat)
  <2>1. Len(u) = m /\ Len(v) = n
    BY <1>3 DEF Strip
  <2>2. m \in Nat /\ n \in Nat /\ m # 0 /\ n # 0 /\ Len(t) = m + n /\ (t = <<>> <=> Len(t) = 0)
    BY <1>3, <1>4 DEF AreJoined
  <2>3. Len(w) = Len(u) + Len(v) /\ w \in Seq(Nat)
    BY <1>4 DEF PlacesJoined
  <2> HIDE DEF m, n
  <2> QED BY <2>1, <2>2, <2>3
<1>7. ASSUME NEW k \in 1 .. m + n
      PROVE  /\ k <= m => k \in 1 .. m /\ t[k] = d[k] /\ w[k] = u[k]
             /\ k > m => k - m \in 1 .. n /\ t[k] = e[k - m] /\ w[k] = v[k - m]
  <2>1. \/ k \in 1 .. m /\ t[k] = d[k]
        \/ k > m /\ k - m \in 1 .. n /\ t[k] = e[k - m]
    BY <1>4, <1>6 DEF AreJoined
  <2>2. \/ k <= m /\ w[k] = u[k]
        \/ k > m /\ k - m \in 1 .. n /\ w[k] = v[k - m]
    BY <1>4, <1>6 DEF PlacesJoined
  <2> HIDE DEF m, n
  <2> QED BY <1>6, <2>1, <2>2
<1>8. /\ \A k \in 1 .. m : Stands(s, link, label, d[k], u[k])
      /\ \A k \in 1 .. n : Stands(s, link, label, e[k], v[k])
      /\ \A k \in 1 .. m - 1 : Follows(s, link, d[k], u[k], u[k + 1])
      /\ \A k \in 1 .. n - 1 : Follows(s, link, e[k], v[k], v[k + 1])
      /\ Follows(s, link, d[m], u[m], v[1])
  BY <1>3 DEF Strip
<1> HIDE DEF m, n
<1>9. ASSUME NEW k \in 1 .. m + n
      PROVE  Stands(s, link, label, t[k], w[k])
  <2>1. CASE k <= m
    BY <1>7, <1>8, <2>1
  <2>2. CASE k > m
    BY <1>7, <1>8, <2>2
  <2> QED BY <1>6, <2>1, <2>2
<1>10. ASSUME NEW k \in 1 .. m + n - 1
      PROVE  Follows(s, link, t[k], w[k], w[k + 1])
  <2>0. k \in 1 .. m + n /\ k + 1 \in 1 .. m + n
    BY <1>6
  <2>1. CASE k < m
    <3>1. k \in 1 .. m - 1 /\ k <= m /\ k + 1 <= m
      BY <1>6, <2>1
    <3>2. t[k] = d[k] /\ w[k] = u[k] /\ w[k + 1] = u[k + 1]
      BY <1>7, <2>0, <3>1
    <3> QED BY <1>8, <3>1, <3>2
  <2>2. CASE k = m
    <3>1. k <= m /\ k + 1 > m /\ (k + 1) - m = 1
      BY <1>6, <2>2
    <3>2. t[k] = d[m] /\ w[k] = u[m] /\ w[k + 1] = v[1]
      BY <1>7, <2>0, <2>2, <3>1
    <3> QED BY <1>8, <3>2
  <2>3. CASE k > m
    <3>1. PICK l \in Nat : l = k - m
      BY <1>6, <2>3
    <3>2. l \in 1 .. n - 1 /\ k + 1 > m /\ (k + 1) - m = l + 1
      BY <1>6, <2>3, <3>1
    <3>3. t[k] = e[l] /\ w[k] = v[l]
      BY <1>7, <2>0, <2>3, <3>1
    <3>4. w[k + 1] = v[l + 1]
      BY <1>7, <2>0, <3>2
    <3> QED BY <1>8, <3>2, <3>3, <3>4
  <2> QED BY <1>6, <2>1, <2>2, <2>3
<1>11. Strip(s, link, label, t, w)
  BY <1>6, <1>9, <1>10 DEF Strip
<1>12. w[1] = u[1]
  <2>1. 1 \in 1 .. m + n /\ 1 <= m
    BY <1>6
  <2> QED BY <1>7, <2>1
<1>13. t[Len(t)] = e[n] /\ w[Len(t)] = v[n]
  <2>1. m + n \in 1 .. m + n /\ m + n > m /\ (m + n) - m = n
    BY <1>6
  <2> QED BY <1>6, <1>7, <2>1
<1>14. StripTo(s, link, label, t, w, p, r)
  BY <1>3, <1>6, <1>11, <1>12, <1>13 DEF StripTo, n
<1>15. RowTo(s, link, label, t, p, r)
  BY <1>14 DEF RowTo
<1> QED BY <1>15 DEF t

LEMMA RowToSingle ==
  ASSUME NEW s, NEW link, NEW label, NEW op \in Operations, NEW p \in Nat, NEW r,
         Stands(s, link, label, op, p),
         op.kind \notin Terminators => Follows(s, link, op, p, r)
  PROVE  RowTo(s, link, label, <<op>>, p, r)
<1> DEFINE t == <<op>>
           u == <<p>>
<1>1. Len(t) = 1 /\ t[1] = op /\ t # <<>> /\ u \in Seq(Nat) /\ Len(u) = 1 /\ u[1] = p
  OBVIOUS
<1> HIDE DEF t, u
<1>2. StripTo(s, link, label, t, u, p, r)
  BY <1>1 DEF StripTo, Strip
<1> QED BY <1>2 DEF RowTo, t

\* A row behind what a block has.
LEMMA ReadyRow ==
  ASSUME NEW s, NEW link, NEW label, NEW a, NEW ops \in OpSeqs, NEW e \in OpSeqs, NEW q, NEW r,
         Ready(s, link, label, a, ops, q), ~Ends(ops), RowTo(s, link, label, e, q, r)
  PROVE  Ready(s, link, label, a, ops \o e, r)
<1>1. PICK u : ReadyWith(s, link, label, a, ops, u, q)
  BY DEF Ready
<1>2. PICK v : StripTo(s, link, label, e, v, q, r)
  BY DEF RowTo
<1>3. CASE ops = <<>>
  <2>1. ops \o e = e /\ e # <<>>
    BY <1>2, <1>3 DEF StripTo, OpSeqs
  <2>2. IsPoint(s, link, a, q)
    BY <1>1, <1>3 DEF ReadyWith
  <2>3. ReadyWith(s, link, label, a, e, v, r)
    BY <1>2, <2>1, <2>2 DEF ReadyWith, Filed, StripTo
  <2> QED BY <2>1, <2>3 DEF Ready
<1>4. CASE ops # <<>>
  <2>1. ops[Len(ops)].kind \notin Terminators
    BY <1>4 DEF Ends
  <2>2. /\ Strip(s, link, label, ops, u) /\ IsPoint(s, link, a, u[1])
        /\ Follows(s, link, ops[Len(ops)], u[Len(ops)], q)
    BY <1>1, <1>4, <2>1 DEF ReadyWith, Filed
  <2>3. RowTo(s, link, label, ops, u[1], q)
    BY <1>1, <1>4, <2>2 DEF RowTo, StripTo, ReadyWith
  <2>4. RowTo(s, link, label, ops \o e, u[1], r)
    BY <2>1, <2>3, RowToJoin
  <2> DEFINE t == ops \o e
  <2>5. PICK w : StripTo(s, link, label, t, w, u[1], r)
    BY <2>4 DEF RowTo
  <2> HIDE DEF t
  <2>6. ReadyWith(s, link, label, a, t, w, r)
    BY <2>2, <2>5 DEF ReadyWith, Filed, StripTo
  <2> QED BY <2>6 DEF Ready, t
<1> QED BY <1>3, <1>4

-----------------------------------------------------------------------------
(* What stands where a token is still does when more tokens and more blocks   *)
(* follow.                                                                    *)

Prolongs(t, s) ==
  /\ Len(s) \in Nat /\ Len(t) \in Nat /\ Len(s) <= Len(t)
  /\ \A k \in 1 .. Len(s) : t[k] = s[k]

Grown(s, link, label, s2, link2, label2) ==
  /\ Prolongs(s2, s) /\ Prolongs(link2, link) /\ Prolongs(label2, label)
  /\ Len(link) = Len(s)

LEMMA BranchPointLonger ==
  ASSUME NEW s, NEW link, NEW label, NEW s2, NEW link2, NEW label2,
         Grown(s, link, label, s2, link2, label2), NEW p \in 1 .. Len(s),
         s[p].kind \in {"else", "end", "break", "continue"} => link[p] \in 1 .. Len(s),
         s[p].kind \in LoopKinds \cup {"break", "continue", "else", "end"}
  PROVE  BranchPoint(s2, link2, p) = BranchPoint(s, link, p)
<1>1. s2[p] = s[p] /\ link2[p] = link[p]
  BY DEF Grown, Prolongs
<1>2. CASE s[p].kind \in LoopKinds
  BY <1>1, <1>2 DEF BranchPoint
<1>3. CASE s[p].kind \in {"break", "continue", "else", "end"}
  <2>1. s2[link[p]] = s[link[p]]
    BY <1>3 DEF Grown, Prolongs
  <2> QED BY <1>1, <1>3, <2>1 DEF BranchPoint, Round
<1> QED BY <1>2, <1>3

LEMMA StandsLonger ==
  ASSUME NEW s, NEW link, NEW label, NEW s2, NEW link2, NEW label2,
         Grown(s, link, label, s2, link2, label2), NEW op, op \in Operations, NEW p,
         Stands(s, link, label, op, p)
  PROVE  Stands(s2, link2, label2, op, p)
<1>1. /\ p \in 1 .. Len(s) /\ op.token \in {0, p}
      /\ s[p].kind \in {"else", "end", "break", "continue"} => link[p] \in 1 .. Len(s)
  BY DEF Stands
<1>2. s2[p] = s[p] /\ link2[p] = link[p] /\ p \in 1 .. Len(s2)
  BY <1>1 DEF Grown, Prolongs
<1>3. s[p].kind \in {"else", "end", "break", "continue"} =>
        /\ link2[p] \in 1 .. Len(s2) /\ s2[link2[p]] = s[link[p]]
  BY <1>1, <1>2 DEF Grown, Prolongs
<1>4. \A b \in 1 .. Len(label) : b \in 1 .. Len(label2) /\ label2[b] = label[b]
  BY DEF Grown, Prolongs
<1>5. op.kind = "stmt" =>
        /\ op.token = p
        /\ \/ s2[p].kind = "stmt"
           \/ s2[p].kind = "end" /\ s2[link2[p]].kind \in LoopKinds /\ s2[link2[p]].rest
  BY <1>2, <1>3 DEF Stands
<1>6. op.kind = "return" => op.token = p /\ s2[p].kind \in {"return", "finish"}
  BY <1>2 DEF Stands
<1>7. op.kind = "cond_br" =>
        /\ op.token = p /\ s2[p].kind \in Heads /\ s2[p].test
        /\ op.to[1] \in 1 .. Len(label2) /\ op.to[2] \in 1 .. Len(label2)
        /\ label2[op.to[1]] = <<p, "in">>
        /\ label2[op.to[2]] = <<p, IF s2[p].kind = "if" /\ s2[p].rest THEN "else" ELSE "behind">>
  BY <1>2, <1>4 DEF Stands
<1>8. op.kind = "br" =>
        /\ op.to[1] \in 1 .. Len(label2)
        /\ op.token = 0 => /\ s2[p].kind \in LoopKinds \cup {"break", "continue", "else", "end"}
                           /\ label2[op.to[1]] = BranchPoint(s2, link2, p)
        /\ op.token # 0 => /\ s2[p].kind = "for" /\ ~s2[p].test
                           /\ label2[op.to[1]] = <<p, "in">>
  <2>1. ASSUME op.kind = "br", op.token = 0
        PROVE  /\ s2[p].kind \in LoopKinds \cup {"break", "continue", "else", "end"}
               /\ label2[op.to[1]] = BranchPoint(s2, link2, p)
    <3>1. /\ s[p].kind \in LoopKinds \cup {"break", "continue", "else", "end"}
          /\ label[op.to[1]] = BranchPoint(s, link, p) /\ op.to[1] \in 1 .. Len(label)
      BY <2>1 DEF Stands
    <3>2. BranchPoint(s2, link2, p) = BranchPoint(s, link, p)
      BY <1>1, <3>1, BranchPointLonger
    <3> QED BY <1>2, <1>4, <3>1, <3>2
  <2>2. ASSUME op.kind = "br", op.token # 0
        PROVE  s2[p].kind = "for" /\ ~s2[p].test /\ label2[op.to[1]] = <<p, "in">>
    BY <1>2, <1>4, <2>2 DEF Stands
  <2>3. op.kind = "br" => op.to[1] \in 1 .. Len(label2)
    BY <1>4 DEF Stands
  <2> QED BY <2>1, <2>2, <2>3
<1>9. op.kind = "alloca" => op.token = 0
  BY DEF Stands
<1> QED BY <1>1, <1>2, <1>3, <1>5, <1>6, <1>7, <1>8, <1>9 DEF Stands

LEMMA FollowsLonger ==
  ASSUME NEW s, NEW link, NEW label, NEW s2, NEW link2, NEW label2,
         Grown(s, link, label, s2, link2, label2), NEW op, NEW p \in 1 .. Len(s), NEW q,
         Follows(s, link, op, p, q)
  PROVE  Follows(s2, link2, op, p, q)
<1>1. s2[p] = s[p] /\ link2[p] = link[p]
  BY DEF Grown, Prolongs
<1> QED BY <1>1 DEF Follows

LEMMA IsPointLonger ==
  ASSUME NEW s, NEW link, NEW label, NEW s2, NEW link2, NEW label2,
         Grown(s, link, label, s2, link2, label2), NEW a, NEW q, IsPoint(s, link, a, q)
  PROVE  IsPoint(s2, link2, a, q)
<1>1. \A p \in 1 .. Len(s) : s2[p] = s[p] /\ link2[p] = link[p] /\ p \in 1 .. Len(s2)
  BY DEF Grown, Prolongs
<1> QED BY <1>1 DEF IsPoint

LEMMA FiledLonger ==
  ASSUME NEW s, NEW link, NEW label, NEW s2, NEW link2, NEW label2,
         Grown(s, link, label, s2, link2, label2), NEW a, NEW ops \in OpSeqs, NEW ps,
         Filed(s, link, label, a, ops, ps)
  PROVE  Filed(s2, link2, label2, a, ops, ps)
<1>1. /\ ps \in Seq(Nat) /\ Len(ps) = Len(ops)
      /\ \A k \in 1 .. Len(ops) : Stands(s, link, label, ops[k], ps[k])
      /\ \A k \in 1 .. Len(ops) - 1 : Follows(s, link, ops[k], ps[k], ps[k + 1])
      /\ ops # <<>> => IsPoint(s, link, a, ps[1])
  BY DEF Filed, Strip
<1>2. Len(ops) \in Nat /\ \A k \in 1 .. Len(ops) : ops[k] \in Operations
  BY DEF OpSeqs
<1>3. \A k \in 1 .. Len(ops) : Stands(s2, link2, label2, ops[k], ps[k])
  BY <1>1, <1>2, StandsLonger
<1>4. \A k \in 1 .. Len(ops) - 1 : Follows(s2, link2, ops[k], ps[k], ps[k + 1])
  <2> TAKE k \in 1 .. Len(ops) - 1
  <2>1. k \in 1 .. Len(ops)
    BY <1>2
  <2>2. ps[k] \in 1 .. Len(s)
    BY <1>1, <2>1 DEF Stands
  <2>3. Follows(s, link, ops[k], ps[k], ps[k + 1])
    BY <1>1
  <2> QED BY <2>2, <2>3, FollowsLonger
<1>5. ops # <<>> => IsPoint(s2, link2, a, ps[1])
  BY <1>1, IsPointLonger
<1> QED BY <1>1, <1>3, <1>4, <1>5 DEF Filed, Strip

LEMMA ReadyLonger ==
  ASSUME NEW s, NEW link, NEW label, NEW s2, NEW link2, NEW label2,
         Grown(s, link, label, s2, link2, label2), NEW a, NEW ops \in OpSeqs, NEW q,
         Ready(s, link, label, a, ops, q)
  PROVE  Ready(s2, link2, label2, a, ops, q)
<1>1. PICK ps : ReadyWith(s, link, label, a, ops, ps, q)
  BY DEF Ready
<1>2. Filed(s2, link2, label2, a, ops, ps)
  BY <1>1, FiledLonger DEF ReadyWith
<1>3. ops = <<>> => IsPoint(s2, link2, a, q)
  BY <1>1, IsPointLonger DEF ReadyWith
<1>4. ops # <<>> /\ ops[Len(ops)].kind \notin Terminators =>
        Follows(s2, link2, ops[Len(ops)], ps[Len(ops)], q)
  <2> SUFFICES ASSUME ops # <<>>, ops[Len(ops)].kind \notin Terminators
               PROVE  Follows(s2, link2, ops[Len(ops)], ps[Len(ops)], q)
    OBVIOUS
  <2>1. Len(ops) \in 1 .. Len(ops)
    BY DEF OpSeqs
  <2>2. ps[Len(ops)] \in 1 .. Len(s)
    BY <1>1, <2>1 DEF ReadyWith, Filed, Strip, Stands
  <2>3. Follows(s, link, ops[Len(ops)], ps[Len(ops)], q)
    BY <1>1 DEF ReadyWith
  <2> QED BY <2>2, <2>3, FollowsLonger
<1> QED BY <1>2, <1>3, <1>4 DEF ReadyWith, Ready

\* What was written stays in place when the body and the blocks grow.
LEMMA WrittenLonger ==
  ASSUME NEW s, NEW link, NEW label, NEW s2, NEW link2, NEW label2,
         Grown(s, link, label, s2, link2, label2), NEW bs, Written(s, link, label, bs),
         NEW b \in 1 .. Len(bs)
  PROVE  \E ps : Filed(s2, link2, label2, label2[b], bs[b].ops, ps)
<1>1. PICK ps : Filed(s, link, label, label[b], bs[b].ops, ps)
  BY DEF Written
<1>2. bs[b].ops \in OpSeqs /\ label2[b] = label[b]
  <2>1. bs[b] \in Blocks
    BY DEF Written
  <2> QED BY <2>1 DEF Blocks, Written, Grown, Prolongs
<1> QED BY <1>1, <1>2, FiledLonger

-----------------------------------------------------------------------------
(* Blocks are written.                                                        *)

\* Every block is filed, and what comes next in block c stands where token q is.
WrittenTo(s, link, label, bs, c, q) ==
  /\ Written(s, link, label, bs) /\ c \in 1 .. Len(bs)
  /\ Ready(s, link, label, label[c], bs[c].ops, q)

LEMMA NothingFiled ==
  ASSUME NEW s, NEW link, NEW label, NEW a
  PROVE  Filed(s, link, label, a, <<>>, <<>>)
<1>1. <<>> \in Seq(Nat) /\ Len(<<>>) = 0 /\ 1 .. Len(<<>>) = {} /\ 1 .. Len(<<>>) - 1 = {}
  OBVIOUS
<1> QED BY <1>1 DEF Filed, Strip

\* A block with no operation yet is ready for the point it was made for.
LEMMA WrittenMove ==
  ASSUME NEW s, NEW link, NEW label, NEW bs, Written(s, link, label, bs),
         NEW b \in 1 .. Len(bs), bs[b].ops = <<>>, NEW q, IsPoint(s, link, label[b], q)
  PROVE  WrittenTo(s, link, label, bs, b, q)
<1>1. ReadyWith(s, link, label, label[b], <<>>, <<>>, q)
  BY NothingFiled DEF ReadyWith
<1> QED BY <1>1 DEF Ready, WrittenTo

\* Behind a terminator comes nothing.
LEMMA WrittenEnded ==
  ASSUME NEW s, NEW link, NEW label, NEW bs, NEW c, NEW q,
         WrittenTo(s, link, label, bs, c, q), Ends(bs[c].ops), NEW r
  PROVE  WrittenTo(s, link, label, bs, c, r)
<1>1. PICK ps : ReadyWith(s, link, label, label[c], bs[c].ops, ps, q)
  BY DEF WrittenTo, Ready
<1>2. ReadyWith(s, link, label, label[c], bs[c].ops, ps, r)
  BY <1>1 DEF ReadyWith, Ends
<1> QED BY <1>2 DEF WrittenTo, Ready

LEMMA WrittenOps ==
  ASSUME NEW s, NEW link, NEW label, NEW bs, Written(s, link, label, bs), NEW c \in 1 .. Len(bs)
  PROVE  bs[c].ops \in OpSeqs
<1>1. bs[c] \in Blocks
  BY DEF Written
<1> QED BY <1>1 DEF Blocks

\* The body and the blocks grow.
LEMMA WrittenFresh ==
  ASSUME NEW s, NEW link, NEW label, NEW s2, NEW link2, NEW label2,
         Grown(s, link, label, s2, link2, label2), NEW bs, NEW c, NEW q,
         WrittenTo(s, link, label, bs, c, q),
         NEW n \in Nat, label2 \in Seq(Points), Len(label2) = Len(label) + n
  PROVE  WrittenTo(s2, link2, label2, bs \o Fresh(n), c, q)
<1> DEFINE bt == bs \o Fresh(n)
<1>1. /\ Written(s, link, label, bs) /\ c \in 1 .. Len(bs) /\ bs \in Seq(Blocks)
      /\ Len(label) = Len(bs) /\ Len(bs) \in Nat
  BY DEF WrittenTo, Written
<1>2. /\ bt \in Seq(Blocks) /\ Len(bt) = Len(bs) + n
      /\ \A b \in 1 .. Len(bs) : bt[b] = bs[b]
      /\ \A b \in Len(bs) + 1 .. Len(bs) + n : bt[b].ops = <<>>
  BY <1>1, FreshBlocks
<1> HIDE DEF bt
<1>3. ASSUME NEW b \in 1 .. Len(bt)
      PROVE  \E ps : Filed(s2, link2, label2, label2[b], bt[b].ops, ps)
  <2>1. CASE b \in 1 .. Len(bs)
    BY <1>1, <1>2, <2>1, WrittenLonger
  <2>2. CASE b \in Len(bs) + 1 .. Len(bs) + n
    BY <1>2, <2>2, NothingFiled
  <2> QED BY <1>1, <1>2, <2>1, <2>2
<1>4. Written(s2, link2, label2, bt)
  BY <1>1, <1>2, <1>3 DEF Written
<1>5. Ready(s2, link2, label2, label[c], bs[c].ops, q)
  BY <1>1, WrittenOps, ReadyLonger DEF WrittenTo
<1>6. label2[c] = label[c] /\ bt[c] = bs[c] /\ c \in 1 .. Len(bt)
  BY <1>1, <1>2 DEF Grown, Prolongs
<1> QED BY <1>4, <1>5, <1>6 DEF WrittenTo, bt

LEMMA WrittenGrows ==
  ASSUME NEW s, NEW link, NEW label, NEW s2, NEW link2,
         Grown(s, link, label, s2, link2, label), NEW bs, NEW c, NEW q,
         WrittenTo(s, link, label, bs, c, q)
  PROVE  WrittenTo(s2, link2, label, bs, c, q)
<1>1. \A b \in 1 .. Len(bs) : \E ps : Filed(s2, link2, label, label[b], bs[b].ops, ps)
  BY WrittenLonger DEF WrittenTo
<1>2. Ready(s2, link2, label, label[c], bs[c].ops, q)
  BY WrittenOps, ReadyLonger DEF WrittenTo
<1> QED BY <1>1, <1>2 DEF WrittenTo, Written

\* A row is put behind block c.
LEMMA WrittenWith ==
  ASSUME NEW s, NEW link, NEW label, NEW bs, NEW c, NEW q, WrittenTo(s, link, label, bs, c, q),
         ~Ends(bs[c].ops), NEW e \in OpSeqs, NEW r, RowTo(s, link, label, e, q, r)
  PROVE  WrittenTo(s, link, label, With(bs, c, e), c, r)
<1> DEFINE bt == With(bs, c, e)
<1>1. /\ Written(s, link, label, bs) /\ c \in 1 .. Len(bs) /\ bs \in Seq(Blocks)
      /\ Ready(s, link, label, label[c], bs[c].ops, q) /\ bs[c].ops \in OpSeqs
  BY WrittenOps DEF WrittenTo, Written
<1>2. /\ bt \in Seq(Blocks) /\ Len(bt) = Len(bs) /\ bt[c].ops = bs[c].ops \o e
      /\ \A b \in 1 .. Len(bs) : b # c => bt[b] = bs[b]
  BY <1>1, WithBlocks
<1> HIDE DEF bt
<1>3. Ready(s, link, label, label[c], bt[c].ops, r)
  BY <1>1, <1>2, ReadyRow
<1>4. \E ps : Filed(s, link, label, label[c], bt[c].ops, ps)
  BY <1>3 DEF Ready, ReadyWith
<1>5. Written(s, link, label, bt)
  BY <1>1, <1>2, <1>4 DEF Written
<1> QED BY <1>1, <1>2, <1>3, <1>5 DEF WrittenTo, bt

\* Only the operations of blocks count.
LEMMA WrittenSame ==
  ASSUME NEW s, NEW link, NEW label, NEW bs, NEW c, NEW q, WrittenTo(s, link, label, bs, c, q),
         NEW bt \in Seq(Blocks), Len(bt) = Len(bs), \A b \in 1 .. Len(bs) : bt[b].ops = bs[b].ops
  PROVE  WrittenTo(s, link, label, bt, c, q)
BY DEF WrittenTo, Written

-----------------------------------------------------------------------------
(* The rows generation puts behind blocks.                                    *)

LEMMA AllocaTo ==
  ASSUME NEW s, NEW link, NEW label, NEW q \in 1 .. Len(s), q \in Nat,
         s[q].kind \notin {"else", "end", "break", "continue"}
  PROVE  RowTo(s, link, label, <<Alloca>>, q, q)
<1>1. /\ Alloca \in Operations /\ Alloca.kind = "alloca" /\ Alloca.token = 0
  BY DEF Alloca, Op, Operations, Kinds, Reaches
<1>2. Stands(s, link, label, Alloca, q) /\ Follows(s, link, Alloca, q, q)
  BY <1>1 DEF Stands, Follows, Terminators
<1> QED BY <1>1, <1>2, RowToSingle

LEMMA MaterializeTo ==
  ASSUME NEW s, NEW link, NEW label, NEW q \in 1 .. Len(s), q \in Nat,
         s[q].kind \notin {"else", "end", "break", "continue"},
         NEW e \in OpSeqs, NEW r, RowTo(s, link, label, e, q, r),
         NEW front, front \in {<<>>, <<Alloca>>}
  PROVE  RowTo(s, link, label, front \o e, q, r)
<1>1. CASE front = <<>>
  <2>1. <<>> \o e = e
    BY DEF OpSeqs
  <2> QED BY <1>1, <2>1
<1>2. CASE front = <<Alloca>>
  <2> DEFINE a == <<Alloca>>
  <2>1. RowTo(s, link, label, a, q, q) /\ a \in OpSeqs
    BY AllocaTo, AllocaOp
  <2>2. a[Len(a)].kind \notin Terminators
    BY AllocaOp DEF Ends
  <2> HIDE DEF a
  <2>3. RowTo(s, link, label, a \o e, q, r)
    BY <2>1, <2>2, RowToJoin
  <2> QED BY <1>2, <2>3 DEF a
<1> QED BY <1>1, <1>2

\* A branch that executes no token.
LEMMA BranchTo ==
  ASSUME NEW s, NEW link, NEW label, NEW q \in 1 .. Len(s), q \in Nat,
         s[q].kind \in LoopKinds \cup {"break", "continue", "else", "end"},
         s[q].kind \notin LoopKinds => link[q] \in 1 .. Len(s),
         NEW b \in Nat, b \in 1 .. Len(label), label[b] = BranchPoint(s, link, q), NEW r
  PROVE  RowTo(s, link, label, <<Branch(b)>>, q, r)
<1>1. /\ Branch(b) \in Operations /\ Branch(b).kind = "br" /\ Branch(b).token = 0
      /\ Branch(b).to[1] = b
  <2>1. Branch(b) \in Operations /\ Branch(b).kind = "br" /\ Branch(b).to = <<b>>
    BY BranchOp
  <2>2. Branch(b).token = 0
    BY DEF Branch, Op
  <2> QED BY <2>1, <2>2
<1> DEFINE op == Branch(b)
<1> HIDE DEF op
<1>2. /\ op \in Operations /\ op.kind = "br" /\ op.token = 0 /\ op.to[1] = b
  BY <1>1 DEF op
<1>3. Stands(s, link, label, op, q) /\ op.kind \in Terminators
  BY <1>2 DEF Stands, Terminators, LoopKinds
<1>4. RowTo(s, link, label, <<op>>, q, r)
  BY <1>2, <1>3, RowToSingle
<1> QED BY <1>4 DEF op

\* The insertion block goes on to b.
LEMMA WrittenContinued ==
  ASSUME NEW s, NEW link, NEW label, NEW bs, NEW c, NEW q, WrittenTo(s, link, label, bs, c, q),
         NEW b \in Nat, \A r : RowTo(s, link, label, <<Branch(b)>>, q, r), NEW r
  PROVE  WrittenTo(s, link, label, Continued(bs, c, b), c, r)
<1>1. CASE Ends(bs[c].ops)
  BY <1>1, WrittenEnded DEF Continued
<1>2. CASE ~Ends(bs[c].ops)
  <2>1. <<Branch(b)>> \in OpSeqs /\ RowTo(s, link, label, <<Branch(b)>>, q, r)
    BY BranchOp
  <2>2. WrittenTo(s, link, label, With(bs, c, <<Branch(b)>>), c, r)
    BY <1>2, <2>1, WrittenWith
  <2> QED BY <1>2, <2>2 DEF Continued
<1> QED BY <1>1, <1>2

\* A statement, an increment or a return.
LEMMA PlainTo ==
  ASSUME NEW s, NEW link, NEW label, NEW q \in 1 .. Len(s), q \in Nat,
         NEW kind \in {"stmt", "return"}, NEW u \in Reaches, NEW r,
         kind = "return" => s[q].kind \in {"return", "finish"},
         kind = "stmt" =>
           \/ s[q].kind = "stmt" /\ r = q + 1
           \/ /\ s[q].kind = "end" /\ link[q] \in 1 .. Len(s) /\ s[link[q]].kind \in LoopKinds
              /\ s[link[q]].rest /\ r = link[q]
  PROVE  RowTo(s, link, label, <<Op(kind, q, <<>>, u)>>, q, r)
<1> DEFINE op == Op(kind, q, <<>>, u)
<1>1. op \in Operations /\ op.kind = kind /\ op.token = q
  BY DEF Op, Operations, Kinds, Reaches
<1> HIDE DEF op
<1>2. Stands(s, link, label, op, q)
  BY <1>1 DEF Stands
<1>3. op.kind \notin Terminators => Follows(s, link, op, q, r)
  BY <1>1 DEF Follows, Terminators
<1>4. RowTo(s, link, label, <<op>>, q, r)
  BY <1>1, <1>2, <1>3, RowToSingle
<1> QED BY <1>4 DEF op

\* A test.
LEMMA TestTo ==
  ASSUME NEW s, NEW link, NEW label, NEW q \in 1 .. Len(s), q \in Nat, s[q].kind \in Heads, s[q].test,
         NEW u \in Reaches, NEW b \in Nat, NEW c \in Nat,
         b \in 1 .. Len(label), c \in 1 .. Len(label), label[b] = <<q, "in">>,
         label[c] = <<q, IF s[q].kind = "if" /\ s[q].rest THEN "else" ELSE "behind">>, NEW r
  PROVE  RowTo(s, link, label, <<CondBranch(q, u, b, c)>>, q, r)
<1> DEFINE op == CondBranch(q, u, b, c)
<1>1. /\ op \in Operations /\ op.kind = "cond_br" /\ op.token = q /\ op.to[1] = b /\ op.to[2] = c
  BY DEF CondBranch, Op, Operations, Kinds, Reaches
<1> HIDE DEF op
<1>2. Stands(s, link, label, op, q) /\ op.kind \in Terminators
  BY <1>1 DEF Stands, Terminators, Heads, LoopKinds
<1>3. RowTo(s, link, label, <<op>>, q, r)
  BY <1>1, <1>2, RowToSingle
<1> QED BY <1>3 DEF op

\* The header of a for loop without a test.
LEMMA AlwaysTo ==
  ASSUME NEW s, NEW link, NEW label, NEW q \in 1 .. Len(s), q \in Nat, s[q].kind = "for", ~s[q].test,
         NEW b \in Nat, b \in 1 .. Len(label), label[b] = <<q, "in">>, NEW r
  PROVE  RowTo(s, link, label, <<[Branch(b) EXCEPT !.token = q]>>, q, r)
<1> DEFINE op == [Branch(b) EXCEPT !.token = q]
<1>1. /\ op \in Operations /\ op.kind = "br" /\ op.token = q /\ op.to[1] = b
  <2>1. Branch(b) \in Operations /\ Branch(b).kind = "br" /\ Branch(b).to = <<b>>
    BY BranchOp
  <2> QED BY <2>1 DEF Operations
<1> HIDE DEF op
<1>2. Stands(s, link, label, op, q) /\ op.kind \in Terminators
  BY <1>1 DEF Stands, Terminators
<1>3. RowTo(s, link, label, <<op>>, q, r)
  BY <1>1, <1>2, RowToSingle
<1> QED BY <1>3 DEF op

-----------------------------------------------------------------------------
(* The body while it is generated: every construct is closed, or it is open   *)
(* and the frame of its activation is on `nest`.                              *)

At(label, b, a) == b \in 1 .. Len(label) /\ label[b] = a

\* The frame f at depth d is that of the construct begun with token t, and its
\* blocks are made for the points of that construct.
FrameAt(s, link, label, t, f, d) ==
  /\ t \in 1 .. Len(s) /\ s[t].kind = IF IsLoop(f) THEN f.kind ELSE "if"
  /\ s[t].depth = d /\ s[t].rest = f.rest
  /\ \A k \in t + 1 .. Len(s) : \/ s[k].depth > d
                                \/ f.kind = "else" /\ s[k].kind = "else" /\ link[k] = t
  /\ At(label, f.merge, <<t, "behind">>)
  /\ f.kind = "then" /\ f.rest => At(label, f.next, <<t, "else">>)
  /\ IsLoop(f) => /\ At(label, f.next, <<t, "self">>)
                  /\ At(label, Targets(f).continue, Round(s, t))

\* A construct begun with token t is open or closed; open is where the
\* constructs of the frames ns begin.
Begun(s, link, open, ns, t) ==
  s[t].kind \in Heads =>
    /\ (\E m \in 1 .. Len(ns) : open[m] = t) \/ (\E j : Closes(s, link, j, "end", t))
    /\ s[t].kind = "if" /\ s[t].rest =>
         \/ \E m \in 1 .. Len(ns) : open[m] = t /\ ns[m].kind = "then"
         \/ \E j : Closes(s, link, j, "else", t)

Layout(s, link, open, label, ns) ==
  /\ Linked(s, link) /\ label \in Seq(Points)
  /\ ns \in Seq(Frames) /\ open \in Seq(Nat) /\ Len(open) = Len(ns)
  /\ \A t \in 1 .. Len(s) : Begun(s, link, open, ns, t)
  /\ \A m \in 1 .. Len(ns) : FrameAt(s, link, label, open[m], ns[m], m - 1)

\* The token x was added, linked to l.
Added(s, link, x, l, s2, link2) ==
  /\ Linked(s, link) /\ Len(s) \in Nat /\ Len(link) = Len(s)
  /\ s2 \in Seq(Tokens) /\ link2 \in Seq(Nat) /\ Len(s2) = Len(s) + 1 /\ Len(link2) = Len(s2)
  /\ x.depth \in Nat /\ s2[Len(s) + 1] = x /\ link2[Len(s) + 1] = l
  /\ \A j \in 1 .. Len(s) : s2[j] = s[j] /\ link2[j] = link[j]

LEMMA Adding ==
  ASSUME NEW s, NEW link, Linked(s, link), NEW x \in Tokens, x.depth \in Nat, NEW l \in Nat
  PROVE  Added(s, link, x, l, Append(s, x), Append(link, l))
<1>1. s \in Seq(Tokens) /\ link \in Seq(Nat) /\ Len(link) = Len(s)
  BY DEF Linked
<1> DEFINE s2 == Append(s, x)
           link2 == Append(link, l)
<1>2. /\ s2 \in Seq(Tokens) /\ Len(s2) = Len(s) + 1 /\ s2[Len(s) + 1] = x /\ Len(s) \in Nat
      /\ \A j \in 1 .. Len(s) : s2[j] = s[j]
  BY <1>1
<1>3. /\ link2 \in Seq(Nat) /\ Len(link2) = Len(link) + 1 /\ link2[Len(link) + 1] = l
      /\ \A j \in 1 .. Len(link) : link2[j] = link[j]
  BY <1>1
<1> HIDE DEF s2, link2
<1>4. Added(s, link, x, l, s2, link2)
  BY <1>1, <1>2, <1>3 DEF Added
<1> QED BY <1>4 DEF s2, link2

LEMMA AddedGrown ==
  ASSUME NEW s, NEW link, NEW x, NEW l, NEW s2, NEW link2, Added(s, link, x, l, s2, link2),
         NEW label, NEW label2, Prolongs(label2, label)
  PROVE  Grown(s, link, label, s2, link2, label2)
BY DEF Added, Grown, Prolongs

LEMMA LinkedMore ==
  ASSUME NEW s, NEW link, NEW x, NEW l, NEW s2, NEW link2, Added(s, link, x, l, s2, link2),
         ClosesOwn(s2, link2, Len(s) + 1), LeavesOwn(s2, link2, Len(s) + 1)
  PROVE  Linked(s2, link2)
<1>1. ASSUME NEW j \in 1 .. Len(s2)
      PROVE  s2[j].depth \in Nat /\ ClosesOwn(s2, link2, j) /\ LeavesOwn(s2, link2, j)
  <2>1. CASE j = Len(s) + 1
    BY <2>1 DEF Added
  <2>2. CASE j \in 1 .. Len(s)
    <3>1. s[j].depth \in Nat /\ ClosesOwn(s, link, j) /\ LeavesOwn(s, link, j)
      BY <2>2 DEF Added, Linked
    <3>2. /\ s2[j] = s[j] /\ link2[j] = link[j] /\ Len(s) \in Nat
          /\ \A k \in 1 .. j : s2[k] = s[k] /\ link2[k] = link[k]
      BY <2>2 DEF Added
    <3>3. ClosesOwn(s2, link2, j)
      BY <2>2, <3>1, <3>2, SMTT(30) DEF ClosesOwn
    <3>4. LeavesOwn(s2, link2, j)
      <4> SUFFICES ASSUME s[j].kind \in {"break", "continue"}
                   PROVE  /\ link[j] \in 1 .. j - 1 /\ s2[link[j]].kind \in LoopKinds
                          /\ \A k \in link[j] + 1 .. j : s2[k].depth > s2[link[j]].depth
                          /\ \A m \in link[j] + 1 .. j - 1 : s2[m].kind \in LoopKinds =>
                               \E e \in m + 1 .. j - 1 : s2[e].kind = "end" /\ link2[e] = m
        BY <3>2 DEF LeavesOwn
      <4>1. /\ link[j] \in 1 .. j - 1 /\ s[link[j]].kind \in LoopKinds
            /\ \A k \in link[j] + 1 .. j : s[k].depth > s[link[j]].depth
            /\ \A m \in link[j] + 1 .. j - 1 : s[m].kind \in LoopKinds =>
                 \E e \in m + 1 .. j - 1 : s[e].kind = "end" /\ link[e] = m
        BY <3>1 DEF LeavesOwn
      <4>2. /\ \A k \in link[j] .. j : s2[k] = s[k]
            /\ \A m \in link[j] + 1 .. j - 1 : \A e \in m + 1 .. j - 1 : s2[e] = s[e] /\ link2[e] = link[e]
        BY <2>2, <3>2, <4>1
      <4>3. ASSUME NEW m \in link[j] + 1 .. j - 1, s2[m].kind \in LoopKinds
            PROVE  \E e \in m + 1 .. j - 1 : s2[e].kind = "end" /\ link2[e] = m
        <5>1. s[m].kind \in LoopKinds
          BY <2>2, <3>2, <4>1, <4>3
        <5>2. PICK e \in m + 1 .. j - 1 : s[e].kind = "end" /\ link[e] = m
          BY <4>1, <4>3, <5>1
        <5> QED BY <4>2, <4>3, <5>2
      <4>4. \A k \in link[j] + 1 .. j : s2[k].depth > s2[link[j]].depth
        <5>1. \A k \in link[j] + 1 .. j : s2[k] = s[k]
          BY <2>2, <3>2, <4>1
        <5>2. s2[link[j]] = s[link[j]]
          BY <2>2, <3>2, <4>1
        <5> QED BY <4>1, <5>1, <5>2
      <4> QED BY <2>2, <3>2, <4>1, <4>3, <4>4
    <3> QED BY <3>1, <3>2, <3>3, <3>4
  <2> QED BY <2>1, <2>2 DEF Added
<1> QED BY <1>1 DEF Added, Linked

LEMMA ClosesMore ==
  ASSUME NEW s, NEW link, NEW x, NEW l, NEW s2, NEW link2, Added(s, link, x, l, s2, link2),
         NEW j, NEW kind, NEW i \in 1 .. Len(s)
  PROVE  /\ Closes(s, link, j, kind, i) => Closes(s2, link2, j, kind, i)
         /\ x.kind = kind /\ l = i => Closes(s2, link2, Len(s) + 1, kind, i)
<1>1. /\ Len(s) \in Nat /\ Len(s2) = Len(s) + 1
      /\ s2[Len(s) + 1] = x /\ link2[Len(s) + 1] = l
      /\ \A k \in 1 .. Len(s) : s2[k] = s[k] /\ link2[k] = link[k]
  BY DEF Added
<1> QED BY <1>1 DEF Closes

\* A frame stays in place when what is added belongs to its construct.
LEMMA FrameMore ==
  ASSUME NEW s, NEW link, NEW x, NEW l, NEW s2, NEW link2, Added(s, link, x, l, s2, link2),
         NEW label, NEW label2, Prolongs(label2, label),
         NEW t, NEW f, NEW d, FrameAt(s, link, label, t, f, d),
         \/ x.depth > d
         \/ f.kind = "else" /\ x.kind = "else" /\ l = t
  PROVE  FrameAt(s2, link2, label2, t, f, d)
<1>1. /\ Len(s) \in Nat /\ Len(s2) = Len(s) + 1
      /\ s2[Len(s) + 1] = x /\ link2[Len(s) + 1] = l
      /\ \A k \in 1 .. Len(s) : s2[k] = s[k] /\ link2[k] = link[k]
  BY DEF Added
<1>2. t \in 1 .. Len(s) /\ s2[t] = s[t] /\ t \in 1 .. Len(s2) /\ Round(s2, t) = Round(s, t)
  BY <1>1 DEF FrameAt, Round
<1>3. \A b, a : At(label, b, a) => At(label2, b, a)
  BY DEF At, Prolongs
<1>4. \A k \in t + 1 .. Len(s2) : \/ s2[k].depth > d
                                  \/ f.kind = "else" /\ s2[k].kind = "else" /\ link2[k] = t
  <2> TAKE k \in t + 1 .. Len(s2)
  <2>1. k \in t + 1 .. Len(s) \/ k = Len(s) + 1
    BY <1>1, <1>2
  <2>2. CASE k \in t + 1 .. Len(s)
    BY <1>1, <1>2, <2>2 DEF FrameAt
  <2>3. CASE k = Len(s) + 1
    BY <1>1, <2>3
  <2> QED BY <2>1, <2>2, <2>3
<1>5. /\ At(label2, f.merge, <<t, "behind">>)
      /\ f.kind = "then" /\ f.rest => At(label2, f.next, <<t, "else">>)
      /\ IsLoop(f) => /\ At(label2, f.next, <<t, "self">>)
                      /\ At(label2, Targets(f).continue, Round(s2, t))
  BY <1>2, <1>3 DEF FrameAt
<1> QED BY <1>2, <1>4, <1>5 DEF FrameAt

\* What a layout says of open constructs.
LEMMA LayoutFacts ==
  ASSUME NEW s, NEW link, NEW open, NEW label, NEW ns, Layout(s, link, open, label, ns)
  PROVE  /\ Linked(s, link) /\ Len(s) \in Nat /\ Len(ns) \in Nat /\ Len(open) = Len(ns)
         /\ label \in Seq(Points) /\ ns \in Seq(Frames) /\ open \in Seq(Nat)
         /\ \A t \in 1 .. Len(s) : s[t].depth \in Nat /\ Begun(s, link, open, ns, t)
         /\ \A m \in 1 .. Len(ns) : FrameAt(s, link, label, open[m], ns[m], m - 1)
BY DEF Layout, Linked

\* A construct that was open or closed before is so still.
LEMMA BegunMore ==
  ASSUME NEW s, NEW link, NEW x, NEW l, NEW s2, NEW link2, Added(s, link, x, l, s2, link2),
         NEW open, NEW ns, NEW open2, NEW ns2,
         NEW t \in 1 .. Len(s), Begun(s, link, open, ns, t),
         \A m \in 1 .. Len(ns) : open[m] = t =>
           /\ (\E i \in 1 .. Len(ns2) : open2[i] = t) \/ (\E j : Closes(s2, link2, j, "end", t))
           /\ ns[m].kind = "then" /\ s[t].kind = "if" /\ s[t].rest =>
                \/ \E i \in 1 .. Len(ns2) : open2[i] = t /\ ns2[i].kind = "then"
                \/ \E j : Closes(s2, link2, j, "else", t)
  PROVE  Begun(s2, link2, open2, ns2, t)
<1>1. s2[t] = s[t]
  BY DEF Added
<1>2. \A j, kind : Closes(s, link, j, kind, t) => Closes(s2, link2, j, kind, t)
  BY ClosesMore
<1>3. ASSUME s[t].kind \in Heads
      PROVE  (\E i \in 1 .. Len(ns2) : open2[i] = t) \/ (\E j : Closes(s2, link2, j, "end", t))
  BY <1>2, <1>3 DEF Begun
<1>4. ASSUME s[t].kind = "if" /\ s[t].rest
      PROVE  \/ \E i \in 1 .. Len(ns2) : open2[i] = t /\ ns2[i].kind = "then"
             \/ \E j : Closes(s2, link2, j, "else", t)
  BY <1>2, <1>4 DEF Begun, Heads
<1> QED BY <1>1, <1>3, <1>4 DEF Begun

\* A statement or an item left out.
LEMMA LayoutPlain ==
  ASSUME NEW s, NEW link, NEW open, NEW label, NEW ns, Layout(s, link, open, label, ns),
         NEW x, NEW l, NEW s2, NEW link2, Added(s, link, x, l, s2, link2), x.depth = Len(ns),
         x.kind \notin Heads \cup {"else", "end"},
         LeavesOwn(s2, link2, Len(s) + 1)
  PROVE  Layout(s2, link2, open, label, ns)
<1>1. /\ Len(s) \in Nat /\ Len(s2) = Len(s) + 1 /\ s2[Len(s) + 1] = x
      /\ \A j \in 1 .. Len(s) : s2[j] = s[j]
  BY DEF Added
<1>2. Linked(s2, link2)
  BY <1>1, LinkedMore DEF ClosesOwn
<1>3. ASSUME NEW t \in 1 .. Len(s2)
      PROVE  Begun(s2, link2, open, ns, t)
  <2>1. CASE t = Len(s) + 1
    BY <1>1, <2>1 DEF Begun
  <2>2. CASE t \in 1 .. Len(s)
    <3>1. Begun(s, link, open, ns, t)
      BY <2>2, LayoutFacts
    <3> QED BY <2>2, <3>1, BegunMore
  <2> QED BY <1>1, <2>1, <2>2
<1>4. \A m \in 1 .. Len(ns) : FrameAt(s2, link2, label, open[m], ns[m], m - 1)
  <2> TAKE m \in 1 .. Len(ns)
  <2>1. Prolongs(label, label) /\ x.depth > m - 1 /\ FrameAt(s, link, label, open[m], ns[m], m - 1)
    BY LayoutFacts DEF Prolongs
  <2> QED BY <2>1, FrameMore
<1> QED BY <1>2, <1>3, <1>4 DEF Layout

\* A break or continue, linked to the innermost loop.
LEMMA LayoutJump ==
  ASSUME NEW s, NEW link, NEW open, NEW label, NEW ns, Layout(s, link, open, label, ns),
         NEW x, NEW l, NEW s2, NEW link2, Added(s, link, x, l, s2, link2), x.depth = Len(ns),
         x.kind \in {"break", "continue"},
         NEW i \in 1 .. Len(ns), IsLoop(ns[i]), l = open[i],
         \A j \in 1 .. Len(ns) : IsLoop(ns[j]) => j <= i
  PROVE  Layout(s2, link2, open, label, ns) /\ l \in 1 .. Len(s) /\ s[l].kind \in LoopKinds
<1>1. /\ Len(s) \in Nat /\ Len(s2) = Len(s) + 1 /\ s2[Len(s) + 1] = x /\ link2[Len(s) + 1] = l
      /\ \A j \in 1 .. Len(s) : s2[j] = s[j] /\ link2[j] = link[j]
  BY DEF Added
<1>2. FrameAt(s, link, label, l, ns[i], i - 1) /\ Len(ns) \in Nat
  BY LayoutFacts
<1>3. /\ l \in 1 .. Len(s) /\ s[l].kind \in LoopKinds /\ s[l].depth = i - 1
      /\ \A k \in l + 1 .. Len(s) : s[k].depth > i - 1
  BY <1>2 DEF FrameAt, IsLoop, LoopKinds
<1>4. \A k \in l + 1 .. Len(s) + 1 : s2[k].depth > s2[l].depth
  <2> TAKE k \in l + 1 .. Len(s) + 1
  <2>1. CASE k = Len(s) + 1
    BY <1>1, <1>2, <1>3, <2>1
  <2>2. CASE k \in l + 1 .. Len(s)
    BY <1>1, <1>3, <2>2
  <2> QED BY <1>1, <1>3, <2>1, <2>2
<1>5. ASSUME NEW m \in l + 1 .. Len(s), s[m].kind \in LoopKinds
      PROVE  \E e \in m + 1 .. Len(s) : s[e].kind = "end" /\ link[e] = m
  <2>1. m \in 1 .. Len(s) /\ s[m].depth > i - 1
    BY <1>1, <1>3
  <2>2. ~\E n \in 1 .. Len(ns) : open[n] = m
    <3> SUFFICES ASSUME NEW n \in 1 .. Len(ns), open[n] = m PROVE FALSE
      OBVIOUS
    <3>1. FrameAt(s, link, label, m, ns[n], n - 1)
      BY LayoutFacts
    <3>2. s[m].depth = n - 1 /\ IsLoop(ns[n])
      BY <1>5, <3>1 DEF FrameAt, LoopKinds
    <3> QED BY <1>2, <2>1, <3>2
  <2>3. Begun(s, link, open, ns, m)
    BY <2>1, LayoutFacts
  <2>4. PICK e : Closes(s, link, e, "end", m)
    BY <1>5, <2>2, <2>3 DEF Begun, Heads
  <2> QED BY <2>4 DEF Closes
<1>6. LeavesOwn(s2, link2, Len(s) + 1)
  <2> DEFINE n == Len(s) + 1
  <2>1. n - 1 = Len(s) /\ l \in 1 .. n - 1 /\ l + 1 .. n - 1 = l + 1 .. Len(s)
    BY <1>1, <1>3
  <2>2. s2[n] = x /\ link2[n] = l /\ s2[l].kind \in LoopKinds
    BY <1>1, <1>3
  <2>3. ASSUME NEW m \in l + 1 .. Len(s), s2[m].kind \in LoopKinds
        PROVE  \E e \in m + 1 .. Len(s) : s2[e].kind = "end" /\ link2[e] = m
    <3>1. m \in 1 .. Len(s) /\ s2[m] = s[m]
      BY <1>1, <1>3
    <3>2. PICK e \in m + 1 .. Len(s) : s[e].kind = "end" /\ link[e] = m
      BY <1>5, <2>3, <3>1
    <3> QED BY <1>1, <3>1, <3>2
  <2> HIDE DEF n
  <2>4. \A k \in l + 1 .. n : s2[k].depth > s2[l].depth
    BY <1>4 DEF n
  <2>5. \A m \in l + 1 .. n - 1 : s2[m].kind \in LoopKinds =>
          \E e \in m + 1 .. n - 1 : s2[e].kind = "end" /\ link2[e] = m
    BY <2>1, <2>3
  <2>6. LeavesOwn(s2, link2, n)
    BY <2>1, <2>2, <2>4, <2>5 DEF LeavesOwn
  <2> QED BY <2>6 DEF n
<1>7. x.kind \notin Heads \cup {"else", "end"}
  BY DEF Heads, LoopKinds
<1> QED BY <1>3, <1>6, <1>7, LayoutPlain

\* A construct is begun.
LEMMA LayoutHead ==
  ASSUME NEW s, NEW link, NEW open, NEW label, NEW ns, Layout(s, link, open, label, ns),
         NEW x, NEW l, NEW s2, NEW link2, Added(s, link, x, l, s2, link2), x.depth = Len(ns),
         x.kind \in Heads, NEW label2 \in Seq(Points), Prolongs(label2, label),
         NEW f \in Frames, FrameAt(s2, link2, label2, Len(s) + 1, f, Len(ns)), f.kind # "else"
  PROVE  Layout(s2, link2, Append(open, Len(s) + 1), label2, Append(ns, f))
<1> DEFINE open2 == Append(open, Len(s) + 1)
           ns2   == Append(ns, f)
<1>1. /\ Len(s) \in Nat /\ Len(s2) = Len(s) + 1 /\ s2[Len(s) + 1] = x
      /\ \A j \in 1 .. Len(s) : s2[j] = s[j]
  BY DEF Added
<1>2. /\ open \in Seq(Nat) /\ ns \in Seq(Frames) /\ Len(open) = Len(ns) /\ Len(ns) \in Nat
  BY LayoutFacts
<1>3. /\ open2 \in Seq(Nat) /\ Len(open2) = Len(ns) + 1 /\ open2[Len(ns) + 1] = Len(s) + 1
      /\ \A m \in 1 .. Len(ns) : open2[m] = open[m]
  BY <1>1, <1>2
<1>4. /\ ns2 \in Seq(Frames) /\ Len(ns2) = Len(ns) + 1 /\ ns2[Len(ns) + 1] = f
      /\ \A m \in 1 .. Len(ns) : ns2[m] = ns[m]
  BY <1>2
<1> HIDE DEF open2, ns2
<1>5. Linked(s2, link2)
  BY <1>1, LinkedMore DEF ClosesOwn, LeavesOwn, Heads, LoopKinds
<1>6. ASSUME NEW t \in 1 .. Len(s2)
      PROVE  Begun(s2, link2, open2, ns2, t)
  <2>1. CASE t = Len(s) + 1
    <3>1. Len(ns) + 1 \in 1 .. Len(ns2) /\ open2[Len(ns) + 1] = t /\ ns2[Len(ns) + 1] = f
      BY <1>2, <1>3, <1>4, <2>1
    <3>2. s2[t].kind = "if" => f.kind = "then"
      BY <2>1 DEF FrameAt, IsLoop, Frames
    <3> QED BY <3>1, <3>2 DEF Begun
  <2>2. CASE t \in 1 .. Len(s)
    <3>1. Begun(s, link, open, ns, t)
      BY <2>2, LayoutFacts
    <3>2. \A m \in 1 .. Len(ns) : m \in 1 .. Len(ns2) /\ open2[m] = open[m] /\ ns2[m] = ns[m]
      BY <1>2, <1>3, <1>4
    <3> QED BY <2>2, <3>1, <3>2, BegunMore
  <2> QED BY <1>1, <2>1, <2>2
<1>7. \A m \in 1 .. Len(ns2) : FrameAt(s2, link2, label2, open2[m], ns2[m], m - 1)
  <2> TAKE m \in 1 .. Len(ns2)
  <2>1. CASE m = Len(ns) + 1
    <3>1. m - 1 = Len(ns)
      BY <1>2, <2>1
    <3> QED BY <1>3, <1>4, <2>1, <3>1
  <2>2. CASE m \in 1 .. Len(ns)
    <3>1. x.depth > m - 1 /\ FrameAt(s, link, label, open[m], ns[m], m - 1)
      BY <1>2, <2>2, LayoutFacts
    <3>2. FrameAt(s2, link2, label2, open[m], ns[m], m - 1)
      BY <3>1, FrameMore
    <3> QED BY <1>3, <1>4, <2>2, <3>2
  <2> QED BY <1>2, <1>4, <2>1, <2>2
<1>8. Layout(s2, link2, open2, label2, ns2)
  BY <1>3, <1>4, <1>5, <1>6, <1>7 DEF Layout
<1> QED BY <1>8 DEF open2, ns2

\* What is known of the innermost construct.
LEMMA InnermostAt ==
  ASSUME NEW s, NEW link, NEW open, NEW label, NEW ms \in Seq(Frames), NEW f \in Frames,
         Layout(s, link, open, label, Append(ms, f))
  PROVE  /\ Len(ms) \in Nat /\ Len(open) = Len(ms) + 1 /\ Len(open) > 0 /\ open \in Seq(Nat)
         /\ FrameAt(s, link, label, open[Len(open)], f, Len(ms))
         /\ open[Len(open)] \in 1 .. Len(s)
         /\ \A m \in 1 .. Len(ms) : FrameAt(s, link, label, open[m], ms[m], m - 1)
<1> DEFINE ns == Append(ms, f)
<1>1. /\ Len(ns) = Len(ms) + 1 /\ ns[Len(ms) + 1] = f /\ Len(ms) \in Nat
      /\ \A m \in 1 .. Len(ms) : ns[m] = ms[m]
  OBVIOUS
<1>2. Layout(s, link, open, label, ns)
  OBVIOUS
<1> HIDE DEF ns
<1>3. /\ Len(open) = Len(ns) /\ open \in Seq(Nat)
      /\ \A m \in 1 .. Len(ns) : FrameAt(s, link, label, open[m], ns[m], m - 1)
  BY <1>2, LayoutFacts
<1>4. FrameAt(s, link, label, open[Len(open)], f, Len(ms))
  <2>1. Len(open) \in 1 .. Len(ns) /\ Len(open) - 1 = Len(ms) /\ ns[Len(open)] = f
    BY <1>1, <1>3
  <2>2. FrameAt(s, link, label, open[Len(open)], ns[Len(open)], Len(open) - 1)
    BY <1>3, <2>1
  <2> QED BY <2>1, <2>2
<1>5. \A m \in 1 .. Len(ms) : FrameAt(s, link, label, open[m], ms[m], m - 1)
  <2> TAKE m \in 1 .. Len(ms)
  <2>1. m \in 1 .. Len(ns) /\ ns[m] = ms[m]
    BY <1>1
  <2> QED BY <1>3, <2>1
<1> QED BY <1>1, <1>3, <1>4, <1>5 DEF FrameAt

\* The then part of an if with an else ends, and the else part begins.
LEMMA LayoutElse ==
  ASSUME NEW s, NEW link, NEW open, NEW label, NEW ms \in Seq(Frames), NEW f \in Frames,
         Layout(s, link, open, label, Append(ms, f)), f.kind = "then", f.rest,
         NEW x, NEW s2, NEW link2, Added(s, link, x, open[Len(open)], s2, link2),
         x.depth = Len(ms), x.kind = "else",
         NEW g \in Frames, g.kind = "else", g.next = f.next, g.merge = f.merge, g.rest = f.rest
  PROVE  Layout(s2, link2, open, label, Append(ms, g))
<1> DEFINE n == Len(ms) + 1
           ns == Append(ms, f)
           ns2 == Append(ms, g)
           l == open[Len(open)]
<1>1. /\ Len(ms) \in Nat /\ Len(open) = n /\ open \in Seq(Nat) /\ l \in 1 .. Len(s)
      /\ FrameAt(s, link, label, l, f, Len(ms))
      /\ \A m \in 1 .. Len(ms) : FrameAt(s, link, label, open[m], ms[m], m - 1)
  BY InnermostAt
<1>2. Len(ns) = n /\ ns[n] = f /\ \A m \in 1 .. Len(ms) : ns[m] = ms[m]
  OBVIOUS
<1>3. ns2 \in Seq(Frames) /\ Len(ns2) = n /\ ns2[n] = g /\ \A m \in 1 .. Len(ms) : ns2[m] = ms[m]
  OBVIOUS
<1>4. /\ Len(s) \in Nat /\ Len(s2) = Len(s) + 1 /\ s2[Len(s) + 1] = x /\ link2[Len(s) + 1] = l
      /\ \A j \in 1 .. Len(s) : s2[j] = s[j] /\ link2[j] = link[j]
  BY DEF Added
<1>5. Layout(s, link, open, label, ns) /\ Added(s, link, x, l, s2, link2) /\ l = open[n]
  BY <1>1
<1> HIDE DEF ns, ns2, l
<1>6. /\ s[l].kind = "if" /\ s[l].depth = Len(ms) /\ s[l].rest
      /\ \A k \in l + 1 .. Len(s) : s[k].depth > Len(ms)
  BY <1>1 DEF FrameAt, IsLoop
<1>7. Linked(s2, link2)
  <2>1. LeavesOwn(s2, link2, Len(s) + 1)
    BY <1>4 DEF LeavesOwn
  <2>2. ClosesOwn(s2, link2, Len(s) + 1)
    <3>1. l \in 1 .. (Len(s) + 1) - 1 /\ s2[l] = s[l]
      BY <1>1, <1>4
    <3>2. \A k \in l + 1 .. (Len(s) + 1) - 1 : s2[k].depth > Len(ms)
      BY <1>1, <1>4, <1>6
    <3> QED BY <1>4, <1>6, <3>1, <3>2 DEF ClosesOwn, Heads
  <2> QED BY <1>5, <2>1, <2>2, LinkedMore
<1>8. ASSUME NEW t \in 1 .. Len(s2)
      PROVE  Begun(s2, link2, open, ns2, t)
  <2>1. CASE t = Len(s) + 1
    BY <1>4, <2>1 DEF Begun, Heads, LoopKinds
  <2>2. CASE t \in 1 .. Len(s)
    <3>1. Begun(s, link, open, ns, t)
      BY <1>5, <2>2, LayoutFacts
    <3>2. ASSUME NEW m \in 1 .. Len(ns), open[m] = t
          PROVE  /\ \E i \in 1 .. Len(ns2) : open[i] = t
                 /\ ns[m].kind = "then" /\ s[t].kind = "if" /\ s[t].rest =>
                      \/ \E i \in 1 .. Len(ns2) : open[i] = t /\ ns2[i].kind = "then"
                      \/ \E j : Closes(s2, link2, j, "else", t)
      <4>1. CASE m = n
        <5>1. Closes(s2, link2, Len(s) + 1, "else", t)
          BY <1>4, <1>5, <2>2, <3>2, <4>1 DEF Closes
        <5> QED BY <1>2, <1>3, <3>2, <5>1
      <4>2. CASE m # n
        <5>1. m \in 1 .. Len(ms) /\ m \in 1 .. Len(ns2)
          BY <1>1, <1>2, <1>3, <4>2
        <5>2. ns2[m] = ns[m]
          BY <1>2, <1>3, <5>1
        <5> QED BY <3>2, <5>1, <5>2, Zenon
      <4> QED BY <4>1, <4>2
    <3> QED BY <1>5, <2>2, <3>1, <3>2, BegunMore
  <2> QED BY <1>4, <2>1, <2>2
<1>9. \A m \in 1 .. Len(ns2) : FrameAt(s2, link2, label, open[m], ns2[m], m - 1)
  <2> TAKE m \in 1 .. Len(ns2)
  <2>0. Prolongs(label, label)
    BY <1>5 DEF Prolongs, Layout
  <2>1. CASE m = n
    <3>1. FrameAt(s, link, label, l, g, Len(ms))
      BY <1>1 DEF FrameAt, IsLoop
    <3>2. FrameAt(s2, link2, label, l, g, Len(ms))
      BY <1>5, <2>0, <3>1, FrameMore
    <3> QED BY <1>1, <1>3, <1>5, <2>1, <3>2
  <2>2. CASE m # n
    <3>1. m \in 1 .. Len(ms) /\ x.depth > m - 1 /\ ns2[m] = ms[m]
      BY <1>1, <1>3, <2>2
    <3>2. FrameAt(s, link, label, open[m], ms[m], m - 1)
      BY <1>1, <3>1
    <3>3. FrameAt(s2, link2, label, open[m], ms[m], m - 1)
      BY <1>5, <2>0, <3>1, <3>2, FrameMore
    <3> QED BY <3>1, <3>3
  <2> QED BY <2>1, <2>2
<1>10. Layout(s2, link2, open, label, ns2)
  BY <1>1, <1>3, <1>5, <1>7, <1>8, <1>9, LayoutFacts DEF Layout
<1> QED BY <1>10 DEF ns2

\* The innermost construct ends.
LEMMA LayoutEnd ==
  ASSUME NEW s, NEW link, NEW open, NEW label, NEW ms \in Seq(Frames), NEW f \in Frames,
         Layout(s, link, open, label, Append(ms, f)), f.kind = "then" => ~f.rest,
         NEW x, NEW s2, NEW link2, Added(s, link, x, open[Len(open)], s2, link2),
         x.depth = Len(ms), x.kind = "end"
  PROVE  Layout(s2, link2, Popped(open), label, ms)
<1> DEFINE n == Len(ms) + 1
           ns == Append(ms, f)
           l == open[Len(open)]
           open2 == Popped(open)
<1>1. /\ Len(ms) \in Nat /\ Len(open) = n /\ open \in Seq(Nat) /\ l \in 1 .. Len(s)
      /\ FrameAt(s, link, label, l, f, Len(ms))
      /\ \A m \in 1 .. Len(ms) : FrameAt(s, link, label, open[m], ms[m], m - 1)
  BY InnermostAt
<1>2. Len(ns) = n /\ ns[n] = f /\ \A m \in 1 .. Len(ms) : ns[m] = ms[m]
  OBVIOUS
<1>3. open2 \in Seq(Nat) /\ Len(open2) = Len(ms) /\ \A m \in 1 .. Len(ms) : open2[m] = open[m]
  <2>1. open # <<>>
    BY <1>1
  <2>2. /\ open2 \in Seq(Nat) /\ Len(open2) = Len(open) - 1
        /\ \A m \in 1 .. Len(open) - 1 : open2[m] = open[m]
    BY <1>1, <2>1, PoppedShape
  <2> HIDE DEF open2
  <2> QED BY <1>1, <2>2
<1>4. /\ Len(s) \in Nat /\ Len(s2) = Len(s) + 1 /\ s2[Len(s) + 1] = x /\ link2[Len(s) + 1] = l
      /\ \A j \in 1 .. Len(s) : s2[j] = s[j] /\ link2[j] = link[j]
  BY DEF Added
<1>5. Layout(s, link, open, label, ns) /\ Added(s, link, x, l, s2, link2) /\ l = open[n]
  BY <1>1
<1> HIDE DEF ns, l, open2
<1>6. /\ s[l].kind \in Heads /\ s[l].depth = Len(ms) /\ s[l].rest = f.rest
      /\ \A k \in l + 1 .. Len(s) : s[k].depth > Len(ms) \/ (s[k].kind = "else" /\ link[k] = l)
  BY <1>1 DEF FrameAt, IsLoop, Heads, LoopKinds
<1>7. Linked(s2, link2)
  <2>1. LeavesOwn(s2, link2, Len(s) + 1)
    BY <1>4 DEF LeavesOwn
  <2>2. ClosesOwn(s2, link2, Len(s) + 1)
    <3>1. l \in 1 .. (Len(s) + 1) - 1 /\ s2[l] = s[l]
      BY <1>1, <1>4
    <3>2. \A k \in l + 1 .. (Len(s) + 1) - 1 : s2[k].depth > Len(ms) \/ (s2[k].kind = "else" /\ link2[k] = l)
      <4> TAKE k \in l + 1 .. (Len(s) + 1) - 1
      <4>1. k \in l + 1 .. Len(s) /\ k \in 1 .. Len(s)
        BY <1>1, <1>4
      <4>2. s2[k] = s[k] /\ link2[k] = link[k]
        BY <1>4, <4>1
      <4> QED BY <1>6, <4>1, <4>2
    <3> QED BY <1>4, <1>6, <3>1, <3>2 DEF ClosesOwn
  <2> QED BY <1>5, <2>1, <2>2, LinkedMore
<1>8. ASSUME NEW t \in 1 .. Len(s2)
      PROVE  Begun(s2, link2, open2, ms, t)
  <2>1. CASE t = Len(s) + 1
    BY <1>4, <2>1 DEF Begun, Heads, LoopKinds
  <2>2. CASE t \in 1 .. Len(s)
    <3>1. Begun(s, link, open, ns, t)
      BY <1>5, <2>2, LayoutFacts
    <3>2. ASSUME NEW m \in 1 .. Len(ns), open[m] = t
          PROVE  /\ (\E i \in 1 .. Len(ms) : open2[i] = t) \/ (\E j : Closes(s2, link2, j, "end", t))
                 /\ ns[m].kind = "then" /\ s[t].kind = "if" /\ s[t].rest =>
                      \/ \E i \in 1 .. Len(ms) : open2[i] = t /\ ms[i].kind = "then"
                      \/ \E j : Closes(s2, link2, j, "else", t)
      <4>1. CASE m = n
        <5>1. Closes(s2, link2, Len(s) + 1, "end", t)
          BY <1>4, <1>5, <2>2, <3>2, <4>1 DEF Closes
        <5>2. ~(ns[m].kind = "then" /\ s[t].rest)
          BY <1>2, <1>5, <1>6, <3>2, <4>1
        <5> QED BY <5>1, <5>2
      <4>2. CASE m # n
        <5>1. m \in 1 .. Len(ms) /\ open2[m] = t /\ ms[m] = ns[m]
          BY <1>1, <1>2, <1>3, <3>2, <4>2
        <5> QED BY <5>1
      <4> QED BY <4>1, <4>2
    <3> QED BY <1>5, <2>2, <3>1, <3>2, BegunMore
  <2> QED BY <1>4, <2>1, <2>2
<1>9. \A m \in 1 .. Len(ms) : FrameAt(s2, link2, label, open2[m], ms[m], m - 1)
  <2> TAKE m \in 1 .. Len(ms)
  <2>0. Prolongs(label, label)
    BY <1>5 DEF Prolongs, Layout
  <2>1. x.depth > m - 1 /\ FrameAt(s, link, label, open[m], ms[m], m - 1)
    BY <1>1
  <2>2. FrameAt(s2, link2, label, open[m], ms[m], m - 1)
    BY <1>5, <2>0, <2>1, FrameMore
  <2> QED BY <1>3, <2>2
<1>10. label \in Seq(Points)
  BY <1>5 DEF Layout
<1>11. Layout(s2, link2, open2, label, ms)
  BY <1>3, <1>7, <1>8, <1>9, <1>10 DEF Layout
<1> QED BY <1>11 DEF open2

\* With no construct open, the body is whole.
LEMMA LayoutWhole ==
  ASSUME NEW s, NEW link, NEW open, NEW label, Layout(s, link, open, label, <<>>),
         Len(s) > 0, s[Len(s)].kind = "finish"
  PROVE  Whole(s, link)
<1>1. ASSUME NEW i \in 1 .. Len(s), s[i].kind \in Heads
      PROVE  /\ \E j : Closes(s, link, j, "end", i)
             /\ s[i].kind = "if" /\ s[i].rest => \E j : Closes(s, link, j, "else", i)
  <2>1. Begun(s, link, open, <<>>, i) /\ 1 .. Len(<<>>) = {}
    BY LayoutFacts
  <2> QED BY <1>1, <2>1 DEF Begun
<1> QED BY <1>1 DEF Whole, Layout

-----------------------------------------------------------------------------
(* The blocks bs are generated faithfully from the body s so far: block c is  *)
(* where its next token stands.                                               *)

Faithful(s, link, open, label, bs, c, ns) ==
  /\ Layout(s, link, open, label, ns)
  /\ label[1] = <<0, "in">>
  /\ WrittenTo(s, link, label, bs, c, Len(s) + 1)

LEMMA FaithfulAdded ==
  ASSUME NEW s, NEW link, NEW open, NEW label, NEW bs, NEW c, NEW ns,
         Faithful(s, link, open, label, bs, c, ns),
         NEW x, NEW l, NEW s2, NEW link2, Added(s, link, x, l, s2, link2)
  PROVE  /\ WrittenTo(s2, link2, label, bs, c, Len(s2))
         /\ Len(s2) \in 1 .. Len(s2) /\ Len(s2) \in Nat /\ s2[Len(s2)] = x /\ link2[Len(s2)] = l
         /\ Len(s2) = Len(s) + 1 /\ \A j \in 1 .. Len(s) : j \in 1 .. Len(s2) /\ s2[j] = s[j]
<1>1. Len(s) \in Nat /\ Len(s2) = Len(s) + 1 /\ s2[Len(s) + 1] = x /\ link2[Len(s) + 1] = l
      /\ \A j \in 1 .. Len(s) : s2[j] = s[j]
  BY DEF Added
<1>2. Grown(s, link, label, s2, link2, label)
  <2>1. Prolongs(label, label)
    BY DEF Faithful, Layout, Prolongs
  <2> QED BY <2>1, AddedGrown
<1>3. WrittenTo(s2, link2, label, bs, c, Len(s) + 1)
  BY <1>2, WrittenGrows DEF Faithful
<1> QED BY <1>1, <1>3

\* A row is put behind the insertion block.
LEMMA FaithfulRow ==
  ASSUME NEW s, NEW link, NEW open, NEW label, NEW bs, NEW c, NEW ns,
         Faithful(s, link, open, label, bs, c, ns),
         NEW x, NEW l, NEW s2, NEW link2, Added(s, link, x, l, s2, link2),
         Layout(s2, link2, open, label, ns),
         ~Ends(bs[c].ops), NEW e \in OpSeqs, RowTo(s2, link2, label, e, Len(s2), Len(s2) + 1)
  PROVE  Faithful(s2, link2, open, label, With(bs, c, e), c, ns)
<1>1. WrittenTo(s2, link2, label, bs, c, Len(s2)) /\ label[1] = <<0, "in">>
  BY FaithfulAdded DEF Faithful
<1>2. WrittenTo(s2, link2, label, With(bs, c, e), c, Len(s2) + 1)
  BY <1>1, WrittenWith
<1> QED BY <1>1, <1>2 DEF Faithful

\* An item is left out.
LEMMA FaithfulLeft ==
  ASSUME NEW s, NEW link, NEW open, NEW label, NEW bs, NEW c, NEW ns,
         Faithful(s, link, open, label, bs, c, ns),
         NEW x, NEW l, NEW s2, NEW link2, Added(s, link, x, l, s2, link2),
         Layout(s2, link2, open, label, ns), Ends(bs[c].ops)
  PROVE  Faithful(s2, link2, open, label, bs, c, ns)
<1>1. WrittenTo(s2, link2, label, bs, c, Len(s2)) /\ label[1] = <<0, "in">>
  BY FaithfulAdded DEF Faithful
<1>2. WrittenTo(s2, link2, label, bs, c, Len(s2) + 1)
  BY <1>1, WrittenEnded
<1> QED BY <1>1, <1>2 DEF Faithful

\* The fields of tokens.
LEMMA TokenFields ==
  ASSUME Len(nest) \in Nat,
         NEW kind \in {"stmt", "dead", "break", "continue", "return", "if", "else", "end",
                       "while", "for", "finish"},
         NEW test \in BOOLEAN, NEW rest \in BOOLEAN, NEW use \in {"none", "read", "assign"}
  PROVE  /\ Token(kind, test, rest, use) \in Tokens
         /\ Token(kind, test, rest, use).kind = kind
         /\ Token(kind, test, rest, use).depth = Len(nest)
         /\ Token(kind, test, rest, use).test = test
         /\ Token(kind, test, rest, use).rest = rest
BY DEF Token, Tokens

LEMMA PlainFields ==
  ASSUME Len(nest) \in Nat,
         NEW kind \in {"stmt", "dead", "break", "continue", "return", "finish"},
         NEW use \in {"none", "read", "assign"}
  PROVE  /\ Token(kind, FALSE, FALSE, use) \in Tokens
         /\ Token(kind, FALSE, FALSE, use).kind = kind
         /\ Token(kind, FALSE, FALSE, use).depth = Len(nest)
<1>1. PICK no \in BOOLEAN : no = FALSE
  OBVIOUS
<1>2. Token(kind, FALSE, FALSE, use) = [kind |-> kind, depth |-> Len(nest), test |-> no,
                                        rest |-> no, use |-> use]
  BY <1>1, Zenon DEF Token
<1> DEFINE x == Token(kind, FALSE, FALSE, use)
<1>3. x = [kind |-> kind, depth |-> Len(nest), test |-> no, rest |-> no, use |-> use]
  BY <1>2
<1> HIDE DEF x
<1>4. x \in Tokens /\ x.kind = kind /\ x.depth = Len(nest)
  BY <1>3 DEF Tokens
<1> QED BY <1>4 DEF x

LEMMA ClosingFields ==
  ASSUME Len(nest) \in Nat \ {0}, NEW kind \in {"else", "end"},
         NEW use \in {"none", "read", "assign"}
  PROVE  /\ Closing(kind) \in Tokens /\ Closing(kind).kind = kind
         /\ Closing(kind).depth = Len(nest) - 1
         /\ [Closing(kind) EXCEPT !.use = use] \in Tokens
         /\ [Closing(kind) EXCEPT !.use = use].kind = kind
         /\ [Closing(kind) EXCEPT !.use = use].depth = Len(nest) - 1
<1>1. PICK no \in BOOLEAN : no = FALSE
  OBVIOUS
<1>2. Closing(kind) = [kind |-> kind, depth |-> Len(nest) - 1, test |-> no, rest |-> no,
                       use |-> "none"]
  BY <1>1, Zenon DEF Closing
<1>3. Len(nest) - 1 \in Int
  OBVIOUS
<1> QED BY <1>2, <1>3 DEF Tokens

LEMMA ConcatOps ==
  ASSUME NEW d \in OpSeqs, NEW e \in OpSeqs
  PROVE  d \o e \in OpSeqs
BY DEF OpSeqs

\* A token that begins and closes nothing.
LEMMA PlainAdded ==
  ASSUME Generated, NEW link, NEW open, NEW label,
         Faithful(source, link, open, label, blocks, cur, nest),
         NEW x \in Tokens, x.depth = Len(nest), x.kind \in {"stmt", "return", "dead", "finish"}
  PROVE  /\ Added(source, link, x, 0, Append(source, x), Append(link, 0))
         /\ Layout(Append(source, x), Append(link, 0), open, label, nest)
<1> DEFINE s2 == Append(source, x)
           link2 == Append(link, 0)
<1>0. Len(nest) \in Nat
  BY GeneratedTypes
<1>3. Layout(source, link, open, label, nest) /\ Linked(source, link)
  BY DEF Faithful, Layout
<1>4. Added(source, link, x, 0, s2, link2)
  <2>1. x.depth \in Nat /\ 0 \in Nat
    BY <1>0
  <2> QED BY <1>3, <2>1, Adding
<1> HIDE DEF s2, link2
<1>5. Layout(s2, link2, open, label, nest)
  <2>1. x.kind \notin Heads \cup {"else", "end"}
    BY DEF Heads, LoopKinds
  <2>2. LeavesOwn(s2, link2, Len(source) + 1)
    BY <1>4 DEF LeavesOwn, Added
  <2> QED BY <1>3, <1>4, <2>1, <2>2, LayoutPlain
<1> QED BY <1>4, <1>5 DEF s2, link2

LEMMA FaithfulDead ==
  ASSUME Generated, NEW link, NEW open, NEW label,
         Faithful(source, link, open, label, blocks, cur, nest), Terminated(blocks, cur),
         NEW kind \in {"dead", "finish"}
  PROVE  Faithful(Append(source, Token(kind, FALSE, FALSE, "none")), Append(link, 0), open, label,
                  blocks, cur, nest)
<1> DEFINE x == Token(kind, FALSE, FALSE, "none")
           s2 == Append(source, x)
           link2 == Append(link, 0)
<1>1. Ends(blocks[cur].ops)
  BY GeneratedTypes
<1>2. x \in Tokens /\ x.kind = kind /\ x.depth = Len(nest)
  BY GeneratedTypes, PlainFields
<1> HIDE DEF x
<1>3. Added(source, link, x, 0, s2, link2) /\ Layout(s2, link2, open, label, nest)
  BY <1>2, PlainAdded
<1> HIDE DEF s2, link2
<1>4. Faithful(s2, link2, open, label, blocks, cur, nest)
  BY <1>1, <1>3, FaithfulLeft
<1> QED BY <1>4 DEF s2, link2, x

\* A statement or a return.
LEMMA FaithfulPlain ==
  ASSUME Generated, NEW link, NEW open, NEW label,
         Faithful(source, link, open, label, blocks, cur, nest),
         NEW kind \in {"stmt", "return"}, NEW u \in family.uses, ~Terminated(blocks, cur)
  PROVE  Faithful(Append(source, Token(kind, FALSE, FALSE, u)), Append(link, 0), open, label,
                  With(blocks, cur, Lazily(u) \o
                         <<Op(kind, Len(source) + 1, <<>>, Access(u, stored))>>), cur, nest)
<1> DEFINE x == Token(kind, FALSE, FALSE, u)
           s2 == Append(source, x)
           link2 == Append(link, 0)
           r == Access(u, stored)
           front == Lazily(u)
           op == <<Op(kind, Len(source) + 1, <<>>, r)>>
<1>0. /\ Len(source) + 1 \in Nat /\ Len(nest) \in Nat /\ stored \in BOOLEAN
      /\ u \in {"none", "read", "assign"} /\ ~Ends(blocks[cur].ops)
  BY GeneratedTypes
<1>2. x \in Tokens /\ x.kind = kind /\ x.depth = Len(nest)
  BY <1>0, PlainFields, ZenonT(30)
<1>3. r \in Reaches
  <2>1. CASE u = "none"
    BY <2>1, Zenon DEF Access, Reaches
  <2>2. CASE u = "read"
    BY <2>2, Zenon DEF Access, Reaches
  <2>3. CASE u = "assign"
    BY <2>3, Zenon DEF Access, Reaches
  <2> QED BY <1>0, <2>1, <2>2, <2>3
<1>4. front \in {<<>>, <<Alloca>>}
  BY Zenon DEF Lazily
<1>5. op \in OpSeqs
  BY <1>0, <1>3 DEF Op, OpSeqs, Operations, Kinds
<1>6. front \o op \in OpSeqs
  <2> HIDE DEF front, op
  <2>1. front \in OpSeqs
    <3>1. <<Alloca>> \in OpSeqs /\ <<>> \in OpSeqs
      BY AllocaOp DEF OpSeqs
    <3> QED BY <1>4, <3>1
  <2> QED BY <1>5, <2>1, ConcatOps
<1> HIDE DEF x, front
<1>7. Added(source, link, x, 0, s2, link2) /\ Layout(s2, link2, open, label, nest)
  BY <1>2, PlainAdded
<1> HIDE DEF s2, link2, r, op
<1>10. RowTo(s2, link2, label, front \o op, Len(s2), Len(s2) + 1)
  <2>1. /\ Len(s2) \in 1 .. Len(s2) /\ Len(s2) \in Nat /\ s2[Len(s2)] = x
        /\ Len(s2) = Len(source) + 1
    BY <1>7, FaithfulAdded
  <2> DEFINE q == Len(s2)
  <2>2. s2[q].kind = kind /\ op = <<Op(kind, q, <<>>, r)>> /\ q \in Nat /\ q \in 1 .. Len(s2)
    BY <1>2, <2>1 DEF op
  <2> HIDE DEF q
  <2>3. RowTo(s2, link2, label, <<Op(kind, q, <<>>, r)>>, q, q + 1)
    BY <1>3, <2>2, PlainTo
  <2>4. RowTo(s2, link2, label, op, q, q + 1)
    BY <2>2, <2>3
  <2>5. RowTo(s2, link2, label, front \o op, q, q + 1)
    BY <1>4, <1>5, <2>2, <2>4, MaterializeTo
  <2> QED BY <2>5 DEF q
<1>11. Faithful(s2, link2, open, label, With(blocks, cur, front \o op), cur, nest)
  <2> DEFINE e == front \o op
  <2>1. e \in OpSeqs /\ RowTo(s2, link2, label, e, Len(s2), Len(s2) + 1)
    BY <1>6, <1>10
  <2> HIDE DEF e
  <2>2. Faithful(s2, link2, open, label, With(blocks, cur, e), cur, nest)
    BY <1>0, <1>7, <2>1, FaithfulRow
  <2> QED BY <2>2 DEF e
<1> QED BY <1>11 DEF s2, link2, x, front, op, r

\* The targets break and continue take are those of the innermost loop.
LEMMA InnermostLoop ==
  ASSUME NEW ns, NEW n, Nested(ns, n), NEW lt, LoopsMatch(ns, lt), lt # <<>>
  PROVE  \E i \in 1 .. Len(ns) :
           /\ IsLoop(ns[i]) /\ lt[Len(lt)] = Targets(ns[i])
           /\ \A j \in 1 .. Len(ns) : IsLoop(ns[j]) => j <= i
<1>1. lt \in Seq(TargetPairs) /\ Len(lt) \in 1 .. Len(lt) /\ Len(lt) \in Nat
  BY DEF LoopsMatch
<1>2. PICK i \in 1 .. Len(ns) : IsLoop(ns[i]) /\ lt[Len(lt)] = Targets(ns[i])
  BY <1>1 DEF LoopsMatch
<1>3. ASSUME NEW j \in 1 .. Len(ns), IsLoop(ns[j]), ~(j <= i)
      PROVE  FALSE
  <2>1. PICK k \in 1 .. Len(lt) : lt[k].break = ns[j].merge
    BY <1>3 DEF LoopsMatch
  <2>2. lt[Len(lt)].break = ns[i].merge
    BY <1>2, FrameTargets DEF Nested
  <2>3. i < j
    BY <1>3 DEF Nested
  <2>4. ns[i].merge < ns[j].next /\ FrameShape(ns[i]) /\ FrameShape(ns[j])
    BY <2>3 DEF Nested
  <2>5. ns[i].merge \in Nat /\ ns[j].next \in Nat /\ ns[j].merge \in Nat /\ ns[j].next <= ns[j].merge
    BY <2>4, FrameBounds
  <2>6. lt[k].break <= lt[Len(lt)].break
    <3>1. k = Len(lt) \/ k < Len(lt)
      BY <1>1
    <3>2. k < Len(lt) => lt[k].break < lt[Len(lt)].break
      BY <1>1 DEF LoopsMatch
    <3> QED BY <2>1, <2>2, <2>5, <3>1, <3>2
  <2> QED BY <2>1, <2>2, <2>4, <2>5, <2>6
<1> QED BY <1>2, <1>3

\* A break or continue.
LEMMA FaithfulJump ==
  ASSUME Generated, NEW link, NEW open, NEW label,
         Faithful(source, link, open, label, blocks, cur, nest),
         NEW kind \in {"break", "continue"}, ~Terminated(blocks, cur), loopTargets # <<>>,
         NEW target, kind = "break" => target = loopTargets[Len(loopTargets)].break,
         kind = "continue" => target = loopTargets[Len(loopTargets)].continue
  PROVE  \E l : Faithful(Append(source, Token(kind, FALSE, FALSE, "none")), Append(link, l),
                         open, label, With(blocks, cur, <<Branch(target)>>), cur, nest)
<1>0. ~Ends(blocks[cur].ops) /\ Len(nest) \in Nat /\ nest \in Seq(Frames)
  BY GeneratedTypes
<1>1. PICK i \in 1 .. Len(nest) :
           /\ IsLoop(nest[i]) /\ loopTargets[Len(loopTargets)] = Targets(nest[i])
           /\ \A j \in 1 .. Len(nest) : IsLoop(nest[j]) => j <= i
  <2>1. Nested(nest, Len(blocks)) /\ LoopsMatch(nest, loopTargets)
    BY DEF Generated, Emitted
  <2> QED BY <2>1, InnermostLoop
<1> DEFINE l == open[i]
           x == Token(kind, FALSE, FALSE, "none")
           s2 == Append(source, x)
           link2 == Append(link, l)
           f == nest[i]
<1>2. x \in Tokens /\ x.kind = kind /\ x.depth = Len(nest)
  BY <1>0, PlainFields
<1> HIDE DEF x
<1>3. Layout(source, link, open, label, nest) /\ Linked(source, link)
  BY DEF Faithful, Layout
<1>4. l \in Nat
  BY <1>0, <1>3 DEF Layout
<1>5. Added(source, link, x, l, s2, link2)
  <2>1. x.depth \in Nat
    BY <1>0, <1>2
  <2> HIDE DEF l
  <2> QED BY <1>2, <1>3, <1>4, <2>1, Adding
<1>6. FrameAt(source, link, label, l, f, i - 1)
  BY <1>3, LayoutFacts
<1> HIDE DEF s2, link2, l, f
<1>7. Layout(s2, link2, open, label, nest) /\ l \in 1 .. Len(source) /\ source[l].kind \in LoopKinds
  BY <1>1, <1>2, <1>3, <1>5, LayoutJump DEF l
<1> DEFINE q == Len(s2)
<1>8. /\ q \in 1 .. Len(s2) /\ q \in Nat /\ s2[q] = x /\ link2[q] = l
      /\ l \in 1 .. Len(s2) /\ s2[l] = source[l]
  BY <1>5, <1>7, FaithfulAdded
<1>9. At(label, target, BranchPoint(s2, link2, q))
  <2>1. At(label, f.merge, <<l, "behind">>) /\ At(label, Targets(f).continue, Round(source, l))
    BY <1>1, <1>6 DEF FrameAt, f
  <2>2. Targets(f).break = f.merge
    BY DEF Targets
  <2>3. CASE kind = "break"
    <3>1. BranchPoint(s2, link2, q) = <<l, "behind">>
      BY <1>2, <1>8, <2>3 DEF BranchPoint, LoopKinds
    <3> QED BY <1>1, <2>1, <2>2, <2>3, <3>1 DEF f
  <2>4. CASE kind = "continue"
    <3>1. BranchPoint(s2, link2, q) = Round(source, l)
      BY <1>2, <1>8, <2>4 DEF BranchPoint, LoopKinds, Round
    <3> QED BY <1>1, <2>1, <2>4, <3>1 DEF f
  <2> QED BY <2>3, <2>4
<1>10. target \in Nat /\ target \in 1 .. Len(label) /\ label[target] = BranchPoint(s2, link2, q)
  BY <1>9 DEF At
<1> HIDE DEF q
<1> DEFINE e == <<Branch(target)>>
<1>11. RowTo(s2, link2, label, e, q, q + 1)
  <2>1. s2[q].kind \in {"break", "continue"}
    BY <1>2, <1>8
  <2> QED BY <1>8, <1>10, <2>1, BranchTo
<1>12. e \in OpSeqs
  BY <1>10, BranchOp
<1> HIDE DEF e
<1>13. Faithful(s2, link2, open, label, With(blocks, cur, e), cur, nest)
  BY <1>0, <1>5, <1>7, <1>11, <1>12, FaithfulRow DEF q
<1> QED BY <1>13 DEF s2, link2, x, e

LEMMA ContinuedElsewhere ==
  ASSUME NEW bs \in Seq(Blocks), NEW c \in 1 .. Len(bs), NEW b \in Nat
  PROVE  /\ Continued(bs, c, b) \in Seq(Blocks) /\ Len(Continued(bs, c, b)) = Len(bs)
         /\ \A m \in 1 .. Len(bs) : m # c => Continued(bs, c, b)[m] = bs[m]
<1>1. CASE Ends(bs[c].ops)
  BY <1>1 DEF Continued
<1>2. CASE ~Ends(bs[c].ops)
  <2>1. <<Branch(b)>> \in OpSeqs
    BY BranchOp
  <2> DEFINE e == <<Branch(b)>>
             bt == With(bs, c, e)
  <2>2. bt \in Seq(Blocks) /\ Len(bt) = Len(bs) /\ \A m \in 1 .. Len(bs) : m # c => bt[m] = bs[m]
    <3> HIDE DEF e
    <3> QED BY <2>1, WithBlocks DEF e
  <2>3. Continued(bs, c, b) = bt
    BY <1>2 DEF Continued
  <2> HIDE DEF bt
  <2> QED BY <2>2, <2>3
<1> QED BY <1>1, <1>2

\* The token x closes the innermost construct, or a part of it.
ClosesTop(link, open, x, l, s2, link2, ms, f) ==
  /\ x \in Tokens /\ x.kind \in {"else", "end"} /\ x.depth = Len(nest) - 1
  /\ l = open[Len(open)] /\ s2 = Append(source, x) /\ link2 = Append(link, l)
  /\ nest # <<>> /\ ms = Popped(nest) /\ f = Top

LEMMA ClosingAdded ==
  ASSUME Generated, NEW link, NEW open, NEW label,
         Faithful(source, link, open, label, blocks, cur, nest),
         NEW x, NEW l, NEW s2, NEW link2, NEW ms, NEW f,
         ClosesTop(link, open, x, l, s2, link2, ms, f)
  PROVE  /\ Added(source, link, x, l, s2, link2) /\ Layout(source, link, open, label, Append(ms, f))
         /\ ms \in Seq(Frames) /\ f \in Frames /\ x.depth = Len(ms) /\ nest = Append(ms, f)
         /\ FrameAt(source, link, label, l, f, Len(ms)) /\ l \in Nat
         /\ l \in 1 .. Len(s2) /\ s2[l] = source[l]
<1>0. /\ x \in Tokens /\ x.kind \in {"else", "end"} /\ x.depth = Len(nest) - 1
      /\ l = open[Len(open)] /\ s2 = Append(source, x) /\ link2 = Append(link, l)
      /\ nest # <<>> /\ ms = Popped(nest) /\ f = Top
  BY DEF ClosesTop
<1>1. /\ nest = Append(ms, f) /\ ms \in Seq(Frames) /\ f \in Frames
  BY <1>0, TopOfNest
<1>2. Layout(source, link, open, label, nest) /\ Linked(source, link)
  BY DEF Faithful, Layout
<1>3. Layout(source, link, open, label, Append(ms, f))
  BY <1>1, <1>2
<1>4. /\ FrameAt(source, link, label, l, f, Len(ms)) /\ Len(ms) \in Nat /\ l \in 1 .. Len(source)
  BY <1>0, <1>1, <1>3, InnermostAt
<1>5. x.depth = Len(ms) /\ l \in Nat
  BY <1>0, <1>1, <1>4
<1>6. Added(source, link, x, l, s2, link2)
  <2>1. x.depth \in Nat
    BY <1>4, <1>5
  <2>2. Added(source, link, x, l, Append(source, x), Append(link, l))
    BY <1>0, <1>2, <1>5, <2>1, Adding
  <2> QED BY <1>0, <2>2
<1>7. l \in 1 .. Len(s2) /\ s2[l] = source[l]
  BY <1>4, <1>6, FaithfulAdded
<1> QED BY <1>1, <1>3, <1>4, <1>5, <1>6, <1>7

\* Control goes on to block b at the closing token.
LEMMA ClosingContinued ==
  ASSUME NEW s, NEW link, NEW open, NEW label, NEW bs, NEW c, NEW ns,
         Faithful(s, link, open, label, bs, c, ns),
         NEW x, NEW l, NEW s2, NEW link2, Added(s, link, x, l, s2, link2), l \in 1 .. Len(s2),
         x.kind \in {"else", "end"},
         NEW b, b \in Nat, At(label, b, BranchPoint(s2, link2, Len(s2)))
  PROVE  /\ WrittenTo(s2, link2, label, Continued(bs, c, b), c, 0)
         /\ Len(Continued(bs, c, b)) = Len(bs) /\ Len(label) = Len(bs)
         /\ \A m \in 1 .. Len(bs) : m # c => Continued(bs, c, b)[m] = bs[m]
<1> DEFINE q == Len(s2)
<1>1. /\ WrittenTo(s2, link2, label, bs, c, q) /\ q \in 1 .. Len(s2) /\ q \in Nat
      /\ s2[q].kind \in {"else", "end"} /\ link2[q] = l
  BY FaithfulAdded
<1>2. b \in 1 .. Len(label) /\ label[b] = BranchPoint(s2, link2, q)
  BY DEF At
<1> HIDE DEF q
<1>3. ASSUME NEW y
      PROVE  RowTo(s2, link2, label, <<Branch(b)>>, q, y)
  BY <1>1, <1>2, BranchTo
<1>4. WrittenTo(s2, link2, label, Continued(bs, c, b), c, 0)
  BY <1>1, <1>3, WrittenContinued
<1>5. bs \in Seq(Blocks) /\ c \in 1 .. Len(bs) /\ Len(label) = Len(bs)
  BY <1>1 DEF WrittenTo, Written
<1> QED BY <1>4, <1>5, ContinuedElsewhere

\* Generation moves on to an empty block.
LEMMA FaithfulMove ==
  ASSUME NEW s, NEW link, NEW open, NEW label, NEW bs, NEW ns, Layout(s, link, open, label, ns),
         label[1] = <<0, "in">>, NEW c, NEW r, WrittenTo(s, link, label, bs, c, r),
         NEW m \in 1 .. Len(bs), bs[m].ops = <<>>, IsPoint(s, link, label[m], Len(s) + 1)
  PROVE  Faithful(s, link, open, label, bs, m, ns)
<1>1. WrittenTo(s, link, label, bs, m, Len(s) + 1)
  BY WrittenMove DEF WrittenTo
<1> QED BY <1>1 DEF Faithful

\* The end of a then part.
LEMMA FaithfulThen ==
  ASSUME Generated, NEW link, NEW open, NEW label,
         Faithful(source, link, open, label, blocks, cur, nest), EndThen
  PROVE  \E link2, open2 : Faithful(source', link2, open2, label, blocks', cur', nest')
<1> DEFINE f == Top
           ms == Popped(nest)
           l  == open[Len(open)]
           kind == IF f.rest THEN "else" ELSE "end"
           x  == Closing(kind)
           s2 == Append(source, x)
           link2 == Append(link, l)
           bt == Continued(blocks, cur, f.merge)
<1>1. /\ nest # <<>> /\ f.kind = "then" /\ cur' = f.next /\ source' = s2
  BY DEF EndThen
<1>2. blocks' = bt
  BY ContinueIsContinued DEF EndThen
<1>3. x \in Tokens /\ x.kind = kind /\ x.depth = Len(nest) - 1
  <2>1. Len(nest) \in Nat \ {0}
    BY <1>1, GeneratedTypes
  <2>2. Closing("else") \in Tokens /\ Closing("else").kind = "else" /\ Closing("else").depth = Len(nest) - 1
    BY <2>1, ClosingFields
  <2>3. Closing("end") \in Tokens /\ Closing("end").kind = "end" /\ Closing("end").depth = Len(nest) - 1
    BY <2>1, ClosingFields
  <2> QED BY <2>2, <2>3
<1>4. /\ kind \in {"else", "end"} /\ (kind = "else" <=> f.rest) /\ (kind = "end" <=> ~f.rest)
  OBVIOUS
<1>5. FrameShape(f) /\ f.next \in Nat /\ f.merge \in Nat /\ f.next \in Pends(f)
  <2>1. FrameShape(f)
    BY <1>1, CloseTop
  <2> QED BY <1>1, <2>1, FrameBounds DEF Pends
<1>6. blocks[f.next].ops = <<>> /\ f.next # cur
  <2>1. Waiting(blocks, nest, cur) /\ Len(nest) \in 1 .. Len(nest)
    BY <1>1, GeneratedTypes DEF Generated, Emitted
  <2>2. f.next \in Pending(nest)
    BY <1>5, <2>1 DEF Pending, Top
  <2> QED BY <2>1, <2>2 DEF Waiting
<1>7. ~f.rest => nest' = ms
  BY DEF EndThen
<1> HIDE DEF kind, x
<1>h. ClosesTop(link, open, x, l, s2, link2, ms, f)
  BY <1>1, <1>3, <1>4 DEF ClosesTop
<1>l. l = open[Len(open)] /\ cur' = f.next /\ source' = s2 /\ blocks' = bt
  BY <1>1, <1>2
<1> HIDE DEF l, s2, link2, ms, f, bt
<1>9. /\ Added(source, link, x, l, s2, link2) /\ Layout(source, link, open, label, Append(ms, f))
      /\ ms \in Seq(Frames) /\ f \in Frames /\ x.depth = Len(ms) /\ nest = Append(ms, f)
      /\ FrameAt(source, link, label, l, f, Len(ms)) /\ l \in Nat
      /\ l \in 1 .. Len(s2) /\ s2[l] = source[l]
  BY <1>h, ClosingAdded
<1> DEFINE q == Len(s2)
<1>10. /\ q \in 1 .. Len(s2) /\ q \in Nat /\ s2[q] = x /\ link2[q] = l
  BY <1>9, FaithfulAdded
<1>11. /\ s2[l].kind = "if" /\ At(label, f.merge, <<l, "behind">>)
       /\ (f.rest => At(label, f.next, <<l, "else">>))
  BY <1>1, <1>9 DEF FrameAt, IsLoop
<1>12. BranchPoint(s2, link2, q) = <<l, "behind">>
  BY <1>3, <1>4, <1>10, <1>11 DEF BranchPoint, LoopKinds
<1>13. /\ WrittenTo(s2, link2, label, bt, cur, 0) /\ Len(bt) = Len(blocks) /\ Len(label) = Len(blocks)
       /\ \A m \in 1 .. Len(blocks) : m # cur => bt[m] = blocks[m]
  <2>1. At(label, f.merge, BranchPoint(s2, link2, Len(s2)))
    BY <1>11, <1>12
  <2>2. x.kind \in {"else", "end"}
    BY <1>3, <1>4
  <2> QED BY <1>5, <1>9, <2>1, <2>2, ClosingContinued DEF bt
<1>14. label[1] = <<0, "in">>
  BY DEF Faithful
<1>15. CASE ~f.rest
  <2>1. Layout(s2, link2, Popped(open), label, ms)
    BY <1>3, <1>4, <1>9, <1>15, <1>l, LayoutEnd
  <2>2. f.next = f.merge
    BY <1>1, <1>5, <1>15 DEF FrameShape
  <2>3. IsPoint(s2, link2, label[f.next], q + 1)
    <3>1. label[f.next] = <<l, "behind">> /\ (q + 1) - 1 = q /\ q + 1 \in Nat
      BY <1>10, <1>11, <2>2 DEF At
    <3> QED BY <1>3, <1>4, <1>10, <1>15, <3>1 DEF IsPoint
  <2>4. f.next \in 1 .. Len(bt) /\ bt[f.next].ops = <<>>
    BY <1>6, <1>11, <1>13, <2>2 DEF At
  <2>5. Faithful(s2, link2, Popped(open), label, bt, f.next, ms)
    BY <1>13, <1>14, <2>1, <2>3, <2>4, FaithfulMove DEF q
  <2> QED BY <1>l, <1>7, <1>15, <2>5
<1>16. CASE f.rest
  <2>2. PICK g \in Frames : /\ g.kind = "else" /\ g.next = f.next /\ g.merge = f.merge
                            /\ g.rest = f.rest /\ nest' = Append(ms, g)
    BY <1>16, ElseNest DEF f, ms
  <2>4. Layout(s2, link2, open, label, Append(ms, g))
    BY <1>1, <1>3, <1>4, <1>9, <1>16, <1>l, <2>2, LayoutElse
  <2>5. IsPoint(s2, link2, label[f.next], q + 1)
    <3>1. label[f.next] = <<l, "else">> /\ (q + 1) - 1 = q /\ q + 1 \in Nat
      BY <1>10, <1>11, <1>16 DEF At
    <3> QED BY <1>3, <1>4, <1>10, <1>16, <3>1 DEF IsPoint
  <2>6. f.next \in 1 .. Len(bt) /\ bt[f.next].ops = <<>>
    BY <1>6, <1>11, <1>13, <1>16 DEF At
  <2>7. Faithful(s2, link2, open, label, bt, f.next, Append(ms, g))
    BY <1>13, <1>14, <2>4, <2>5, <2>6, FaithfulMove DEF q
  <2> QED BY <1>l, <2>2, <2>7
<1> QED BY <1>15, <1>16

\* The innermost construct ends with token x.
EndsTop(link, open, label, x, l, s2, link2, ms, f) ==
  /\ Added(source, link, x, l, s2, link2) /\ Layout(s2, link2, Popped(open), label, ms)
  /\ Len(s2) \in 1 .. Len(s2) /\ Len(s2) \in Nat
  /\ s2[Len(s2)].kind = "end" /\ link2[Len(s2)] = l /\ x.kind = "end"
  /\ l \in Nat /\ l \in 1 .. Len(s2) /\ s2[l].kind = (IF IsLoop(f) THEN f.kind ELSE "if")
  /\ s2[l].rest = f.rest
  /\ At(label, f.merge, <<l, "behind">>) /\ IsPoint(s2, link2, <<l, "behind">>, Len(s2) + 1)
  /\ IsLoop(f) => /\ At(label, f.next, <<l, "self">>)
                  /\ At(label, Targets(f).continue, Round(s2, l))
  /\ f.merge \in Nat /\ f.merge # cur /\ blocks[f.merge].ops = <<>>

LEMMA EndAdded ==
  ASSUME Generated, NEW link, NEW open, NEW label,
         Faithful(source, link, open, label, blocks, cur, nest),
         NEW x, NEW l, NEW s2, NEW link2, NEW ms, NEW f,
         ClosesTop(link, open, x, l, s2, link2, ms, f), x.kind = "end", f.kind # "then"
  PROVE  EndsTop(link, open, label, x, l, s2, link2, ms, f)
<1>1. /\ Added(source, link, x, l, s2, link2) /\ Layout(source, link, open, label, Append(ms, f))
      /\ ms \in Seq(Frames) /\ f \in Frames /\ x.depth = Len(ms) /\ nest = Append(ms, f)
      /\ FrameAt(source, link, label, l, f, Len(ms)) /\ l \in Nat
      /\ l \in 1 .. Len(s2) /\ s2[l] = source[l]
  BY ClosingAdded
<1>2. Layout(s2, link2, Popped(open), label, ms)
  <2>1. l = open[Len(open)]
    BY DEF ClosesTop
  <2> QED BY <1>1, <2>1, LayoutEnd
<1>3. /\ Len(s2) \in 1 .. Len(s2) /\ Len(s2) \in Nat
      /\ s2[Len(s2)] = x /\ link2[Len(s2)] = l
  BY <1>1, FaithfulAdded
<1>4. /\ s2[l].kind = IF IsLoop(f) THEN f.kind ELSE "if"
      /\ s2[l].rest = f.rest
      /\ At(label, f.merge, <<l, "behind">>)
      /\ IsLoop(f) => /\ At(label, f.next, <<l, "self">>)
                      /\ At(label, Targets(f).continue, Round(s2, l))
  <2>1. Round(s2, l) = Round(source, l)
    BY <1>1 DEF Round
  <2> QED BY <1>1, <2>1 DEF FrameAt
<1>5. IsPoint(s2, link2, <<l, "behind">>, Len(s2) + 1)
  <2>1. (Len(s2) + 1) - 1 = Len(s2) /\ Len(s2) + 1 \in Nat
    BY <1>3
  <2> QED BY <1>3, <2>1 DEF IsPoint
<1>6. f.merge \in Nat /\ f.merge # cur /\ blocks[f.merge].ops = <<>>
  <2>1. Waiting(blocks, nest, cur) /\ Len(nest) \in 1 .. Len(nest) /\ nest[Len(nest)] = f
    BY <1>1, GeneratedTypes DEF Generated, Emitted
  <2>2. f.merge \in Nat
    BY <1>1 DEF Frames
  <2>3. f.merge \in Pending(nest)
    BY <2>1, <2>2 DEF Pending, Pends
  <2> QED BY <2>1, <2>2, <2>3 DEF Waiting
<1> QED BY <1>1, <1>2, <1>3, <1>4, <1>5, <1>6 DEF EndsTop

\* An erased block keeps its operations.
LEMMA ErasedOps ==
  ASSUME NEW bs \in Seq(Blocks), NEW b \in 1 .. Len(bs)
  PROVE  /\ Len([bs EXCEPT ![b].erased = TRUE]) = Len(bs)
         /\ \A c \in 1 .. Len(bs) : [bs EXCEPT ![b].erased = TRUE][c].ops = bs[c].ops
<1> DEFINE block == [bs[b] EXCEPT !.erased = TRUE]
           bt    == [bs EXCEPT ![b].erased = TRUE]
<1>1. bs[b] \in Blocks
  OBVIOUS
<1>2. block \in Blocks /\ block.ops = bs[b].ops
  BY <1>1 DEF Blocks
<1>3. bt = [bs EXCEPT ![b] = block]
  OBVIOUS
<1> HIDE DEF block, bt
<1>4. Len(bt) = Len(bs) /\ \A c \in 1 .. Len(bs) : bt[c].ops = bs[c].ops
  BY <1>2, <1>3
<1> QED BY <1>4 DEF bt

\* The end of an else part.
LEMMA FaithfulElse ==
  ASSUME Generated, NEW link, NEW open, NEW label,
         Faithful(source, link, open, label, blocks, cur, nest), EndElse
  PROVE  \E link2, open2 : Faithful(source', link2, open2, label, blocks', cur', nest')
<1> DEFINE f == Top
           ms == Popped(nest)
           l  == open[Len(open)]
           x  == Closing("end")
           s2 == Append(source, x)
           link2 == Append(link, l)
           bt == Continued(blocks, cur, f.merge)
<1>1. /\ nest # <<>> /\ f.kind = "else" /\ source' = s2 /\ nest' = ms
      /\ IF MergeNeeded(f)
         THEN blocks' = Continue(f.merge) /\ cur' = f.merge
         ELSE blocks' = [blocks EXCEPT ![f.merge].erased = TRUE] /\ cur' = cur
  BY DEF EndElse
<1>2. x \in Tokens /\ x.kind = "end" /\ x.depth = Len(nest) - 1
  <2>1. Len(nest) \in Nat \ {0}
    BY <1>1, GeneratedTypes
  <2> QED BY <2>1, ClosingFields
<1>3. blocks \in Seq(Blocks) /\ blocks' \in Seq(Blocks) /\ (Terminated(blocks, cur) <=> Ends(blocks[cur].ops))
  <2>1. Generated'
    BY EndElseStep
  <2> QED BY <2>1, GeneratedTypes DEF Generated, Emitted, Sound
<1>4. Continue(f.merge) = bt
  BY ContinueIsContinued
<1>5. ClosesTop(link, open, x, l, s2, link2, ms, f)
  BY <1>1, <1>2 DEF ClosesTop
<1> HIDE DEF f, ms, l, x, s2, link2, bt
<1>6. EndsTop(link, open, label, x, l, s2, link2, ms, f)
  <2>1. f.kind # "then"
    BY <1>1
  <2> QED BY <1>2, <1>5, <2>1, EndAdded
<1>7. /\ Added(source, link, x, l, s2, link2) /\ Layout(s2, link2, Popped(open), label, ms)
      /\ label[1] = <<0, "in">> /\ l \in 1 .. Len(s2)
  BY <1>6 DEF EndsTop, Faithful
<1>8. CASE MergeNeeded(f)
  <2>1. f.merge \in Nat /\ At(label, f.merge, BranchPoint(s2, link2, Len(s2)))
    <3>1. BranchPoint(s2, link2, Len(s2)) = <<l, "behind">>
      BY <1>1, <1>6 DEF EndsTop, IsLoop, BranchPoint, LoopKinds
    <3> QED BY <1>6, <3>1 DEF EndsTop
  <2>2. x.kind \in {"else", "end"}
    BY <1>2
  <2>3. /\ WrittenTo(s2, link2, label, bt, cur, 0) /\ Len(bt) = Len(blocks) /\ Len(label) = Len(blocks)
        /\ \A m \in 1 .. Len(blocks) : m # cur => bt[m] = blocks[m]
    BY <1>7, <2>1, <2>2, ClosingContinued DEF bt
  <2>4. f.merge \in 1 .. Len(bt) /\ bt[f.merge].ops = <<>> /\ label[f.merge] = <<l, "behind">>
    BY <1>6, <2>3 DEF EndsTop, At
  <2>5. IsPoint(s2, link2, label[f.merge], Len(s2) + 1)
    BY <1>6, <2>4 DEF EndsTop
  <2>6. Faithful(s2, link2, Popped(open), label, bt, f.merge, ms)
    BY <1>7, <2>3, <2>4, <2>5, FaithfulMove
  <2> QED BY <1>1, <1>4, <1>8, <2>6
<1>9. CASE ~MergeNeeded(f)
  <2>1. Ends(blocks[cur].ops)
    BY <1>3, <1>9 DEF MergeNeeded
  <2>2. Faithful(s2, link2, Popped(open), label, blocks, cur, ms)
    <3>1. WrittenTo(s2, link2, label, blocks, cur, Len(s2))
      BY <1>7, FaithfulAdded
    <3>2. WrittenTo(s2, link2, label, blocks, cur, Len(s2) + 1)
      BY <2>1, <3>1, WrittenEnded
    <3> QED BY <1>7, <3>2 DEF Faithful
  <2>3. Len(blocks') = Len(blocks) /\ \A b \in 1 .. Len(blocks) : blocks'[b].ops = blocks[b].ops
    <3>1. blocks' = [blocks EXCEPT ![f.merge].erased = TRUE]
      BY <1>1, <1>9
    <3>2. f.merge \in 1 .. Len(blocks)
      BY <1>6 DEF EndsTop, At, Faithful, WrittenTo, Written
    <3> DEFINE be == [blocks EXCEPT ![f.merge].erased = TRUE]
    <3>3. Len(be) = Len(blocks) /\ \A b \in 1 .. Len(blocks) : be[b].ops = blocks[b].ops
      BY <1>3, <3>2, ErasedOps
    <3>4. blocks' = be
      BY <3>1
    <3> HIDE DEF be
    <3> QED BY <3>3, <3>4
  <2>4. WrittenTo(s2, link2, label, blocks', cur, Len(s2) + 1)
    BY <1>3, <2>2, <2>3, WrittenSame DEF Faithful
  <2>5. Faithful(s2, link2, Popped(open), label, blocks', cur, ms)
    BY <2>2, <2>4 DEF Faithful
  <2> QED BY <1>1, <1>9, <2>5
<1> QED BY <1>8, <1>9

\* The end of a while loop.
LEMMA FaithfulWhile ==
  ASSUME Generated, NEW link, NEW open, NEW label,
         Faithful(source, link, open, label, blocks, cur, nest), EndWhile
  PROVE  \E link2, open2 : Faithful(source', link2, open2, label, blocks', cur', nest')
<1> DEFINE f == Top
           ms == Popped(nest)
           l  == open[Len(open)]
           x  == Closing("end")
           s2 == Append(source, x)
           link2 == Append(link, l)
           bt == Continued(blocks, cur, f.next)
<1>1. /\ nest # <<>> /\ f.kind = "while" /\ source' = s2 /\ nest' = ms /\ cur' = f.merge
  BY DEF EndWhile
<1>2. x \in Tokens /\ x.kind = "end" /\ x.depth = Len(nest) - 1
  <2>1. Len(nest) \in Nat \ {0}
    BY <1>1, GeneratedTypes
  <2> QED BY <2>1, ClosingFields
<1>3. blocks' = bt
  BY ContinueIsContinued DEF EndWhile
<1>4. ClosesTop(link, open, x, l, s2, link2, ms, f)
  BY <1>1, <1>2 DEF ClosesTop
<1>5. f.next \in Nat
  <2>1. f \in Frames
    BY <1>1, TopOfNest
  <2> QED BY <2>1 DEF Frames
<1> HIDE DEF f, ms, l, x, s2, link2, bt
<1>6. EndsTop(link, open, label, x, l, s2, link2, ms, f)
  <2>1. f.kind # "then"
    BY <1>1
  <2> QED BY <1>2, <1>4, <2>1, EndAdded
<1>7. /\ Added(source, link, x, l, s2, link2) /\ Layout(s2, link2, Popped(open), label, ms)
      /\ label[1] = <<0, "in">> /\ l \in 1 .. Len(s2)
  BY <1>6 DEF EndsTop, Faithful
<1>8. At(label, f.next, BranchPoint(s2, link2, Len(s2)))
  <2>1. BranchPoint(s2, link2, Len(s2)) = Round(s2, l)
    BY <1>1, <1>6 DEF EndsTop, IsLoop, BranchPoint, LoopKinds
  <2>2. Targets(f).continue = f.next
    BY <1>1 DEF Targets
  <2> QED BY <1>1, <1>6, <2>1, <2>2 DEF EndsTop, IsLoop
<1>9. x.kind \in {"else", "end"}
  BY <1>2
<1>10. /\ WrittenTo(s2, link2, label, bt, cur, 0) /\ Len(bt) = Len(blocks) /\ Len(label) = Len(blocks)
       /\ \A m \in 1 .. Len(blocks) : m # cur => bt[m] = blocks[m]
  BY <1>5, <1>7, <1>8, <1>9, ClosingContinued DEF bt
<1>11. f.merge \in 1 .. Len(bt) /\ bt[f.merge].ops = <<>> /\ label[f.merge] = <<l, "behind">>
  BY <1>6, <1>10 DEF EndsTop, At
<1>12. IsPoint(s2, link2, label[f.merge], Len(s2) + 1)
  BY <1>6, <1>11 DEF EndsTop
<1>13. Faithful(s2, link2, Popped(open), label, bt, f.merge, ms)
  BY <1>7, <1>10, <1>11, <1>12, FaithfulMove
<1> QED BY <1>1, <1>3, <1>13

\* The increment of a for loop, if it has one, and the way back to its test.
LEMMA IncrementTo ==
  ASSUME NEW s, NEW link, NEW label, NEW q \in 1 .. Len(s), q \in Nat, s[q].kind = "end",
         NEW l \in 1 .. Len(s), l \in Nat, link[q] = l, s[l].kind = "for",
         NEW b \in Nat, At(label, b, <<l, "self">>), NEW u \in Reaches,
         NEW e, e = (IF s[l].rest THEN <<Op("stmt", q, <<>>, u)>> ELSE <<>>) \o <<Branch(b)>>,
         NEW p, p = IF s[l].rest THEN q ELSE l
  PROVE  e \in OpSeqs /\ RowTo(s, link, label, e, p, 0) /\ IsPoint(s, link, Round(s, l), p)
<1> DEFINE last == <<Branch(b)>>
           first == <<Op("stmt", q, <<>>, u)>>
<1>1. last \in OpSeqs /\ RowTo(s, link, label, last, l, 0)
  <2>1. BranchPoint(s, link, l) = <<l, "self">> /\ s[l].kind \in LoopKinds
    BY DEF BranchPoint, LoopKinds
  <2>2. RowTo(s, link, label, last, l, 0)
    BY <2>1, BranchTo DEF At
  <2> QED BY <2>2, BranchOp
<1>2. first \in OpSeqs /\ first[Len(first)].kind \notin Terminators
  BY DEF Op, OpSeqs, Operations, Kinds, Terminators
<1>3. CASE s[l].rest
  <2>1. RowTo(s, link, label, first, q, l)
    <3>1. s[link[q]].kind \in LoopKinds /\ s[link[q]].rest /\ link[q] \in 1 .. Len(s)
      BY <1>3 DEF LoopKinds
    <3> QED BY <3>1, PlainTo
  <2>2. e = first \o last /\ p = q
    BY <1>3
  <2> HIDE DEF first, last
  <2>3. first \o last \in OpSeqs
    BY <1>1, <1>2, ConcatOps
  <2>4. RowTo(s, link, label, first \o last, q, 0)
    BY <1>1, <1>2, <2>1, RowToJoin
  <2>5. Round(s, l) = <<l, "end">>
    BY <1>3 DEF Round
  <2>6. IsPoint(s, link, <<l, "end">>, q)
    BY DEF IsPoint
  <2> QED BY <2>2, <2>3, <2>4, <2>5, <2>6
<1>4. CASE ~s[l].rest
  <2>1. e = last /\ p = l
    <3>1. e = <<>> \o last
      BY <1>4
    <3>2. <<>> \o last = last
      BY <1>1 DEF OpSeqs
    <3> QED BY <1>4, <3>1, <3>2
  <2>2. Round(s, l) = <<l, "self">>
    BY <1>4 DEF Round
  <2>3. IsPoint(s, link, <<l, "self">>, l)
    BY DEF IsPoint
  <2> QED BY <1>1, <2>1, <2>2, <2>3
<1> QED BY <1>3, <1>4

\* The end of a for loop.
LEMMA FaithfulFor ==
  ASSUME Generated, NEW link, NEW open, NEW label,
         Faithful(source, link, open, label, blocks, cur, nest), EndFor
  PROVE  \E link2, open2 : Faithful(source', link2, open2, label, blocks', cur', nest')
<1> DEFINE f == Top
           ms == Popped(nest)
           l  == open[Len(open)]
           inc == loopTargets[Len(loopTargets)].continue
<1>1. /\ nest # <<>> /\ f.kind = "for" /\ nest' = ms /\ cur' = f.merge
  BY DEF EndFor
<1>2. PICK u \in IF f.rest THEN family.uses ELSE {"none"} :
        /\ source' = Append(source, [Closing("end") EXCEPT !.use = u])
        /\ blocks' = With(Continue(inc), inc,
                          (IF f.rest THEN <<Op("stmt", Len(source) + 1, <<>>, Access(u, TRUE))>>
                                     ELSE <<>>)
                          \o <<Branch(f.next)>>)
  BY DEF EndFor
<1> DEFINE x  == [Closing("end") EXCEPT !.use = u]
           s2 == Append(source, x)
           link2 == Append(link, l)
           bt == Continued(blocks, cur, inc)
           reach == Access(u, TRUE)
           e == (IF f.rest THEN <<Op("stmt", Len(source) + 1, <<>>, reach)>> ELSE <<>>)
                \o <<Branch(f.next)>>
<1>3. x \in Tokens /\ x.kind = "end" /\ x.depth = Len(nest) - 1 /\ u \in {"none", "read", "assign"}
  <2>1. Len(nest) \in Nat \ {0}
    BY <1>1, GeneratedTypes
  <2>2. u \in {"none", "read", "assign"}
    BY <1>2, GeneratedTypes
  <2> QED BY <2>1, <2>2, ClosingFields
<1>4. source' = s2 /\ blocks' = With(bt, inc, e)
  BY <1>2, ContinueIsContinued
<1>5. ClosesTop(link, open, x, l, s2, link2, ms, f)
  BY <1>1, <1>3 DEF ClosesTop
<1>6. f.next \in Nat /\ f \in Frames
  <2>1. f \in Frames
    BY <1>1, TopOfNest
  <2> QED BY <2>1 DEF Frames
<1>7. inc = Targets(f).continue /\ inc = f.merge - 1
  <2>1. IsLoop(f)
    BY <1>1 DEF IsLoop
  <2>2. loopTargets[Len(loopTargets)] = Targets(f)
    BY <1>1, <2>1, CloseTop
  <2> QED BY <1>1, <2>2 DEF Targets
<1>8. reach \in Reaches
  <2>1. reach \in {"none", "slot", "store"}
    BY <1>3, AccessReach, Zenon
  <2> QED BY <2>1 DEF Reaches
<1>9. inc \in Nat /\ inc # cur /\ blocks[inc].ops = <<>> /\ inc # f.merge
  <2>1. /\ Waiting(blocks, nest, cur) /\ Len(nest) \in 1 .. Len(nest) /\ nest[Len(nest)] = f
        /\ Nested(nest, Len(blocks))
    <3>1. Waiting(blocks, nest, cur) /\ Nested(nest, Len(blocks))
      BY DEF Generated, Emitted
    <3>2. nest \in Seq(Frames)
      BY GeneratedTypes
    <3> QED BY <1>1, <3>1, <3>2 DEF Top
  <2>2. FrameShape(f)
    BY <2>1 DEF Nested
  <2>3. inc \in Nat /\ inc # f.merge
    BY <1>1, <1>6, <1>7, <2>2 DEF FrameShape, Frames
  <2>4. inc \in Pending(nest)
    BY <1>1, <1>7, <2>1, <2>3 DEF Pending, Pends
  <2> QED BY <2>1, <2>3, <2>4 DEF Waiting
<1> HIDE DEF f, ms, l, x, s2, link2, inc
<1>10. EndsTop(link, open, label, x, l, s2, link2, ms, f)
  <2>1. f.kind # "then"
    BY <1>1
  <2> QED BY <1>3, <1>5, <2>1, EndAdded
<1>11. /\ Added(source, link, x, l, s2, link2) /\ Layout(s2, link2, Popped(open), label, ms)
       /\ label[1] = <<0, "in">> /\ l \in 1 .. Len(s2) /\ l \in Nat
       /\ At(label, f.next, <<l, "self">>) /\ At(label, inc, Round(s2, l))
       /\ s2[l].kind = "for" /\ s2[l].rest = f.rest
       /\ Len(s2) \in 1 .. Len(s2) /\ Len(s2) \in Nat /\ s2[Len(s2)].kind = "end"
       /\ link2[Len(s2)] = l /\ f.merge \in Nat /\ f.merge # cur /\ blocks[f.merge].ops = <<>>
       /\ At(label, f.merge, <<l, "behind">>) /\ IsPoint(s2, link2, <<l, "behind">>, Len(s2) + 1)
  BY <1>1, <1>7, <1>10 DEF EndsTop, Faithful, IsLoop
<1>12. At(label, inc, BranchPoint(s2, link2, Len(s2)))
  <2>1. BranchPoint(s2, link2, Len(s2)) = Round(s2, l)
    BY <1>11 DEF BranchPoint, LoopKinds
  <2> QED BY <1>11, <2>1
<1>13. x.kind \in {"else", "end"}
  BY <1>3
<1> HIDE DEF bt, reach
<1>14. /\ WrittenTo(s2, link2, label, bt, cur, 0) /\ Len(bt) = Len(blocks) /\ Len(label) = Len(blocks)
       /\ \A m \in 1 .. Len(blocks) : m # cur => bt[m] = blocks[m]
  BY <1>9, <1>11, <1>12, <1>13, ClosingContinued, SMTT(30) DEF bt
<1>15. /\ inc \in 1 .. Len(bt) /\ bt[inc].ops = <<>> /\ label[inc] = Round(s2, l)
       /\ f.merge \in 1 .. Len(bt) /\ bt[f.merge].ops = <<>> /\ label[f.merge] = <<l, "behind">>
  BY <1>9, <1>11, <1>14 DEF At
<1>16. Len(source) + 1 = Len(s2)
  BY <1>11, FaithfulAdded
<1> DEFINE p == IF s2[l].rest THEN Len(s2) ELSE l
<1>17. e \in OpSeqs /\ RowTo(s2, link2, label, e, p, 0) /\ IsPoint(s2, link2, Round(s2, l), p)
  <2>1. e = (IF s2[l].rest THEN <<Op("stmt", Len(s2), <<>>, reach)>> ELSE <<>>)
            \o <<Branch(f.next)>>
    BY <1>11, <1>16
  <2> HIDE DEF e
  <2> QED BY <1>6, <1>8, <1>11, <2>1, IncrementTo
<1> HIDE DEF e, p
<1>18. WrittenTo(s2, link2, label, bt, inc, p)
  <2>1. Written(s2, link2, label, bt) /\ IsPoint(s2, link2, label[inc], p)
    BY <1>14, <1>15, <1>17 DEF WrittenTo
  <2> QED BY <1>15, <2>1, WrittenMove
<1> DEFINE bu == With(bt, inc, e)
<1>19. WrittenTo(s2, link2, label, bu, inc, 0)
  <2>1. ~Ends(bt[inc].ops)
    BY <1>15 DEF Ends
  <2> QED BY <1>17, <1>18, <2>1, WrittenWith
<1>20. Len(bu) = Len(bt) /\ bu[f.merge] = bt[f.merge]
  <2>1. bt \in Seq(Blocks)
    BY <1>14 DEF WrittenTo, Written
  <2> QED BY <1>9, <1>15, <1>17, <2>1, WithBlocks
<1> HIDE DEF bu
<1>21. f.merge \in 1 .. Len(bu) /\ bu[f.merge].ops = <<>> /\ IsPoint(s2, link2, label[f.merge], Len(s2) + 1)
  BY <1>11, <1>15, <1>20
<1>22. Faithful(s2, link2, Popped(open), label, bu, f.merge, ms)
  BY <1>11, <1>19, <1>21, FaithfulMove
<1>23. blocks' = bu
  BY <1>4 DEF bu
<1> QED BY <1>1, <1>4, <1>22, <1>23

\* The token x begins at q the construct of the frame f, whose points label2
\* adds to those of label.
Begins(label, x, q, f, label2) ==
  /\ x.kind = (IF IsLoop(f) THEN f.kind ELSE "if") /\ x.rest = f.rest
  /\ label2 \in Seq(Points) /\ Prolongs(label2, label)
  /\ At(label2, f.merge, <<q, "behind">>)
  /\ f.kind = "then" /\ f.rest => At(label2, f.next, <<q, "else">>)
  /\ IsLoop(f) => /\ At(label2, f.next, <<q, "self">>)
                  /\ At(label2, Targets(f).continue, <<q, IF f.rest THEN "end" ELSE "self">>)

LEMMA MoreLabels ==
  ASSUME NEW label \in Seq(Points), NEW add \in Seq(Points)
  PROVE  /\ label \o add \in Seq(Points) /\ Prolongs(label \o add, label)
         /\ Len(label \o add) = Len(label) + Len(add)
         /\ \A i \in 1 .. Len(add) : At(label \o add, Len(label) + i, add[i])
<1> DEFINE l2 == label \o add
<1>1. /\ l2 \in Seq(Points) /\ Len(l2) = Len(label) + Len(add)
      /\ Len(label) \in Nat /\ Len(add) \in Nat
      /\ \A i \in 1 .. Len(label) : l2[i] = label[i]
      /\ \A i \in 1 .. Len(add) : l2[Len(label) + i] = add[i]
  OBVIOUS
<1> HIDE DEF l2
<1>2. Prolongs(l2, label)
  BY <1>1 DEF Prolongs
<1>3. \A i \in 1 .. Len(add) : At(l2, Len(label) + i, add[i])
  BY <1>1 DEF At
<1> QED BY <1>1, <1>2, <1>3 DEF l2

\* The next token in block c is r, and x begins the construct of f, which has
\* n blocks.
Opens(s, link, open, label, bs, c, ns, r, x, q, f, label2, n) ==
  /\ Layout(s, link, open, label, ns) /\ WrittenTo(s, link, label, bs, c, r)
  /\ label[1] = <<0, "in">>
  /\ x \in Tokens /\ x.depth = Len(ns) /\ q = Len(s) + 1
  /\ f \in Frames /\ f.kind # "else" /\ Begins(label, x, q, f, label2)
  /\ n \in Nat /\ Len(label2) = Len(label) + n

\* A construct is begun with n new blocks.
LEMMA HeadBegun ==
  ASSUME NEW s, NEW link, NEW open, NEW label, NEW bs, NEW c, NEW ns, NEW r,
         NEW x, NEW q, NEW f, NEW label2, NEW n,
         Opens(s, link, open, label, bs, c, ns, r, x, q, f, label2, n)
  PROVE  /\ Layout(Append(s, x), Append(link, 0), Append(open, q), label2, Append(ns, f))
         /\ WrittenTo(Append(s, x), Append(link, 0), label2, bs \o Fresh(n), c, r)
         /\ label2[1] = <<0, "in">>
         /\ q \in Nat /\ Len(Append(s, x)) = q /\ q \in 1 .. Len(Append(s, x))
         /\ Append(s, x)[q] = x
<1> DEFINE s2 == Append(s, x)
           link2 == Append(link, 0)
<1>0. /\ Layout(s, link, open, label, ns) /\ WrittenTo(s, link, label, bs, c, r)
      /\ label[1] = <<0, "in">>
      /\ x \in Tokens /\ x.depth = Len(ns) /\ q = Len(s) + 1
      /\ f \in Frames /\ f.kind # "else" /\ Begins(label, x, q, f, label2)
      /\ n \in Nat /\ Len(label2) = Len(label) + n
  BY DEF Opens
<1>1. Added(s, link, x, 0, s2, link2)
  <2>1. Linked(s, link) /\ Len(ns) \in Nat
    BY <1>0, LayoutFacts
  <2>2. x.depth \in Nat /\ 0 \in Nat
    BY <1>0, <2>1
  <2> QED BY <1>0, <2>1, <2>2, Adding
<1> HIDE DEF s2, link2
<1>2. /\ q \in Nat /\ Len(s2) = q /\ q \in 1 .. Len(s2) /\ s2[q] = x
  BY <1>0, <1>1 DEF Added
<1>3. label2 \in Seq(Points) /\ Prolongs(label2, label)
  BY <1>0 DEF Begins
<1>4. FrameAt(s2, link2, label2, q, f, Len(ns))
  <2>1. Round(s2, q) = <<q, IF f.rest THEN "end" ELSE "self">>
    BY <1>0, <1>2 DEF Round, Begins
  <2>2. \A k \in q + 1 .. Len(s2) : FALSE
    BY <1>2
  <2> QED BY <1>0, <1>2, <2>1, <2>2 DEF FrameAt, Begins
<1>5. Layout(s2, link2, Append(open, q), label2, Append(ns, f))
  <2>1. x.kind \in Heads
    BY <1>0 DEF Begins, IsLoop, Heads, LoopKinds
  <2>2. FrameAt(s2, link2, label2, Len(s) + 1, f, Len(ns))
    BY <1>0, <1>4
  <2> QED BY <1>0, <1>1, <1>3, <2>1, <2>2, LayoutHead
<1>6. WrittenTo(s2, link2, label2, bs \o Fresh(n), c, r)
  <2>1. Grown(s, link, label, s2, link2, label2)
    BY <1>1, <1>3, AddedGrown
  <2> QED BY <1>0, <1>3, <2>1, WrittenFresh
<1>7. label2[1] = <<0, "in">>
  <2>1. 1 \in 1 .. Len(label)
    BY <1>0 DEF WrittenTo, Written
  <2> QED BY <1>0, <1>3, <2>1 DEF Prolongs
<1> QED BY <1>2, <1>5, <1>6, <1>7 DEF s2, link2

\* A block has its row, and an empty one is made for the body.
LEMMA BodyBegun ==
  ASSUME NEW s, NEW link, NEW open, NEW label, NEW ns, Layout(s, link, open, label, ns),
         label[1] = <<0, "in">>, NEW bs, NEW c, NEW r, WrittenTo(s, link, label, bs, c, r),
         ~Ends(bs[c].ops), NEW e \in OpSeqs, RowTo(s, link, label, e, r, 0),
         NEW m, At(label, m, <<Len(s), "in">>), m # c, bs[m].ops = <<>>
  PROVE  Faithful(s, link, open, label, With(bs, c, e), m, ns)
<1> DEFINE bt == With(bs, c, e)
<1>1. WrittenTo(s, link, label, bt, c, 0)
  BY WrittenWith
<1>2. bs \in Seq(Blocks) /\ c \in 1 .. Len(bs) /\ Len(label) = Len(bs)
  BY DEF WrittenTo, Written
<1>3. m \in 1 .. Len(bs) /\ label[m] = <<Len(s), "in">>
  BY <1>2 DEF At
<1>4. Len(bt) = Len(bs) /\ bt[m] = bs[m]
  BY <1>2, <1>3, WithBlocks
<1>5. IsPoint(s, link, label[m], Len(s) + 1)
  <2>1. Len(s) \in Nat
    BY LayoutFacts
  <2> QED BY <1>3, <2>1 DEF IsPoint
<1> HIDE DEF bt
<1>6. m \in 1 .. Len(bt) /\ bt[m].ops = <<>>
  BY <1>3, <1>4
<1>7. Faithful(s, link, open, label, bt, m, ns)
  BY <1>1, <1>5, <1>6, FaithfulMove
<1> QED BY <1>7 DEF bt

\* A block leads to the header h of a loop, which has its row.
LEMMA LoopBegun ==
  ASSUME NEW s, NEW link, NEW open, NEW label, NEW ns, Layout(s, link, open, label, ns),
         label[1] = <<0, "in">>, NEW bs, NEW c, NEW r, WrittenTo(s, link, label, bs, c, r),
         ~Ends(bs[c].ops), NEW e \in OpSeqs, RowTo(s, link, label, e, r, 0),
         NEW h, At(label, h, <<Len(s), "self">>), h # c, bs[h].ops = <<>>,
         NEW d \in OpSeqs, RowTo(s, link, label, d, Len(s), 0),
         NEW m, At(label, m, <<Len(s), "in">>), m # c, m # h, bs[m].ops = <<>>
  PROVE  Faithful(s, link, open, label, With(With(bs, c, e), h, d), m, ns)
<1> DEFINE bt == With(bs, c, e)
<1>1. WrittenTo(s, link, label, bt, c, 0)
  BY WrittenWith
<1>2. bs \in Seq(Blocks) /\ c \in 1 .. Len(bs) /\ Len(label) = Len(bs)
  BY DEF WrittenTo, Written
<1>3. h \in 1 .. Len(bs) /\ label[h] = <<Len(s), "self">> /\ m \in 1 .. Len(bs)
  BY <1>2 DEF At
<1>4. Len(bt) = Len(bs) /\ bt[m] = bs[m] /\ bt[h] = bs[h]
  BY <1>2, <1>3, WithBlocks
<1>5. IsPoint(s, link, label[h], Len(s))
  <2>1. Len(s) \in Nat
    BY LayoutFacts
  <2> QED BY <1>3, <2>1 DEF IsPoint
<1> HIDE DEF bt
<1>6. h \in 1 .. Len(bt) /\ bt[h].ops = <<>> /\ bt[m].ops = <<>> /\ ~Ends(bt[h].ops)
  BY <1>3, <1>4 DEF Ends
<1>7. WrittenTo(s, link, label, bt, h, Len(s))
  BY <1>1, <1>5, <1>6, WrittenMove DEF WrittenTo
<1>8. Faithful(s, link, open, label, With(bt, h, d), m, ns)
  BY <1>6, <1>7, BodyBegun
<1> QED BY <1>8 DEF bt

\* Before a construct begins: what is known of the blocks and of the tokens.
LEMMA BeforeHead ==
  ASSUME Generated, CanEmit, NEW link, NEW open, NEW label,
         Faithful(source, link, open, label, blocks, cur, nest)
  PROVE  /\ Layout(source, link, open, label, nest) /\ label \in Seq(Points)
         /\ label[1] = <<0, "in">> /\ Len(label) = Len(blocks) /\ Len(blocks) \in Nat
         /\ WrittenTo(source, link, label, blocks, cur, Len(source) + 1)
         /\ ~Ends(blocks[cur].ops) /\ cur \in 1 .. Len(blocks) /\ blocks \in Seq(Blocks)
         /\ Len(source) \in Nat /\ Len(source) + 1 \in Nat /\ Len(nest) \in Nat
         /\ Materialize \in {<<>>, <<Alloca>>} /\ Materialize \in OpSeqs
<1>1. /\ ~Ends(blocks[cur].ops) /\ cur \in 1 .. Len(blocks) /\ blocks \in Seq(Blocks)
      /\ Len(nest) \in Nat /\ Len(blocks) \in Nat
  BY GeneratedTypes DEF CanEmit
<1>2. Len(source) \in Nat /\ Len(source) + 1 \in Nat
  BY DEF Generated
<1>3. Materialize \in {<<>>, <<Alloca>>}
  BY DEF Materialize
<1>4. Materialize \in OpSeqs
  <2>1. <<>> \in OpSeqs /\ <<Alloca>> \in OpSeqs
    BY AllocaOp, NoOp
  <2> QED BY <1>3, <2>1
<1> QED BY <1>1, <1>2, <1>3, <1>4 DEF Faithful, Layout, WrittenTo, Written

LEMMA PointTypes ==
  ASSUME NEW q \in Nat, NEW where \in {"in", "self", "else", "end", "behind"}
  PROVE  <<q, where>> \in Points
BY DEF Points

\* The points of an if.
LEMMA IfPoints ==
  ASSUME NEW label \in Seq(Points), NEW n \in Nat, Len(label) = n, NEW q \in Nat,
         NEW hasElse \in BOOLEAN, NEW merge, merge = IF hasElse THEN n + 3 ELSE n + 2
  PROVE  \E label2 \in Seq(Points) :
           /\ Prolongs(label2, label) /\ Len(label2) = n + (merge - n)
           /\ At(label2, n + 1, <<q, "in">>)
           /\ At(label2, n + 2, <<q, IF hasElse THEN "else" ELSE "behind">>)
           /\ At(label2, merge, <<q, "behind">>)
<1>1. <<q, "in">> \in Points /\ <<q, "else">> \in Points /\ <<q, "behind">> \in Points
  BY PointTypes
<1>2. CASE hasElse
  <2> DEFINE add == <<<<q, "in">>, <<q, "else">>, <<q, "behind">>>>
  <2>1. add \in Seq(Points) /\ Len(add) = 3 /\ {1, 2, 3} \subseteq 1 .. Len(add)
    BY <1>1
  <2>2. add[1] = <<q, "in">> /\ add[2] = <<q, "else">> /\ add[3] = <<q, "behind">>
    OBVIOUS
  <2> HIDE DEF add
  <2> DEFINE l2 == label \o add
  <2>3. /\ l2 \in Seq(Points) /\ Prolongs(l2, label) /\ Len(l2) = n + 3
        /\ At(l2, n + 1, <<q, "in">>) /\ At(l2, n + 2, <<q, "else">>)
        /\ At(l2, n + 3, <<q, "behind">>)
    BY <2>1, <2>2, MoreLabels
  <2> HIDE DEF l2
  <2>4. merge = n + 3 /\ n + (merge - n) = n + 3
    BY <1>2
  <2> QED BY <1>2, <2>3, <2>4
<1>3. CASE ~hasElse
  <2> DEFINE add == <<<<q, "in">>, <<q, "behind">>>>
  <2>1. add \in Seq(Points) /\ Len(add) = 2 /\ {1, 2} \subseteq 1 .. Len(add)
    BY <1>1
  <2>2. add[1] = <<q, "in">> /\ add[2] = <<q, "behind">>
    OBVIOUS
  <2> HIDE DEF add
  <2> DEFINE l2 == label \o add
  <2>3. /\ l2 \in Seq(Points) /\ Prolongs(l2, label) /\ Len(l2) = n + 2
        /\ At(l2, n + 1, <<q, "in">>) /\ At(l2, n + 2, <<q, "behind">>)
    BY <2>1, <2>2, MoreLabels
  <2> HIDE DEF l2
  <2>4. merge = n + 2 /\ n + (merge - n) = n + 2
    BY <1>3
  <2> QED BY <1>3, <2>3, <2>4
<1> QED BY <1>2, <1>3

\* An if begins.
LEMMA FaithfulIf ==
  ASSUME Generated, NEW link, NEW open, NEW label,
         Faithful(source, link, open, label, blocks, cur, nest), BeginIf
  PROVE  \E link2, open2, label2 : Faithful(source', link2, open2, label2, blocks', cur', nest')
<1> DEFINE n == Len(blocks)
<1>1. PICK u \in family.uses, hasElse \in BOOLEAN :
        /\ source' = Append(source, Token("if", TRUE, hasElse, u))
        /\ blocks' = With(blocks \o Fresh((IF hasElse THEN n + 3 ELSE n + 2) - n), cur,
                          Materialize \o <<CondBranch(Len(source) + 1, Access(u, TRUE),
                                                      n + 1, n + 2)>>)
        /\ cur' = n + 1
        /\ nest' = Append(nest, [kind |-> "then", next |-> n + 2,
                                 merge |-> IF hasElse THEN n + 3 ELSE n + 2,
                                 continues |-> TRUE, rest |-> hasElse])
  BY DEF BeginIf
<1>2. CanEmit
  BY DEF BeginIf, CanOpen
<1>3. /\ Layout(source, link, open, label, nest) /\ label \in Seq(Points)
      /\ label[1] = <<0, "in">> /\ Len(label) = n /\ n \in Nat
      /\ WrittenTo(source, link, label, blocks, cur, Len(source) + 1)
      /\ ~Ends(blocks[cur].ops) /\ cur \in 1 .. n /\ blocks \in Seq(Blocks)
      /\ Len(source) \in Nat /\ Len(source) + 1 \in Nat /\ Len(nest) \in Nat
      /\ Materialize \in {<<>>, <<Alloca>>} /\ Materialize \in OpSeqs
  BY <1>2, BeforeHead
<1> DEFINE merge == IF hasElse THEN n + 3 ELSE n + 2
           new == merge - n
           q == Len(source) + 1
           x == Token("if", TRUE, hasElse, u)
           reach == Access(u, TRUE)
           e2 == <<CondBranch(q, reach, n + 1, n + 2)>>
           e == Materialize \o e2
           f == [kind |-> "then", next |-> n + 2, merge |-> merge, continues |-> TRUE,
                 rest |-> hasElse]
           b1 == blocks \o Fresh(new)
           s2 == Append(source, x)
           link2 == Append(link, 0)
           open2 == Append(open, q)
           ns2 == Append(nest, f)
<1>4. /\ source' = s2 /\ blocks' = With(b1, cur, e) /\ cur' = n + 1 /\ nest' = ns2
  BY <1>1
<1>5. merge \in Nat /\ new \in Nat /\ n + 1 \in Nat /\ n + 2 \in Nat /\ 2 <= new
  BY <1>3
<1>6. f \in Frames /\ f.kind = "then" /\ f.next = n + 2 /\ f.merge = merge /\ f.rest = hasElse
  <2> HIDE DEF merge
  <2> QED BY <1>3, <1>5 DEF Frames
<1>7. u \in {"none", "read", "assign"}
  BY GeneratedTypes
<1>8. x \in Tokens /\ x.kind = "if" /\ x.depth = Len(nest) /\ x.test = TRUE /\ x.rest = hasElse
  <2>1. PICK yes \in BOOLEAN : yes = TRUE
    OBVIOUS
  <2> DEFINE y == Token("if", yes, hasElse, u)
  <2>2. y \in Tokens /\ y.kind = "if" /\ y.depth = Len(nest) /\ y.test = yes /\ y.rest = hasElse
    BY <1>3, <1>7, TokenFields
  <2>3. x = y
    BY <2>1, Zenon
  <2> HIDE DEF y, x
  <2> QED BY <2>1, <2>2, <2>3
<1>9. reach \in Reaches
  <2>1. reach \in {"none", "slot", "store"}
    BY <1>7, AccessReach, Zenon
  <2> QED BY <2>1 DEF Reaches
<1>10. PICK label2 \in Seq(Points) :
           /\ Prolongs(label2, label) /\ Len(label2) = n + new
           /\ At(label2, n + 1, <<q, "in">>)
           /\ At(label2, n + 2, <<q, IF hasElse THEN "else" ELSE "behind">>)
           /\ At(label2, merge, <<q, "behind">>)
  <2> HIDE DEF n
  <2> QED BY <1>3, IfPoints
<1> HIDE DEF merge, new, x, f, b1, s2, link2, ns2, reach, e2, open2
<1>11. Begins(label, x, q, f, label2)
  <2>1. ~IsLoop(f)
    BY <1>6 DEF IsLoop
  <2> QED BY <1>6, <1>8, <1>10, <2>1 DEF Begins
<1>12. /\ Layout(s2, link2, open2, label2, ns2)
       /\ WrittenTo(s2, link2, label2, b1, cur, q) /\ label2[1] = <<0, "in">>
       /\ q \in Nat /\ Len(s2) = q /\ q \in 1 .. Len(s2) /\ s2[q] = x
  <2>1. f.kind # "else"
    BY <1>6
  <2>2. Opens(source, link, open, label, blocks, cur, nest, q, x, q, f, label2, new)
    BY <1>3, <1>5, <1>6, <1>8, <1>10, <1>11, <2>1 DEF Opens
  <2> HIDE DEF q
  <2> QED BY <2>2, HeadBegun DEF s2, link2, ns2, b1, open2
<1> HIDE DEF q
<1>13. e2 \in OpSeqs /\ RowTo(s2, link2, label2, e2, q, 0)
  <2>1. s2[q].kind = "if" /\ s2[q].test /\ s2[q].rest = hasElse
    BY <1>8, <1>12
  <2>2. s2[q].kind \in Heads
    BY <2>1 DEF Heads
  <2>3. /\ n + 1 \in 1 .. Len(label2) /\ n + 2 \in 1 .. Len(label2) /\ label2[n + 1] = <<q, "in">>
        /\ label2[n + 2] = <<q, IF s2[q].kind = "if" /\ s2[q].rest THEN "else" ELSE "behind">>
    BY <1>10, <2>1 DEF At
  <2> HIDE DEF n
  <2>4. RowTo(s2, link2, label2, e2, q, 0)
    BY <1>5, <1>9, <1>12, <2>1, <2>2, <2>3, TestTo DEF e2
  <2>5. e2 \in OpSeqs
    BY <1>5, <1>9, <1>12 DEF e2, CondBranch, Op, OpSeqs, Operations, Kinds
  <2> QED BY <2>4, <2>5
<1>14. e \in OpSeqs /\ RowTo(s2, link2, label2, e, q, 0)
  <2>1. s2[q].kind \notin {"else", "end", "break", "continue"}
    BY <1>8, <1>12
  <2> DEFINE front == Materialize
  <2>2. front \in {<<>>, <<Alloca>>} /\ front \in OpSeqs
    BY <1>3
  <2> HIDE DEF front
  <2>3. RowTo(s2, link2, label2, front \o e2, q, 0)
    BY <1>12, <1>13, <2>1, <2>2, MaterializeTo
  <2>4. front \o e2 \in OpSeqs
    BY <1>13, <2>2, ConcatOps
  <2> QED BY <2>3, <2>4 DEF front
<1>15. b1[cur] = blocks[cur] /\ b1[n + 1].ops = <<>> /\ n + 1 # cur
  <2>1. /\ \A c \in 1 .. Len(blocks) : b1[c] = blocks[c]
        /\ \A c \in Len(blocks) + 1 .. Len(blocks) + new : b1[c].ops = <<>>
    BY <1>3, <1>5, FreshBlocks DEF b1
  <2> QED BY <1>3, <1>5, <2>1
<1>16. At(label2, n + 1, <<Len(s2), "in">>) /\ ~Ends(b1[cur].ops)
  BY <1>3, <1>10, <1>12, <1>15
<1> HIDE DEF e, n
<1>17. Faithful(s2, link2, open2, label2, With(b1, cur, e), n + 1, ns2)
  BY <1>12, <1>14, <1>15, <1>16, BodyBegun
<1> QED BY <1>4, <1>17

\* The points of a while loop.
LEMMA WhilePoints ==
  ASSUME NEW label \in Seq(Points), NEW n \in Nat, Len(label) = n, NEW q \in Nat
  PROVE  \E label2 \in Seq(Points) :
           /\ Prolongs(label2, label) /\ Len(label2) = n + 3
           /\ At(label2, n + 1, <<q, "self">>) /\ At(label2, n + 2, <<q, "in">>)
           /\ At(label2, n + 3, <<q, "behind">>)
<1> DEFINE add == <<<<q, "self">>, <<q, "in">>, <<q, "behind">>>>
<1>1. <<q, "in">> \in Points /\ <<q, "self">> \in Points /\ <<q, "behind">> \in Points
  BY PointTypes
<1>2. add \in Seq(Points) /\ Len(add) = 3 /\ {1, 2, 3} \subseteq 1 .. Len(add)
  BY <1>1
<1>3. add[1] = <<q, "self">> /\ add[2] = <<q, "in">> /\ add[3] = <<q, "behind">>
  OBVIOUS
<1> HIDE DEF add
<1> DEFINE l2 == label \o add
<1>4. /\ l2 \in Seq(Points) /\ Prolongs(l2, label) /\ Len(l2) = n + 3
      /\ At(l2, n + 1, <<q, "self">>) /\ At(l2, n + 2, <<q, "in">>)
      /\ At(l2, n + 3, <<q, "behind">>)
  BY <1>2, <1>3, MoreLabels
<1> HIDE DEF l2
<1> QED BY <1>4

\* Those of a for loop; control goes on at p behind its body.
LEMMA ForPoints ==
  ASSUME NEW label \in Seq(Points), NEW n \in Nat, Len(label) = n, NEW q \in Nat,
         NEW p \in Points
  PROVE  \E label2 \in Seq(Points) :
           /\ Prolongs(label2, label) /\ Len(label2) = n + 4
           /\ At(label2, n + 1, <<q, "self">>) /\ At(label2, n + 2, <<q, "in">>)
           /\ At(label2, n + 3, p) /\ At(label2, n + 4, <<q, "behind">>)
<1> DEFINE add == <<<<q, "self">>, <<q, "in">>, p, <<q, "behind">>>>
<1>1. <<q, "in">> \in Points /\ <<q, "self">> \in Points /\ <<q, "behind">> \in Points
  BY PointTypes
<1>2. add \in Seq(Points) /\ Len(add) = 4 /\ {1, 2, 3, 4} \subseteq 1 .. Len(add)
  BY <1>1
<1>3. add[1] = <<q, "self">> /\ add[2] = <<q, "in">> /\ add[3] = p /\ add[4] = <<q, "behind">>
  OBVIOUS
<1> HIDE DEF add
<1> DEFINE l2 == label \o add
<1>4. /\ l2 \in Seq(Points) /\ Prolongs(l2, label) /\ Len(l2) = n + 4
      /\ At(l2, n + 1, <<q, "self">>) /\ At(l2, n + 2, <<q, "in">>)
      /\ At(l2, n + 3, p) /\ At(l2, n + 4, <<q, "behind">>)
  BY <1>2, <1>3, MoreLabels
<1> HIDE DEF l2
<1> QED BY <1>4

\* Among n new blocks, block k is empty.
LEMMA FreshAt ==
  ASSUME NEW bs \in Seq(Blocks), NEW n \in Nat, NEW c \in 1 .. Len(bs), NEW k \in 1 .. n
  PROVE  /\ (bs \o Fresh(n))[c] = bs[c]
         /\ (bs \o Fresh(n))[Len(bs) + k].ops = <<>> /\ Len(bs) + k # c
<1>1. Len(bs) \in Nat /\ Len(bs) + k \in Len(bs) + 1 .. Len(bs) + n /\ Len(bs) + k # c
  OBVIOUS
<1> QED BY <1>1, FreshBlocks

\* The row in front of a loop without an initializer.
LEMMA LoopRow ==
  ASSUME NEW s, NEW link, NEW label, NEW q \in 1 .. Len(s), q \in Nat, s[q].kind \in LoopKinds,
         NEW b \in Nat, At(label, b, <<q, "self">>), NEW front, front \in {<<>>, <<Alloca>>}
  PROVE  /\ front \o <<Branch(b)>> \in OpSeqs
         /\ RowTo(s, link, label, front \o <<Branch(b)>>, q, 0)
<1> DEFINE e == <<Branch(b)>>
<1>1. BranchPoint(s, link, q) = <<q, "self">>
  BY DEF BranchPoint
<1>2. RowTo(s, link, label, e, q, 0)
  BY <1>1, BranchTo DEF At
<1>3. e \in OpSeqs
  BY BranchOp
<1>4. s[q].kind \notin {"else", "end", "break", "continue"}
  BY DEF LoopKinds
<1> HIDE DEF e
<1>5. front \in OpSeqs
  <2>1. <<>> \in OpSeqs /\ <<Alloca>> \in OpSeqs
    BY AllocaOp, NoOp
  <2> QED BY <2>1
<1>6. front \o e \in OpSeqs
  BY <1>3, <1>5, ConcatOps
<1>7. RowTo(s, link, label, front \o e, q, 0)
  BY <1>2, <1>3, <1>4, MaterializeTo
<1> QED BY <1>6, <1>7 DEF e

\* A while loop begins.
LEMMA FaithfulLoop ==
  ASSUME Generated, NEW link, NEW open, NEW label,
         Faithful(source, link, open, label, blocks, cur, nest), BeginWhile
  PROVE  \E link2, open2, label2 : Faithful(source', link2, open2, label2, blocks', cur', nest')
<1> DEFINE n == Len(blocks)
           f == [kind |-> "while", next |-> n + 1, merge |-> n + 3, continues |-> TRUE,
                 rest |-> FALSE]
<1>1. PICK u \in family.uses :
        /\ source' = Append(source, Token("while", TRUE, FALSE, u))
        /\ blocks' = With(With(blocks \o Fresh(3), cur, Materialize \o <<Branch(n + 1)>>), n + 1,
                          <<CondBranch(Len(source) + 1, Access(u, TRUE), n + 2, n + 3)>>)
        /\ cur' = n + 2 /\ nest' = Append(nest, f)
  BY DEF BeginWhile
<1>2. CanEmit
  BY DEF BeginWhile, CanOpen
<1>3. /\ Layout(source, link, open, label, nest) /\ label \in Seq(Points)
      /\ label[1] = <<0, "in">> /\ Len(label) = n /\ n \in Nat
      /\ WrittenTo(source, link, label, blocks, cur, Len(source) + 1)
      /\ ~Ends(blocks[cur].ops) /\ cur \in 1 .. n /\ blocks \in Seq(Blocks)
      /\ Len(source) \in Nat /\ Len(source) + 1 \in Nat /\ Len(nest) \in Nat
      /\ Materialize \in {<<>>, <<Alloca>>} /\ Materialize \in OpSeqs
  BY <1>2, BeforeHead
<1> DEFINE q == Len(source) + 1
           x == Token("while", TRUE, FALSE, u)
           reach == Access(u, TRUE)
           e == Materialize \o <<Branch(n + 1)>>
           d == <<CondBranch(q, reach, n + 2, n + 3)>>
           b1 == blocks \o Fresh(3)
           s2 == Append(source, x)
           link2 == Append(link, 0)
           open2 == Append(open, q)
           ns2 == Append(nest, f)
<1>4. /\ source' = s2 /\ blocks' = With(With(b1, cur, e), n + 1, d) /\ cur' = n + 2 /\ nest' = ns2
  BY <1>1
<1>5. n + 1 \in Nat /\ n + 2 \in Nat /\ n + 3 \in Nat
  BY <1>3
<1>6. f \in Frames /\ f.kind = "while" /\ f.next = n + 1 /\ f.merge = n + 3 /\ ~f.rest
  BY <1>3, <1>5 DEF Frames
<1>7. u \in {"none", "read", "assign"}
  BY GeneratedTypes
<1>8. x \in Tokens /\ x.kind = "while" /\ x.depth = Len(nest) /\ x.test = TRUE /\ x.rest = f.rest
  <2>1. PICK yes \in BOOLEAN : yes = TRUE
    OBVIOUS
  <2>2. PICK no \in BOOLEAN : no = FALSE
    OBVIOUS
  <2> DEFINE y == Token("while", yes, no, u)
  <2>3. y \in Tokens /\ y.kind = "while" /\ y.depth = Len(nest) /\ y.test = yes /\ y.rest = no
    BY <1>3, <1>7, TokenFields
  <2>4. x = y
    BY <2>1, <2>2, Zenon
  <2>5. f.rest = no
    BY <2>2
  <2> HIDE DEF y, x, f
  <2> QED BY <2>1, <2>3, <2>4, <2>5
<1>9. reach \in Reaches
  <2>1. reach \in {"none", "slot", "store"}
    BY <1>7, AccessReach, Zenon
  <2> QED BY <2>1 DEF Reaches
<1>10. PICK label2 \in Seq(Points) :
           /\ Prolongs(label2, label) /\ Len(label2) = n + 3
           /\ At(label2, n + 1, <<q, "self">>) /\ At(label2, n + 2, <<q, "in">>)
           /\ At(label2, n + 3, <<q, "behind">>)
  <2> HIDE DEF n
  <2> QED BY <1>3, WhilePoints
<1> HIDE DEF x, f, b1, s2, link2, ns2, reach, d, open2
<1>11. Begins(label, x, q, f, label2)
  <2>1. IsLoop(f)
    BY <1>6 DEF IsLoop
  <2>2. At(label2, f.merge, <<q, "behind">>) /\ At(label2, f.next, <<q, "self">>)
    BY <1>6, <1>10
  <2>3. At(label2, Targets(f).continue, <<q, IF f.rest THEN "end" ELSE "self">>)
    <3>1. Targets(f).continue = f.next
      BY <1>6 DEF Targets
    <3> QED BY <1>6, <2>2, <3>1
  <2> QED BY <1>6, <1>8, <1>10, <2>1, <2>2, <2>3 DEF Begins
<1>12. /\ Layout(s2, link2, open2, label2, ns2)
       /\ WrittenTo(s2, link2, label2, b1, cur, q) /\ label2[1] = <<0, "in">>
       /\ q \in Nat /\ Len(s2) = q /\ q \in 1 .. Len(s2) /\ s2[q] = x
  <2>1. f.kind # "else"
    BY <1>6
  <2>2. Opens(source, link, open, label, blocks, cur, nest, q, x, q, f, label2, 3)
    BY <1>3, <1>5, <1>6, <1>8, <1>10, <1>11, <2>1 DEF Opens
  <2> HIDE DEF q
  <2> QED BY <2>2, HeadBegun DEF s2, link2, ns2, b1, open2
<1> HIDE DEF q
<1>13. d \in OpSeqs /\ RowTo(s2, link2, label2, d, q, 0)
  <2>1. s2[q].kind = "while" /\ s2[q].test
    BY <1>8, <1>12
  <2>2. s2[q].kind \in Heads
    BY <2>1 DEF Heads, LoopKinds
  <2>3. /\ n + 2 \in 1 .. Len(label2) /\ n + 3 \in 1 .. Len(label2) /\ label2[n + 2] = <<q, "in">>
        /\ label2[n + 3] = <<q, IF s2[q].kind = "if" /\ s2[q].rest THEN "else" ELSE "behind">>
    BY <1>10, <2>1 DEF At
  <2> HIDE DEF n
  <2>4. RowTo(s2, link2, label2, d, q, 0)
    BY <1>5, <1>9, <1>12, <2>1, <2>2, <2>3, TestTo DEF d
  <2>5. d \in OpSeqs
    BY <1>5, <1>9, <1>12 DEF d, CondBranch, Op, OpSeqs, Operations, Kinds
  <2> QED BY <2>4, <2>5
<1>14. e \in OpSeqs /\ RowTo(s2, link2, label2, e, q, 0)
  <2>1. s2[q].kind \in LoopKinds
    BY <1>8, <1>12 DEF LoopKinds
  <2> HIDE DEF n
  <2> QED BY <1>3, <1>5, <1>10, <1>12, <2>1, LoopRow
<1>15. /\ b1[cur] = blocks[cur] /\ b1[n + 1].ops = <<>> /\ n + 1 # cur
       /\ b1[n + 2].ops = <<>> /\ n + 2 # cur /\ n + 2 # n + 1
  <2>1. PICK k \in Nat : k = 3
    OBVIOUS
  <2>2. b1 = blocks \o Fresh(k) /\ 1 \in 1 .. k /\ 2 \in 1 .. k
    BY <2>1 DEF b1
  <2>3. \A i \in 1 .. k : /\ (blocks \o Fresh(k))[cur] = blocks[cur]
                          /\ (blocks \o Fresh(k))[n + i].ops = <<>> /\ n + i # cur
    BY <1>3, FreshAt
  <2>4. n + 2 # n + 1
    BY <1>3
  <2> HIDE DEF n
  <2> QED BY <2>2, <2>3, <2>4
<1>16. /\ At(label2, n + 1, <<Len(s2), "self">>) /\ At(label2, n + 2, <<Len(s2), "in">>)
       /\ ~Ends(b1[cur].ops) /\ RowTo(s2, link2, label2, d, Len(s2), 0)
  BY <1>3, <1>10, <1>12, <1>13, <1>15
<1> HIDE DEF e, n
<1>17. Faithful(s2, link2, open2, label2, With(With(b1, cur, e), n + 1, d), n + 2, ns2)
  BY <1>12, <1>13, <1>14, <1>15, <1>16, LoopBegun
<1> QED BY <1>4, <1>17

\* The loop at q, whose header is block b, follows an initializer at r if it has
\* one, which mid executes.
InitAt(s, label, q, b, u, m, r, mid) ==
  /\ q \in 1 .. Len(s) /\ q \in Nat /\ s[q].kind \in LoopKinds
  /\ b \in Nat /\ At(label, b, <<q, "self">>)
  /\ u \in Reaches /\ m \in {0, 1} /\ r \in Nat /\ r + m = q
  /\ m = 1 => r \in 1 .. Len(s) /\ s[r].kind = "stmt"
  /\ mid = [i \in 1 .. m |-> Op("stmt", r, <<>>, u)]

\* The row in front of a for loop: its initializer, if it has one, is executed
\* at the token before.
LEMMA InitRow ==
  ASSUME NEW s, NEW link, NEW label, NEW q, NEW b, NEW u, NEW m, NEW r, NEW mid,
         InitAt(s, label, q, b, u, m, r, mid), NEW front, front \in {<<>>, <<Alloca>>}
  PROVE  /\ front \o mid \o <<Branch(b)>> \in OpSeqs
         /\ RowTo(s, link, label, front \o mid \o <<Branch(b)>>, r, 0)
<1> DEFINE last == <<Branch(b)>>
           op == Op("stmt", r, <<>>, u)
<1>init. /\ q \in 1 .. Len(s) /\ q \in Nat /\ s[q].kind \in LoopKinds
         /\ b \in Nat /\ At(label, b, <<q, "self">>)
         /\ u \in Reaches /\ m \in {0, 1} /\ r \in Nat /\ r + m = q
         /\ m = 1 => r \in 1 .. Len(s) /\ s[r].kind = "stmt"
         /\ mid = [i \in 1 .. m |-> Op("stmt", r, <<>>, u)]
  BY DEF InitAt
<1> USE <1>init
<1>0. front \in OpSeqs /\ last \in OpSeqs
  <2>1. <<>> \in OpSeqs /\ <<Alloca>> \in OpSeqs
    BY AllocaOp, NoOp
  <2> QED BY <2>1, BranchOp
<1>1. CASE m = 0
  <2>1. mid = <<>> /\ r = q
    BY <1>1
  <2>2. front \o mid = front
    BY <1>0, <2>1 DEF OpSeqs
  <2>3. front \o last \in OpSeqs /\ RowTo(s, link, label, front \o last, q, 0)
    BY LoopRow
  <2> HIDE DEF last
  <2>4. front \o mid \o last \in OpSeqs /\ RowTo(s, link, label, front \o mid \o last, r, 0)
    BY <2>1, <2>2, <2>3
  <2> QED BY <2>4 DEF last
<1>2. CASE m = 1
  <2>1. mid = <<op>> /\ r + 1 = q
    BY <1>2
  <2>2. r \in 1 .. Len(s) /\ s[r].kind = "stmt"
    BY <1>2
  <2>3. RowTo(s, link, label, <<op>>, r, q)
    BY <2>1, <2>2, PlainTo
  <2>4. <<op>> \in OpSeqs /\ op.kind = "stmt"
    BY DEF Op, OpSeqs, Operations, Kinds
  <2>5. RowTo(s, link, label, last, q, 0)
    <3>1. BranchPoint(s, link, q) = <<q, "self">>
      BY DEF BranchPoint
    <3> QED BY <3>1, BranchTo DEF At
  <2> HIDE DEF last, op
  <2> DEFINE one == <<op>>
             fore == front \o one
  <2>6. Len(one) = 1 /\ one[1] = op /\ one \in OpSeqs /\ RowTo(s, link, label, one, r, q)
    BY <2>3, <2>4
  <2> HIDE DEF one
  <2>7. RowTo(s, link, label, fore, r, q)
    BY <2>2, <2>6, MaterializeTo
  <2>8. fore \in OpSeqs /\ fore[Len(fore)].kind \notin Terminators
    <3>1. AreJoined(front, one, fore)
      BY <1>0, <2>6, Joined
    <3> HIDE DEF fore
    <3>2. fore[Len(fore)] = op
      BY <2>6, <3>1 DEF AreJoined
    <3> QED BY <2>4, <3>1, <3>2 DEF AreJoined, Terminators
  <2> HIDE DEF fore
  <2>9. fore \o last \in OpSeqs /\ RowTo(s, link, label, fore \o last, r, 0)
    BY <1>0, <2>5, <2>7, <2>8, ConcatOps, RowToJoin
  <2>10. fore = front \o mid
    BY <2>1 DEF fore, one
  <2> QED BY <2>9, <2>10 DEF last
<1> QED BY <1>1, <1>2

\* The header of a for loop.
LEMMA ForTestTo ==
  ASSUME NEW s, NEW link, NEW label, NEW q \in 1 .. Len(s), q \in Nat, s[q].kind = "for",
         NEW test \in BOOLEAN, s[q].test = test, NEW u \in Reaches, NEW b \in Nat, NEW c \in Nat,
         At(label, b, <<q, "in">>), At(label, c, <<q, "behind">>)
  PROVE  LET e == <<IF test THEN CondBranch(q, u, b, c) ELSE [Branch(b) EXCEPT !.token = q]>>
         IN  e \in OpSeqs /\ RowTo(s, link, label, e, q, 0)
<1> DEFINE always == [Branch(b) EXCEPT !.token = q]
<1>1. CASE test
  <2>1. s[q].kind \in Heads /\ s[q].test /\ s[q].kind # "if"
    BY <1>1 DEF Heads, LoopKinds
  <2>2. RowTo(s, link, label, <<CondBranch(q, u, b, c)>>, q, 0)
    BY <2>1, TestTo DEF At
  <2>3. <<CondBranch(q, u, b, c)>> \in OpSeqs
    BY DEF CondBranch, Op, OpSeqs, Operations, Kinds
  <2> QED BY <1>1, <2>2, <2>3
<1>2. CASE ~test
  <2>1. RowTo(s, link, label, <<always>>, q, 0)
    BY <1>2, AlwaysTo DEF At
  <2>2. always \in Operations
    <3>1. Branch(b) \in Operations
      BY BranchOp
    <3> QED BY <3>1 DEF Operations
  <2> HIDE DEF always
  <2>3. <<always>> \in OpSeqs
    BY <2>2 DEF OpSeqs
  <2> QED BY <1>2, <2>1, <2>3 DEF always
<1> QED BY <1>1, <1>2

\* The initializer of a for loop follows in the body as a statement.
InitAdded(link, open, label, u, init, s1, link1) ==
  LET row == IF init THEN <<Token("stmt", FALSE, FALSE, u)>> ELSE <<>>
  IN  /\ Layout(s1, link1, open, label, nest)
      /\ WrittenTo(s1, link1, label, blocks, cur, Len(source) + 1)
      /\ Len(row) \in {0, 1} /\ Len(s1) = Len(source) + Len(row)
      /\ Len(row) = 1 => s1[Len(source) + 1].kind = "stmt"
      /\ s1 \in Seq(Tokens) /\ s1 = source \o row

LEMMA ForInit ==
  ASSUME Generated, NEW link, NEW open, NEW label,
         Faithful(source, link, open, label, blocks, cur, nest),
         NEW u \in {"none", "read", "assign"}, NEW init \in BOOLEAN
  PROVE  \E s1, link1 : InitAdded(link, open, label, u, init, s1, link1)
<1>0. Len(nest) \in Nat /\ source \in Seq(Tokens)
  BY GeneratedTypes DEF Generated
<1>1. CASE ~init
  <2> DEFINE row == <<>>
  <2>1. Len(row) = 0 /\ Len(source) = Len(source) + 0 /\ source = source \o row
    BY <1>0
  <2>2. Layout(source, link, open, label, nest)
        /\ WrittenTo(source, link, label, blocks, cur, Len(source) + 1)
    BY DEF Faithful
  <2> QED BY <1>0, <1>1, <2>1, <2>2 DEF InitAdded
<1>2. CASE init
  <2> DEFINE x == Token("stmt", FALSE, FALSE, u)
             s1 == Append(source, x)
             link1 == Append(link, 0)
  <2>1. x \in Tokens /\ x.kind = "stmt" /\ x.depth = Len(nest)
    BY <1>0, PlainFields
  <2> HIDE DEF x
  <2>2. Added(source, link, x, 0, s1, link1) /\ Layout(s1, link1, open, label, nest)
    BY <2>1, PlainAdded
  <2>3. s1 = source \o <<x>> /\ s1 \in Seq(Tokens) /\ Len(<<x>>) = 1
    BY <1>0, <2>1
  <2> HIDE DEF s1, link1
  <2>4. /\ WrittenTo(s1, link1, label, blocks, cur, Len(s1))
        /\ Len(s1) = Len(source) + 1 /\ s1[Len(s1)] = x
    BY <2>2, FaithfulAdded
  <2> DEFINE row == <<x>>
  <2>5. Len(row) = 1 /\ s1 = source \o row
    BY <2>3
  <2> HIDE DEF row
  <2>6. row = IF init THEN <<Token("stmt", FALSE, FALSE, u)>> ELSE <<>>
    BY <1>2 DEF row, x
  <2>7. /\ Layout(s1, link1, open, label, nest)
        /\ WrittenTo(s1, link1, label, blocks, cur, Len(source) + 1)
        /\ Len(row) \in {0, 1} /\ Len(s1) = Len(source) + Len(row)
        /\ Len(row) = 1 => s1[Len(source) + 1].kind = "stmt"
        /\ s1 \in Seq(Tokens) /\ s1 = source \o row
    BY <2>1, <2>2, <2>3, <2>4, <2>5
  <2>8. InitAdded(link, open, label, u, init, s1, link1)
    BY <2>6, <2>7, Zenon DEF InitAdded
  <2> QED BY <2>8
<1> QED BY <1>1, <1>2

\* A for loop begins.
LEMMA FaithfulHeader ==
  ASSUME Generated, NEW link, NEW open, NEW label,
         Faithful(source, link, open, label, blocks, cur, nest), BeginFor
  PROVE  \E link2, open2, label2 : Faithful(source', link2, open2, label2, blocks', cur', nest')
<1> DEFINE n == Len(blocks)
           Initial(form, u) == IF form.init THEN <<Token("stmt", FALSE, FALSE, u)>> ELSE <<>>
           TestToken(form, u) == Len(source) + Len(Initial(form, u)) + 1
           Frame(form) == [kind |-> "for", next |-> n + 1, merge |-> n + 4, continues |-> TRUE,
                           rest |-> form.incr]
<1>1. PICK u \in family.uses, form \in family.forForms :
        /\ source' = source \o Initial(form, u) \o <<Token("for", form.test, form.incr, u)>>
        /\ blocks' = With(With(blocks \o Fresh(4), cur,
                               Materialize
                               \o [i \in 1 .. Len(Initial(form, u)) |->
                                     Op("stmt", Len(source) + 1, <<>>, Access(u, TRUE))]
                               \o <<Branch(n + 1)>>),
                          n + 1,
                          <<IF form.test
                            THEN CondBranch(TestToken(form, u), Access(u, TRUE), n + 2, n + 4)
                            ELSE [Branch(n + 2) EXCEPT !.token = TestToken(form, u)]>>)
        /\ cur' = n + 2 /\ nest' = Append(nest, Frame(form))
  BY DEF BeginFor
<1>2. CanEmit
  BY DEF BeginFor, CanOpen
<1>3. /\ label \in Seq(Points) /\ label[1] = <<0, "in">> /\ Len(label) = n /\ n \in Nat
      /\ ~Ends(blocks[cur].ops) /\ cur \in 1 .. n /\ blocks \in Seq(Blocks)
      /\ Len(source) \in Nat /\ Len(source) + 1 \in Nat /\ Len(nest) \in Nat
      /\ Materialize \in {<<>>, <<Alloca>>} /\ Materialize \in OpSeqs
  BY <1>2, BeforeHead
<1>4. /\ u \in {"none", "read", "assign"}
      /\ form.init \in BOOLEAN /\ form.test \in BOOLEAN /\ form.incr \in BOOLEAN
  BY GeneratedTypes
<1> DEFINE row == Initial(form, u)
           k == Len(row)
           r == Len(source) + 1
           q == TestToken(form, u)
           x == Token("for", form.test, form.incr, u)
           reach == Access(u, TRUE)
           f == Frame(form)
           e == Materialize \o [i \in 1 .. k |-> Op("stmt", r, <<>>, reach)] \o <<Branch(n + 1)>>
           d == <<IF form.test THEN CondBranch(q, reach, n + 2, n + 4)
                               ELSE [Branch(n + 2) EXCEPT !.token = q]>>
           b1 == blocks \o Fresh(4)
           open2 == Append(open, q)
           ns2 == Append(nest, f)
<1>5. /\ source' = source \o row \o <<x>> /\ blocks' = With(With(b1, cur, e), n + 1, d)
      /\ cur' = n + 2 /\ nest' = ns2
  BY <1>1
<1>6. PICK s1, link1 : InitAdded(link, open, label, u, form.init, s1, link1)
  BY <1>4, ForInit
<1>7. /\ Layout(s1, link1, open, label, nest)
      /\ WrittenTo(s1, link1, label, blocks, cur, r)
      /\ k \in {0, 1} /\ Len(s1) = Len(source) + k
      /\ k = 1 => s1[r].kind = "stmt"
      /\ s1 \in Seq(Tokens) /\ s1 = source \o row
  BY <1>6, Zenon DEF InitAdded
<1>8. q = Len(s1) + 1 /\ q = r + k
  <2> HIDE DEF k
  <2>1. q = Len(source) + k + 1
    BY DEF k
  <2> QED BY <1>3, <1>7, <2>1
<1>9. n + 1 \in Nat /\ n + 2 \in Nat /\ n + 3 \in Nat /\ n + 4 \in Nat /\ q \in Nat /\ r \in Nat
  <2> HIDE DEF q, k
  <2> QED BY <1>3, <1>7, <1>8
<1>10. f \in Frames /\ f.kind = "for" /\ f.next = n + 1 /\ f.merge = n + 4 /\ f.rest = form.incr
  BY <1>4, <1>9 DEF Frames
<1>11. /\ x \in Tokens /\ x.kind = "for" /\ x.depth = Len(nest) /\ x.test = form.test
       /\ x.rest = form.incr
  BY <1>3, <1>4, TokenFields, SMTT(30)
<1>12. reach \in Reaches
  <2>1. reach \in {"none", "slot", "store"}
    BY <1>4, AccessReach, Zenon
  <2> QED BY <2>1 DEF Reaches
<1> DEFINE s2 == Append(s1, x)
           link2 == Append(link1, 0)
<1>13. source' = s2
  <2> HIDE DEF x
  <2>1. Append(s1, x) = s1 \o <<x>>
    BY <1>7, <1>11
  <2> QED BY <1>5, <1>7, <2>1
<1> HIDE DEF x, f, Frame, b1, s2, link2, ns2, reach, d, open2, k, q, row, Initial, TestToken, r
<1> DEFINE p == <<q, IF f.rest THEN "end" ELSE "self">>
<1>14. PICK label2 \in Seq(Points) :
           /\ Prolongs(label2, label) /\ Len(label2) = n + 4
           /\ At(label2, n + 1, <<q, "self">>) /\ At(label2, n + 2, <<q, "in">>)
           /\ At(label2, n + 3, p) /\ At(label2, n + 4, <<q, "behind">>)
  <2>1. p \in Points
    BY <1>9, PointTypes
  <2> HIDE DEF n, p
  <2> QED BY <1>3, <1>9, <2>1, ForPoints
<1>15. Begins(label, x, q, f, label2)
  <2>1. IsLoop(f)
    BY <1>10 DEF IsLoop
  <2>2. At(label2, f.merge, <<q, "behind">>) /\ At(label2, f.next, <<q, "self">>)
    BY <1>10, <1>14
  <2>3. At(label2, Targets(f).continue, p)
    <3>1. Targets(f).continue = n + 3
      <4>1. n + 4 - 1 = n + 3
        BY <1>3
      <4> QED BY <1>10, <4>1 DEF Targets
    <3> QED BY <1>14, <3>1
  <2> QED BY <1>10, <1>11, <1>14, <2>1, <2>2, <2>3 DEF Begins
<1>16. /\ Layout(s2, link2, open2, label2, ns2)
       /\ WrittenTo(s2, link2, label2, b1, cur, r) /\ label2[1] = <<0, "in">>
       /\ Len(s2) = q /\ q \in 1 .. Len(s2) /\ s2[q] = x
  <2>1. f.kind # "else"
    BY <1>10
  <2>2. Opens(s1, link1, open, label, blocks, cur, nest, r, x, q, f, label2, 4)
    BY <1>3, <1>7, <1>8, <1>10, <1>11, <1>14, <1>15, <2>1 DEF Opens
  <2> QED BY <2>2, HeadBegun DEF s2, link2, ns2, b1, open2
<1>17. k = 1 => r \in 1 .. Len(s2) /\ s2[r].kind = "stmt"
  <2> SUFFICES ASSUME k = 1 PROVE r \in 1 .. Len(s2) /\ s2[r].kind = "stmt"
    OBVIOUS
  <2>1. r = Len(s1) /\ r \in 1 .. Len(s1)
    BY <1>3, <1>7 DEF r
  <2>2. s2[r] = s1[r]
    BY <1>7, <1>11, <2>1 DEF s2
  <2>3. r \in 1 .. Len(s2)
    BY <1>8, <1>9, <1>16, <2>1
  <2> QED BY <1>7, <2>2, <2>3
<1>18. d \in OpSeqs /\ RowTo(s2, link2, label2, d, q, 0)
  <2>1. s2[q].kind = "for" /\ s2[q].test = form.test
    BY <1>11, <1>16
  <2> DEFINE test == form.test
  <2>2. test \in BOOLEAN /\ s2[q].test = test
    BY <1>4, <2>1
  <2>3. d = <<IF test THEN CondBranch(q, reach, n + 2, n + 4) ELSE [Branch(n + 2) EXCEPT !.token = q]>>
    BY DEF d
  <2> HIDE DEF n, test
  <2> QED BY <1>9, <1>12, <1>14, <1>16, <2>1, <2>2, <2>3, ForTestTo
<1>19. e \in OpSeqs /\ RowTo(s2, link2, label2, e, r, 0)
  <2>1. s2[q].kind \in LoopKinds
    BY <1>11, <1>16 DEF LoopKinds
  <2> DEFINE front == Materialize
             h == n + 1
  <2>2. front \in {<<>>, <<Alloca>>} /\ h \in Nat /\ At(label2, h, <<q, "self">>) /\ r + k = q
    BY <1>3, <1>8, <1>9, <1>14
  <2> DEFINE mid == [i \in 1 .. k |-> Op("stmt", r, <<>>, reach)]
  <2>3. e = front \o mid \o <<Branch(h)>>
    OBVIOUS
  <2>4. mid = [i \in 1 .. k |-> Op("stmt", r, <<>>, reach)]
    OBVIOUS
  <2> HIDE DEF front, h, n, e, mid
  <2>5. InitAt(s2, label2, q, h, reach, k, r, mid)
    BY <1>7, <1>9, <1>12, <1>16, <1>17, <2>1, <2>2, <2>4 DEF InitAt
  <2>6. /\ front \o mid \o <<Branch(h)>> \in OpSeqs
        /\ RowTo(s2, link2, label2, front \o mid \o <<Branch(h)>>, r, 0)
    BY <2>2, <2>5, InitRow
  <2> QED BY <2>3, <2>6
<1>20. /\ b1[cur] = blocks[cur] /\ b1[n + 1].ops = <<>> /\ n + 1 # cur
       /\ b1[n + 2].ops = <<>> /\ n + 2 # cur /\ n + 2 # n + 1
  <2>1. PICK m \in Nat : m = 4
    OBVIOUS
  <2>2. b1 = blocks \o Fresh(m) /\ 1 \in 1 .. m /\ 2 \in 1 .. m
    BY <2>1 DEF b1
  <2>3. \A i \in 1 .. m : /\ (blocks \o Fresh(m))[cur] = blocks[cur]
                          /\ (blocks \o Fresh(m))[n + i].ops = <<>> /\ n + i # cur
    BY <1>3, FreshAt
  <2>4. n + 2 # n + 1
    BY <1>3
  <2> HIDE DEF n
  <2> QED BY <2>2, <2>3, <2>4
<1>21. /\ At(label2, n + 1, <<Len(s2), "self">>) /\ At(label2, n + 2, <<Len(s2), "in">>)
       /\ ~Ends(b1[cur].ops) /\ RowTo(s2, link2, label2, d, Len(s2), 0)
  BY <1>3, <1>14, <1>16, <1>18, <1>20
<1> HIDE DEF e, n
<1>22. Faithful(s2, link2, open2, label2, With(With(b1, cur, e), n + 1, d), n + 2, ns2)
  BY <1>16, <1>18, <1>19, <1>20, <1>21, LoopBegun
<1> QED BY <1>5, <1>13, <1>22

-----------------------------------------------------------------------------
(* All steps of generation.                                                   *)

InProgress == \E link, open, label : Faithful(source, link, open, label, blocks, cur, nest)

\* Generation begins with an empty body.
LEMMA FaithfulInit == Init => InProgress
<1> SUFFICES ASSUME Init PROVE InProgress
  OBVIOUS
<1> DEFINE label == <<<<0, "in">>>>
           link == <<>>
           open == <<>>
<1>1. source = <<>> /\ blocks = <<NewBlock>> /\ cur = 1 /\ nest = <<>>
  BY DEF Init
<1>2. NewBlock \in Blocks /\ NewBlock.ops = <<>>
  BY NoOp DEF NewBlock, Blocks
<1>3. blocks \in Seq(Blocks) /\ Len(blocks) = 1 /\ blocks[1].ops = <<>> /\ 1 .. 1 = {1}
      /\ 1 .. 0 = {} /\ Len(source) = 0 /\ Len(nest) = 0
  <2> HIDE DEF NewBlock
  <2> QED BY <1>1, <1>2
<1>4. label \in Seq(Points) /\ Len(label) = 1 /\ label[1] = <<0, "in">>
  <2>1. <<0, "in">> \in Points
    BY PointTypes
  <2> QED BY <2>1
<1>5. /\ source \in Seq(Tokens) /\ nest \in Seq(Frames)
      /\ link \in Seq(Nat) /\ Len(link) = 0 /\ open \in Seq(Nat) /\ Len(open) = 0
  BY <1>1
<1> HIDE DEF label, link, open
<1>6. Layout(source, link, open, label, nest)
  BY <1>3, <1>4, <1>5 DEF Layout, Linked
<1>7. WrittenTo(source, link, label, blocks, 1, 1)
  <2>1. Written(source, link, label, blocks)
    <3>1. \A b \in 1 .. Len(blocks) : \E ps : Filed(source, link, label, label[b], blocks[b].ops, ps)
      BY <1>3, NothingFiled
    <3> QED BY <1>3, <1>4, <3>1 DEF Written
  <2>2. IsPoint(source, link, label[1], 1)
    BY <1>4 DEF IsPoint
  <2> QED BY <1>3, <2>1, <2>2, WrittenMove
<1>8. Faithful(source, link, open, label, blocks, cur, nest)
  BY <1>1, <1>3, <1>4, <1>6, <1>7 DEF Faithful
<1> QED BY <1>8 DEF InProgress

\* Every step of generation up to the end of the body.
LEMMA EmitFaithful ==
  ASSUME Generated, InProgress,
         \/ Statement \/ LeaveOut \/ Break \/ ContinueStatement \/ Return
         \/ BeginIf \/ EndThen \/ EndElse \/ BeginWhile \/ EndWhile \/ BeginFor \/ EndFor
  PROVE  InProgress'
<1>1. PICK link, open, label : Faithful(source, link, open, label, blocks, cur, nest)
  BY DEF InProgress
<1> SUFFICES \E link2, open2, label2 :
               Faithful(source', link2, open2, label2, blocks', cur', nest')
  BY DEF InProgress
<1>2. CASE Statement
  <2>1. PICK u \in family.uses :
          /\ source' = Append(source, Token("stmt", FALSE, FALSE, u))
          /\ blocks' = With(blocks, cur, Lazily(u) \o
                              <<Op("stmt", Len(source) + 1, <<>>, Access(u, stored))>>)
    BY <1>2 DEF Statement
  <2>2. cur' = cur /\ nest' = nest /\ ~Terminated(blocks, cur)
    BY <1>2 DEF Statement, CanEmit
  <2>3. Faithful(Append(source, Token("stmt", FALSE, FALSE, u)), Append(link, 0), open, label,
                 With(blocks, cur, Lazily(u) \o
                        <<Op("stmt", Len(source) + 1, <<>>, Access(u, stored))>>), cur, nest)
    BY <1>1, <2>2, FaithfulPlain
  <2>4. Faithful(source', Append(link, 0), open, label, blocks', cur', nest')
    BY <2>1, <2>2, <2>3, Zenon
  <2> QED BY <2>4, Zenon
<1>3. CASE Return
  <2>1. PICK u \in family.uses :
          /\ source' = Append(source, Token("return", FALSE, FALSE, u))
          /\ blocks' = With(blocks, cur, Lazily(u) \o
                              <<Op("return", Len(source) + 1, <<>>, Access(u, stored))>>)
    BY <1>3 DEF Return
  <2>2. cur' = cur /\ nest' = nest /\ ~Terminated(blocks, cur)
    BY <1>3 DEF Return, CanEmit
  <2>3. Faithful(Append(source, Token("return", FALSE, FALSE, u)), Append(link, 0), open, label,
                 With(blocks, cur, Lazily(u) \o
                        <<Op("return", Len(source) + 1, <<>>, Access(u, stored))>>), cur, nest)
    BY <1>1, <2>2, FaithfulPlain
  <2>4. Faithful(source', Append(link, 0), open, label, blocks', cur', nest')
    BY <2>1, <2>2, <2>3, Zenon
  <2> QED BY <2>4, Zenon
<1>4. CASE LeaveOut
  <2>1. /\ source' = Append(source, Token("dead", FALSE, FALSE, "none"))
        /\ blocks' = blocks /\ cur' = cur /\ nest' = nest /\ Terminated(blocks, cur)
    BY <1>4 DEF LeaveOut
  <2>2. Faithful(Append(source, Token("dead", FALSE, FALSE, "none")), Append(link, 0), open, label,
                 blocks, cur, nest)
    BY <1>1, <2>1, FaithfulDead
  <2>3. Faithful(source', Append(link, 0), open, label, blocks', cur', nest')
    BY <2>1, <2>2, Zenon
  <2> QED BY <2>3, Zenon
<1>5. ASSUME NEW kind \in {"break", "continue"}, NEW target, Jump(kind, target),
             kind = "break" => target = loopTargets[Len(loopTargets)].break,
             kind = "continue" => target = loopTargets[Len(loopTargets)].continue
      PROVE  \E link2, open2, label2 :
               Faithful(source', link2, open2, label2, blocks', cur', nest')
  <2>1. /\ source' = Append(source, Token(kind, FALSE, FALSE, "none"))
        /\ blocks' = With(blocks, cur, <<Branch(target)>>) /\ cur' = cur /\ nest' = nest
        /\ ~Terminated(blocks, cur) /\ loopTargets # <<>>
    BY <1>5 DEF Jump, CanEmit
  <2>2. \E l : Faithful(Append(source, Token(kind, FALSE, FALSE, "none")), Append(link, l),
                        open, label, With(blocks, cur, <<Branch(target)>>), cur, nest)
    BY <1>1, <1>5, <2>1, FaithfulJump
  <2>3. \E l : Faithful(source', Append(link, l), open, label, blocks', cur', nest')
    BY <2>1, <2>2, Zenon
  <2> QED BY <2>3, Zenon
<1>6. CASE Break
  <2>1. Jump("break", loopTargets[Len(loopTargets)].break)
    BY <1>6 DEF Break, BreakTarget
  <2> QED BY <1>5, <2>1
<1>7. CASE ContinueStatement
  <2>1. Jump("continue", loopTargets[Len(loopTargets)].continue)
    BY <1>7 DEF ContinueStatement, ContinueTarget
  <2> QED BY <1>5, <2>1
<1>8. CASE BeginIf
  BY <1>1, <1>8, FaithfulIf
<1>9. CASE EndThen
  BY <1>1, <1>9, FaithfulThen
<1>10. CASE EndElse
  BY <1>1, <1>10, FaithfulElse
<1>11. CASE BeginWhile
  BY <1>1, <1>11, FaithfulLoop
<1>12. CASE EndWhile
  BY <1>1, <1>12, FaithfulWhile
<1>13. CASE BeginFor
  BY <1>1, <1>13, FaithfulHeader
<1>14. CASE EndFor
  BY <1>1, <1>14, FaithfulFor
<1> QED BY <1>2, <1>3, <1>4, <1>6, <1>7, <1>8, <1>9, <1>10, <1>11, <1>12, <1>13, <1>14

\* The whole body is generated faithfully.
LEMMA FaithfulBody ==
  ASSUME Generated, InProgress, EndBody, stage' = "run"
  PROVE  \E link, label : /\ Whole(source', link) /\ Written(source', link, label, blocks')
                          /\ label[1] = <<0, "in">>
<1> DEFINE x == Token("finish", FALSE, FALSE, "none")
           e == <<Op("return", Len(source) + 1, <<>>, "none")>>
<1>1. /\ nest = <<>> /\ source' = Append(source, x)
      /\ \/ blocks' = blocks /\ Terminated(blocks, cur)
         \/ blocks' = With(blocks, cur, e) /\ ~Terminated(blocks, cur)
  BY DEF EndBody
<1>2. PICK link, open, label : Faithful(source, link, open, label, blocks, cur, nest)
  BY DEF InProgress
<1> DEFINE s2 == Append(source, x)
           link2 == Append(link, 0)
<1>3. x \in Tokens /\ x.kind = "finish" /\ x.depth = Len(nest)
  BY GeneratedTypes, PlainFields
<1>4. ~Terminated(blocks, cur) => ~Ends(blocks[cur].ops)
  BY GeneratedTypes
<1> HIDE DEF x
<1>5. Added(source, link, x, 0, s2, link2) /\ Layout(s2, link2, open, label, nest)
  BY <1>2, <1>3, PlainAdded
<1> HIDE DEF s2, link2
<1>6. /\ Len(s2) \in 1 .. Len(s2) /\ Len(s2) \in Nat /\ s2[Len(s2)] = x
      /\ Len(s2) = Len(source) + 1
  BY <1>2, <1>5, FaithfulAdded
<1>7. ASSUME blocks' = blocks, Terminated(blocks, cur)
      PROVE  Written(s2, link2, label, blocks')
  <2>1. Faithful(s2, link2, open, label, blocks, cur, nest)
    <3>1. Faithful(Append(source, Token("finish", FALSE, FALSE, "none")), Append(link, 0), open,
                   label, blocks, cur, nest)
      BY <1>2, <1>7, FaithfulDead
    <3> QED BY <3>1, Zenon DEF s2, link2, x
  <2> QED BY <1>7, <2>1 DEF Faithful, WrittenTo
<1>8. ASSUME blocks' = With(blocks, cur, e), ~Terminated(blocks, cur)
      PROVE  Written(s2, link2, label, blocks')
  <2> DEFINE q == Len(s2)
             d == <<Op("return", q, <<>>, "none")>>
  <2>1. d = e /\ s2[q].kind = "finish" /\ q \in Nat /\ q \in 1 .. Len(s2) /\ "none" \in Reaches
    BY <1>3, <1>6 DEF Reaches
  <2> HIDE DEF q
  <2>2. RowTo(s2, link2, label, d, q, q + 1)
    BY <2>1, PlainTo
  <2>3. d \in OpSeqs
    BY <2>1 DEF Op, OpSeqs, Operations, Kinds
  <2> HIDE DEF d, e
  <2>4. RowTo(s2, link2, label, d, Len(s2), Len(s2) + 1)
    BY <2>2 DEF q
  <2>5. Faithful(s2, link2, open, label, With(blocks, cur, d), cur, nest)
    BY <1>2, <1>4, <1>5, <1>8, <2>3, <2>4, FaithfulRow
  <2> QED BY <1>8, <2>1, <2>5 DEF Faithful, WrittenTo
<1>9. Written(s2, link2, label, blocks')
  BY <1>1, <1>7, <1>8
<1>10. Whole(s2, link2)
  <2>1. Layout(s2, link2, open, label, <<>>)
    BY <1>1, <1>5
  <2>2. Len(s2) > 0 /\ s2[Len(s2)].kind = "finish"
    BY <1>3, <1>6
  <2> QED BY <2>1, <2>2, LayoutWhole
<1>11. label[1] = <<0, "in">> /\ source' = s2
  BY <1>1, <1>2 DEF Faithful, s2
<1> QED BY <1>9, <1>10, <1>11

-----------------------------------------------------------------------------
(* A run of the function.                                                     *)

\* Operation k of block b stands where control arrives behind the token i.
ArrivedAt(s, link, label, bs, b, k, i, out) ==
  b # 0 /\ k <= Len(bs[b].ops) =>
    \E ps : /\ Filed(s, link, label, label[b], bs[b].ops, ps)
            /\ Source!Arrive(s)[ps[k]] = Source!Successor(s, i, out)

\* Control arrives at a block that was made for its point.
LEMMA ArriveAtBlock ==
  ASSUME NEW s, NEW link, NEW label, NEW bs, Written(s, link, label, bs),
         NEW b \in 1 .. Len(label), NEW i, NEW out,
         \A q : IsPoint(s, link, label[b], q) =>
                  Source!Arrive(s)[q] = Source!Successor(s, i, out)
  PROVE  ArrivedAt(s, link, label, bs, b, 1, i, out)
<1> SUFFICES ASSUME 1 <= Len(bs[b].ops)
             PROVE  \E ps : /\ Filed(s, link, label, label[b], bs[b].ops, ps)
                            /\ Source!Arrive(s)[ps[1]] = Source!Successor(s, i, out)
  BY DEF ArrivedAt
<1>1. b \in 1 .. Len(bs)
  BY DEF Written
<1>2. PICK ps : Filed(s, link, label, label[b], bs[b].ops, ps)
  BY <1>1 DEF Written
<1>3. bs[b].ops # <<>>
  <2>1. Len(<<>>) = 0
    OBVIOUS
  <2> QED BY <2>1
<1>4. IsPoint(s, link, label[b], ps[1])
  BY <1>2, <1>3 DEF Filed
<1> QED BY <1>2, <1>4

\* Behind an operation that is no terminator comes the next one of its block.
LEMMA ArriveBehind ==
  ASSUME NEW s, NEW link, NEW label, NEW bs, Whole(s, link), Written(s, link, label, bs),
         NEW b \in 1 .. Len(bs), NEW k \in 1 .. Len(bs[b].ops), NEW ps,
         Filed(s, link, label, label[b], bs[b].ops, ps), NEW i, NEW out,
         \A q : Follows(s, link, bs[b].ops[k], ps[k], q) =>
                  Source!Arrive(s)[q] = Source!Successor(s, i, out)
  PROVE  ArrivedAt(s, link, label, bs, b, k + 1, i, out)
<1> SUFFICES ASSUME k + 1 <= Len(bs[b].ops)
             PROVE  Source!Arrive(s)[ps[k + 1]] = Source!Successor(s, i, out)
  BY DEF ArrivedAt
<1>1. Len(bs[b].ops) \in Nat
  <2>1. bs[b].ops \in OpSeqs
    BY WrittenOps
  <2> QED BY <2>1 DEF OpSeqs
<1>2. k \in 1 .. Len(bs[b].ops) - 1
  BY <1>1
<1>3. Follows(s, link, bs[b].ops[k], ps[k], ps[k + 1])
  BY <1>2 DEF Filed, Strip
<1> QED BY <1>3

\* What is known of the operation to be executed.
LEMMA StandsHere ==
  ASSUME NEW s, NEW link, NEW label, NEW bs, Whole(s, link), Written(s, link, label, bs),
         NEW b \in 1 .. Len(bs), NEW k \in 1 .. Len(bs[b].ops), NEW i, NEW out,
         b # 0, ArrivedAt(s, link, label, bs, b, k, i, out)
  PROVE  /\ bs[b].ops[k] \in Operations
         /\ \E ps : /\ Filed(s, link, label, label[b], bs[b].ops, ps)
                    /\ Stands(s, link, label, bs[b].ops[k], ps[k])
                    /\ Source!Arrive(s)[ps[k]] = Source!Successor(s, i, out)
<1>1. bs[b].ops \in OpSeqs
  BY WrittenOps
<1>2. bs[b].ops[k] \in Operations /\ k <= Len(bs[b].ops)
  BY <1>1 DEF OpSeqs
<1>3. PICK ps : /\ Filed(s, link, label, label[b], bs[b].ops, ps)
                /\ Source!Arrive(s)[ps[k]] = Source!Successor(s, i, out)
  BY <1>2 DEF ArrivedAt
<1>4. Stands(s, link, label, bs[b].ops[k], ps[k])
  BY <1>3 DEF Filed, Strip
<1> QED BY <1>2, <1>3, <1>4

\* An operation that executes no token leaves control where it is.
LEMMA RunsSilently ==
  ASSUME NEW s, NEW link, NEW label, NEW bs, Whole(s, link), Written(s, link, label, bs),
         NEW b \in 1 .. Len(bs), NEW k \in 1 .. Len(bs[b].ops), NEW i, NEW out,
         b # 0, ArrivedAt(s, link, label, bs, b, k, i, out), bs[b].ops[k].token = 0
  PROVE  /\ bs[b].ops[k].kind \in {"alloca", "br"}
         /\ bs[b].ops[k].kind = "alloca" => ArrivedAt(s, link, label, bs, b, k + 1, i, out)
         /\ bs[b].ops[k].kind = "br" =>
              ArrivedAt(s, link, label, bs, bs[b].ops[k].to[1], 1, i, out)
<1> DEFINE op == bs[b].ops[k]
<1>1. PICK ps : /\ Filed(s, link, label, label[b], bs[b].ops, ps)
                /\ Stands(s, link, label, op, ps[k])
                /\ Source!Arrive(s)[ps[k]] = Source!Successor(s, i, out)
  BY StandsHere
<1>2. op \in Operations
  BY StandsHere
<1> DEFINE p == ps[k]
<1>3. p \in 1 .. Len(s) /\ Len(s) \in Nat
  BY <1>1, SMTT(30) DEF Stands, Whole, Linked
<1>4. op.kind \in {"alloca", "br"}
  <2> HIDE DEF op, p
  <2>1. op.token = 0 /\ p # 0
    BY <1>3 DEF op
  <2>2. Stands(s, link, label, op, p)
    BY <1>1 DEF op, p
  <2> QED BY <1>2, <2>1, <2>2 DEF Stands, Operations, Kinds
<1>5. ASSUME op.kind = "alloca"
      PROVE  ArrivedAt(s, link, label, bs, b, k + 1, i, out)
  <2>1. ASSUME NEW q, Follows(s, link, op, p, q)
        PROVE  Source!Arrive(s)[q] = Source!Successor(s, i, out)
    <3>1. q = p
      BY <2>1 DEF Follows
    <3> QED BY <1>1, <3>1
  <2> QED BY <1>1, <2>1, ArriveBehind
<1>6. ASSUME op.kind = "br"
      PROVE  ArrivedAt(s, link, label, bs, op.to[1], 1, i, out)
  <2>1. /\ op.to[1] \in 1 .. Len(label)
        /\ s[p].kind \in LoopKinds \cup {"break", "continue", "else", "end"}
        /\ label[op.to[1]] = BranchPoint(s, link, p)
    BY <1>1, <1>6 DEF Stands
  <2>2. ASSUME NEW q, IsPoint(s, link, label[op.to[1]], q)
        PROVE  Source!Arrive(s)[q] = Source!Successor(s, i, out)
    <3>1. IsPoint(s, link, BranchPoint(s, link, p), q)
      BY <2>1, <2>2
    <3>2. Source!Arrive(s)[q] = Source!Arrive(s)[p]
      BY <1>3, <2>1, <3>1, BranchArrives
    <3> QED BY <1>1, <3>2
  <2> HIDE DEF op, p
  <2> QED BY <2>1, <2>2, ArriveAtBlock
<1> QED BY <1>4, <1>5, <1>6

\* The operation op, at place k of block b, executes the token whose turn it is
\* behind the token i, and control goes on to the one behind it.
Executes(s, link, label, bs, b, k, op, i, out) ==
  LET t == op.token
  IN  /\ t = Source!Successor(s, i, out)
      /\ Source!Tested(s[t]) <=> op.kind = "cond_br"
      /\ op.kind \in {"stmt", "br", "cond_br", "return"}
      /\ op.kind = "stmt" => \A o : ArrivedAt(s, link, label, bs, b, k + 1, t, o)
      /\ op.kind \in {"br", "cond_br"} => ArrivedAt(s, link, label, bs, op.to[1], 1, t, TRUE)
      /\ op.kind = "cond_br" => ArrivedAt(s, link, label, bs, op.to[2], 1, t, FALSE)

LEMMA RunsToken ==
  ASSUME NEW s, NEW link, NEW label, NEW bs, Whole(s, link), Written(s, link, label, bs),
         NEW b \in 1 .. Len(bs), NEW k \in 1 .. Len(bs[b].ops), NEW i, NEW out,
         b # 0, ArrivedAt(s, link, label, bs, b, k, i, out), bs[b].ops[k].token # 0
  PROVE  Executes(s, link, label, bs, b, k, bs[b].ops[k], i, out)
<1> DEFINE op == bs[b].ops[k]
<1>1. PICK ps : /\ Filed(s, link, label, label[b], bs[b].ops, ps)
                /\ Stands(s, link, label, op, ps[k])
                /\ Source!Arrive(s)[ps[k]] = Source!Successor(s, i, out)
  BY StandsHere
<1>2. op \in Operations
  BY StandsHere
<1> DEFINE p == ps[k]
<1>a. op.token # 0 /\ Stands(s, link, label, op, p)
  BY <1>1
<1> HIDE DEF op, p
<1>b. op.token # 0
  BY <1>a
<1>c. Stands(s, link, label, op, p)
  BY <1>a
<1>d. ASSUME NEW q
      PROVE  GoesOn(s, link, label, op, p, q)
  BY <1>2, <1>b, <1>c, SuccessorIs
<1>3. /\ op.token = p /\ Source!Arrive(s)[p] = p
      /\ Source!Tested(s[p]) <=> op.kind = "cond_br"
  BY <1>2, <1>a, TokenExecuted
<1>4. op.token = Source!Successor(s, i, out)
  BY <1>1, <1>3 DEF p
<1>5. op.kind \in {"stmt", "br", "cond_br", "return"}
  BY <1>2, <1>a DEF Stands, Operations, Kinds
<1>6. ASSUME op.kind = "stmt", NEW o
      PROVE  ArrivedAt(s, link, label, bs, b, k + 1, p, o)
  <2>1. \A q : Follows(s, link, op, p, q) =>
                 Source!Arrive(s)[q] = Source!Successor(s, p, o)
    <3> SUFFICES ASSUME NEW q, Follows(s, link, op, p, q)
                 PROVE  Source!Successor(s, p, o) = Source!Arrive(s)[q]
      OBVIOUS
    <3>1. \A y : Source!Successor(s, p, y) = Source!Arrive(s)[q]
      BY <1>6, <1>d, Zenon DEF GoesOn
    <3> QED BY <3>1
  <2> QED BY <1>1, <2>1, ArriveBehind DEF op, p
<1>7. op.kind \in {"br", "cond_br"} => op.to[1] \in 1 .. Len(label)
  BY <1>a DEF Stands
<1>8. op.kind = "cond_br" => op.to[2] \in 1 .. Len(label)
  BY <1>a DEF Stands
<1>9. ASSUME op.kind \in {"br", "cond_br"}
      PROVE  ArrivedAt(s, link, label, bs, op.to[1], 1, p, TRUE)
  <2>1. \A q : IsPoint(s, link, label[op.to[1]], q) =>
                 Source!Arrive(s)[q] = Source!Successor(s, p, TRUE)
    BY <1>9, <1>d, Zenon DEF GoesOn
  <2> QED BY <1>7, <1>9, <2>1, ArriveAtBlock, Zenon
<1>10. ASSUME op.kind = "cond_br"
       PROVE  ArrivedAt(s, link, label, bs, op.to[2], 1, p, FALSE)
  <2>1. \A q : IsPoint(s, link, label[op.to[2]], q) =>
                 Source!Arrive(s)[q] = Source!Successor(s, p, FALSE)
    BY <1>10, <1>d, Zenon DEF GoesOn
  <2> QED BY <1>8, <1>10, <2>1, ArriveAtBlock, Zenon
<1> QED BY <1>3, <1>4, <1>5, <1>6, <1>9, <1>10, Zenon DEF op, Executes

\* The blocks are those of the body, and the next operation stands where
\* control arrives behind the token executed last.
OnTrack(link, label) ==
  /\ Whole(source, link) /\ Written(source, link, label, blocks)
  /\ ArrivedAt(source, link, label, blocks, pc.block, pc.op, at, outcome)

Simulated ==
  /\ stage = "emit" => InProgress
  /\ stage = "run" => \E link, label : OnTrack(link, label)
  /\ stage # "run" => at = 0 /\ outcome = TRUE /\ turn = TRUE
  /\ turn \in BOOLEAN

Shown == IF stage = "run" THEN source ELSE <<>>

\* The function starts at the first token.
LEMMA EndBodySimulated ==
  ASSUME IInv, Simulated, EndBody
  PROVE  Simulated' /\ (Source!Start \/ UNCHANGED <<Shown, at, outcome, turn>>)
<1>1. /\ Generated /\ Running /\ stage = "emit" /\ InProgress
      /\ at = 0 /\ outcome = TRUE /\ turn = TRUE
  BY DEF IInv, Simulated, EndBody
<1>2. /\ UNCHANGED <<at, outcome, turn, pc>> /\ stage' \in {"run", "failed"}
  BY DEF EndBody, execution
<1>3. pc.block = 1 /\ pc.op = 1
  BY <1>1 DEF Running
<1>4. turn' \in BOOLEAN /\ at' = 0 /\ outcome' = TRUE /\ turn' = TRUE
  BY <1>1, <1>2, Zenon DEF Simulated
<1>5. CASE stage' = "failed"
  <2>1. Simulated'
    BY <1>4, <1>5 DEF Simulated
  <2>2. Shown = <<>> /\ Shown' = <<>>
    BY <1>1, <1>5 DEF Shown
  <2> QED BY <1>2, <2>1, <2>2
<1>6. CASE stage' = "run"
  <2>1. PICK link, label : /\ Whole(source', link) /\ Written(source', link, label, blocks')
                           /\ label[1] = <<0, "in">>
    BY <1>1, <1>6, FaithfulBody
  <2>2. 1 \in 1 .. Len(label)
    <3>1. blocks' \in Seq(Blocks) /\ cur' \in 1 .. Len(blocks')
      BY <1>1, EndBodyStep DEF Generated, Emitted, Sound
    <3> QED BY <2>1, <3>1 DEF Written
  <2>3. ASSUME NEW q, IsPoint(source', link, label[1], q)
        PROVE  Source!Arrive(source')[q] = Source!Successor(source', 0, outcome)
    <3>1. q = 1
      BY <2>1, <2>3 DEF IsPoint
    <3> QED BY <3>1, SuccessorAtFirst
  <2>4. ArrivedAt(source', link, label, blocks', 1, 1, 0, outcome)
    BY <2>1, <2>2, <2>3, ArriveAtBlock
  <2>5. OnTrack(link, label)'
    BY <1>1, <1>2, <1>3, <2>1, <2>4, Zenon DEF OnTrack
  <2>6. Simulated'
    BY <1>4, <1>6, <2>5 DEF Simulated
  <2>7. source' \in Seq(Source!Tokens) \ {<<>>}
    <3>1. source' \in Seq(Tokens) /\ Len(source') > 0
      BY <2>1 DEF Whole, Linked
    <3>2. \A j \in 1 .. Len(source') : source'[j] \in Source!Tokens
      <4> SUFFICES ASSUME NEW j \in 1 .. Len(source') PROVE source'[j] \in Source!Tokens
        OBVIOUS
      <4> DEFINE x == source'[j]
      <4>1. x \in Tokens /\ x.depth \in Nat
        BY <2>1, <3>1, TokenFacts DEF Whole
      <4> HIDE DEF x
      <4>2. x \in Source!Tokens
        BY <4>1 DEF Tokens, Source!Tokens, Source!Kinds
      <4> QED BY <4>2 DEF x
    <3> QED BY <3>1, <3>2
  <2>8. Shown = <<>> /\ Shown' = source'
    BY <1>1, <1>6 DEF Shown
  <2>9. Source!Start
    BY <1>2, <2>7, <2>8 DEF Source!Start, Shown
  <2> QED BY <2>6, <2>9
<1> QED BY <1>2, <1>5, <1>6

\* Generation is not yet a run.
LEMMA EmitSimulated ==
  ASSUME IInv, Simulated, Emit
  PROVE  Simulated' /\ (Source!Start \/ UNCHANGED <<Shown, at, outcome, turn>>)
<1>1. Generated
  BY DEF IInv
<1>2. CASE EndBody
  BY <1>2, EndBodySimulated
<1>3. ASSUME stage = "emit", stage' # "run", UNCHANGED <<at, outcome, turn>>,
             stage' = "emit" => InProgress'
      PROVE  Simulated' /\ UNCHANGED <<Shown, at, outcome, turn>>
  <2>1. Shown = <<>> /\ Shown' = <<>>
    BY <1>3 DEF Shown
  <2>2. at' = 0 /\ outcome' = TRUE /\ turn' = TRUE /\ turn' \in BOOLEAN
    BY <1>3, Zenon DEF Simulated
  <2>3. Simulated'
    BY <1>3, <2>2 DEF Simulated
  <2> QED BY <1>3, <2>1, <2>3
<1>4. CASE Fail
  BY <1>3, <1>4 DEF Fail, execution
<1>5. CASE \/ Statement \/ LeaveOut \/ Break \/ ContinueStatement \/ Return
           \/ BeginIf \/ EndThen \/ EndElse \/ BeginWhile \/ EndWhile \/ BeginFor \/ EndFor
  <2>1. stage = "emit" /\ Unchanged
    BY <1>5 DEF Statement, LeaveOut, Break, ContinueStatement, Jump, Return, BeginIf, EndThen,
                EndElse, BeginWhile, EndWhile, BeginFor, EndFor, CanOpen, CanEmit
  <2>2. stage' = "emit" /\ UNCHANGED <<at, outcome, turn>>
    BY <2>1 DEF Unchanged, execution
  <2>3. InProgress'
    BY <1>1, <1>5, <2>1, EmitFaithful DEF Simulated
  <2> QED BY <1>3, <2>1, <2>2, <2>3
<1> QED BY <1>2, <1>4, <1>5 DEF Emit

\* Every operation executes the token whose turn it is, or none.
LEMMA RunSimulated ==
  ASSUME IInv, Simulated, Run
  PROVE  Simulated' /\ (Source!Step \/ UNCHANGED <<Shown, at, outcome, turn>>)
<1> DEFINE b == pc.block
           k == pc.op
           op == Executed
<1>1. /\ stage = "run" /\ b # 0 /\ k <= Len(blocks[b].ops)
      /\ at' = IF op.token = 0 THEN at ELSE op.token
      /\ turn' = (turn = (op.token = 0))
      /\ outcome' \in IF op.kind = "cond_br" THEN BOOLEAN
                      ELSE IF op.token = 0 THEN {outcome} ELSE {TRUE}
      /\ pc' = CASE op.kind = "br"      -> [block |-> op.to[1], op |-> 1]
                 [] op.kind = "cond_br" -> [block |-> op.to[IF outcome' THEN 1 ELSE 2], op |-> 1]
                 [] op.kind = "return"  -> [block |-> 0, op |-> 1]
                 [] OTHER               -> [pc EXCEPT !.op = @ + 1]
      /\ UNCHANGED emission /\ UNCHANGED stage
  BY DEF Run
<1>2. source' = source /\ blocks' = blocks /\ stage' = "run" /\ Shown = source /\ Shown' = source
  BY <1>1 DEF emission, Shown
<1>3. PICK link, label : OnTrack(link, label)
  BY <1>1 DEF Simulated
<1>4. b \in 1 .. Len(blocks) /\ k \in 1 .. Len(blocks[b].ops) /\ op = blocks[b].ops[k]
      /\ pc \in Places
  <2>1. pc \in Places /\ pc.block <= Len(blocks) /\ blocks \in Seq(Blocks)
    BY <1>1, RunningBlocks DEF IInv, Running
  <2>2. b \in 1 .. Len(blocks)
    BY <1>1, <2>1 DEF Places
  <2>3. blocks[b].ops \in OpSeqs
    BY <1>1, <2>2, RunningBlocks
  <2> QED BY <1>1, <2>1, <2>2, <2>3, SMTT(30) DEF Places, OpSeqs, Executed
<1>5. /\ Whole(source, link) /\ Written(source, link, label, blocks)
      /\ ArrivedAt(source, link, label, blocks, b, k, at, outcome)
  BY <1>3 DEF OnTrack
<1>6. turn' \in BOOLEAN /\ turn \in BOOLEAN
  BY <1>1, Zenon DEF Simulated
<1>7. ASSUME op.kind \notin Terminators
      PROVE  pc'.block = b /\ pc'.op = k + 1
  <2>1. op.kind # "br" /\ op.kind # "cond_br" /\ op.kind # "return"
    BY <1>7 DEF Terminators
  <2> HIDE DEF op
  <2>2. pc' = [pc EXCEPT !.op = @ + 1]
    BY <1>1, <2>1, Zenon
  <2> QED BY <1>4, <2>2 DEF Places
<1> HIDE DEF op
<1>8. op.kind = "br" => pc'.block = op.to[1] /\ pc'.op = 1
  <2> SUFFICES ASSUME op.kind = "br" PROVE pc'.block = op.to[1] /\ pc'.op = 1
    OBVIOUS
  <2>1. pc' = [block |-> op.to[1], op |-> 1]
    BY <1>1, Zenon
  <2> QED BY <2>1
<1>9. op.kind = "return" => pc'.block = 0
  <2> SUFFICES ASSUME op.kind = "return" PROVE pc'.block = 0
    OBVIOUS
  <2>1. pc' = [block |-> 0, op |-> 1]
    BY <1>1, Zenon
  <2> QED BY <2>1
<1>10. ASSUME op.kind = "cond_br", NEW m \in {1, 2}, m = IF outcome' THEN 1 ELSE 2
       PROVE  pc'.block = op.to[m] /\ pc'.op = 1
  <2>1. pc' = [block |-> op.to[IF outcome' THEN 1 ELSE 2], op |-> 1]
    BY <1>1, <1>10, Zenon
  <2>2. pc' = [block |-> op.to[m], op |-> 1]
    BY <1>10, <2>1, Zenon
  <2> QED BY <2>2
<1>11. SUFFICES /\ ArrivedAt(source, link, label, blocks, pc'.block, pc'.op, at', outcome')
                /\ Source!Step \/ UNCHANGED <<Shown, at, outcome, turn>>
  <2> SUFFICES ASSUME ArrivedAt(source, link, label, blocks, pc'.block, pc'.op, at', outcome')
               PROVE  Simulated'
    OBVIOUS
  <2>1. OnTrack(link, label)'
    BY <1>2, <1>5, Zenon DEF OnTrack
  <2> QED BY <1>2, <1>6, <2>1 DEF Simulated
<1>12. CASE op.token = 0
  <2>1. at' = at /\ turn' = (turn = TRUE)
    BY <1>1, <1>12, Zenon
  <2>2. turn' = turn
    BY <1>6, <2>1, Zenon
  <2>3. /\ op.kind \in {"alloca", "br"}
        /\ op.kind = "alloca" => ArrivedAt(source, link, label, blocks, b, k + 1, at, outcome)
        /\ op.kind = "br" => ArrivedAt(source, link, label, blocks, op.to[1], 1, at, outcome)
    BY <1>1, <1>4, <1>5, <1>12, RunsSilently, SMTT(30)
  <2>4. outcome' = outcome
    BY <1>1, <1>12, <2>3, Zenon
  <2>5. UNCHANGED <<Shown, at, outcome, turn>>
    BY <1>2, <2>1, <2>2, <2>4
  <2>6. CASE op.kind = "alloca"
    <3>1. op.kind \notin Terminators
      BY <2>6 DEF Terminators
    <3> QED BY <1>7, <2>1, <2>3, <2>4, <2>5, <2>6, <3>1, Zenon
  <2>7. CASE op.kind = "br"
    BY <1>8, <2>1, <2>3, <2>4, <2>5, <2>7, Zenon
  <2> QED BY <2>3, <2>6, <2>7
<1>13. CASE op.token # 0
  <2> DEFINE t == op.token
  <2>1. at' = t /\ turn' = (turn = FALSE)
    BY <1>1, <1>13, Zenon
  <2>2. turn' = ~turn
    BY <1>6, <2>1, Zenon
  <2>3. /\ t = Source!Successor(source, at, outcome)
        /\ Source!Tested(source[t]) <=> op.kind = "cond_br"
        /\ op.kind \in {"stmt", "br", "cond_br", "return"}
        /\ op.kind = "stmt" => \A o : ArrivedAt(source, link, label, blocks, b, k + 1, t, o)
        /\ op.kind \in {"br", "cond_br"} =>
             ArrivedAt(source, link, label, blocks, op.to[1], 1, t, TRUE)
        /\ op.kind = "cond_br" =>
             ArrivedAt(source, link, label, blocks, op.to[2], 1, t, FALSE)
    <3>1. Executes(source, link, label, blocks, b, k, blocks[b].ops[k], at, outcome)
      BY <1>1, <1>4, <1>5, <1>13, RunsToken
    <3> QED BY <1>4, <3>1, Zenon DEF Executes
  <2>4. outcome' \in IF Source!Tested(source[t]) THEN BOOLEAN ELSE {TRUE}
    BY <1>1, <1>13, <2>3, Zenon
  <2>5. Source!Step
    <3>1. source # <<>>
      BY <1>5 DEF Whole
    <3> QED BY <1>1, <1>2, <1>13, <2>1, <2>2, <2>3, <2>4, <3>1, Zenon DEF Source!Step, Shown
  <2>6. CASE op.kind = "stmt"
    <3>1. op.kind \notin Terminators
      BY <2>6 DEF Terminators
    <3> QED BY <1>7, <2>1, <2>3, <2>5, <2>6, <3>1, Zenon
  <2>7. CASE op.kind = "br"
    <3>1. outcome' = TRUE
      BY <1>1, <1>13, <2>7, Zenon
    <3> QED BY <1>8, <2>1, <2>3, <2>5, <2>7, <3>1, Zenon
  <2>8. CASE op.kind = "cond_br"
    <3>1. outcome' = TRUE \/ outcome' = FALSE
      BY <1>1, <2>8, Zenon
    <3>2. CASE outcome' = TRUE
      <4>1. PICK m \in {1, 2} : m = 1
        OBVIOUS
      <4>2. m = IF outcome' THEN 1 ELSE 2
        BY <3>2, <4>1, Zenon
      <4>3. pc'.block = op.to[1] /\ pc'.op = 1
        BY <1>10, <2>8, <4>1, <4>2, Zenon
      <4> QED BY <2>1, <2>3, <2>5, <2>8, <3>2, <4>3, Zenon
    <3>3. CASE outcome' = FALSE
      <4>1. PICK m \in {1, 2} : m = 2
        OBVIOUS
      <4>2. m = IF outcome' THEN 1 ELSE 2
        BY <3>3, <4>1, Zenon
      <4>3. pc'.block = op.to[2] /\ pc'.op = 1
        BY <1>10, <2>8, <4>1, <4>2, Zenon
      <4> QED BY <2>1, <2>3, <2>5, <2>8, <3>3, <4>3, Zenon
    <3> QED BY <3>1, <3>2, <3>3
  <2>9. CASE op.kind = "return"
    <3>1. ArrivedAt(source, link, label, blocks, pc'.block, pc'.op, at', outcome')
      BY <1>9, <2>9 DEF ArrivedAt
    <3> QED BY <2>5, <3>1
  <2> QED BY <2>3, <2>6, <2>7, <2>8, <2>9
<1> QED BY <1>12, <1>13

\* Every step is a step of the program or leaves it alone.
LEMMA NextSimulated ==
  ASSUME IInv, Simulated, [Next]_vars
  PROVE  Simulated' /\ [Source!Next]_<<Shown, at, outcome, turn>>
<1>1. ASSUME UNCHANGED vars
      PROVE  Simulated' /\ UNCHANGED <<Shown, at, outcome, turn>>
  <2>1. UNCHANGED <<source, blocks, cur, nest, stage, pc, at, outcome, turn>>
    BY <1>1 DEF vars, emission, execution
  <2>2. UNCHANGED <<Shown, at, outcome, turn>>
    BY <2>1 DEF Shown
  <2>3. InProgress => InProgress'
    BY <2>1, Zenon DEF InProgress
  <2>4. ASSUME NEW link, NEW label, OnTrack(link, label)
        PROVE  OnTrack(link, label)'
    BY <2>1, <2>4, Zenon DEF OnTrack
  <2>5. Simulated'
    BY <2>1, <2>3, <2>4, Zenon DEF Simulated
  <2> QED BY <2>2, <2>5
<1> QED BY <1>1, EmitSimulated, RunSimulated DEF Next, Source!Next

LEMMA InitSimulated == Init => Simulated /\ Source!Init
<1> SUFFICES ASSUME Init PROVE Simulated /\ Source!Init
  OBVIOUS
<1>1. stage = "emit" /\ at = 0 /\ outcome = TRUE /\ turn = TRUE
  BY DEF Init
<1>2. stage # "run" /\ turn \in BOOLEAN
  BY <1>1
<1> QED BY <1>1, <1>2, FaithfulInit, Zenon DEF Simulated, Source!Init

-----------------------------------------------------------------------------

\* Whatever its body, a generated function runs the statements and tests of
\* its body in the order C says: every operation executes the next one or
\* none.  (That the function never stops between them is liveness.)
THEOREM StepsAsWritten ==
  Spec => Source!Init /\ [][Source!Next]_<<IF stage = "run" THEN source ELSE <<>>,
                                            at, outcome, turn>>
<1>1. IInv /\ Simulated /\ [Next]_vars =>
        (IInv /\ Simulated)' /\ [Source!Next]_<<IF stage = "run" THEN source ELSE <<>>,
                                                at, outcome, turn>>
  BY NextIInv, NextSimulated DEF Shown
<1>2. Init => IInv /\ Simulated /\ Source!Init
  BY InitIInv, InitSimulated
<1> QED BY <1>1, <1>2, PTL DEF Spec
===============================================================================
