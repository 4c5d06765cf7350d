-------------------------- MODULE RescanReference --------------------------
(***************************************************************************)
(* What macro expansion means, as a recursive function of the text.  This  *)
(* is the algorithm of hide sets with which the rescanning rules of C are  *)
(* usually explained, without queues or flags: the operands of a chain of  *)
(* ## are sequences, joined at their ends, so that an empty argument needs *)
(* no placemarker; and an invocation is split by the positions of its      *)
(* parentheses and commas.  Texts are expected to be finite and to need no *)
(* limit.                                                                  *)
(***************************************************************************)
EXTENDS Integers, SequencesExt

CONSTANTS Identifier, Predefined, PredefinedText, Joined, Table

Ok(s) == [ok |-> TRUE, out |-> s]
Error == [ok |-> FALSE, out |-> <<>>]

Fresh(t) == [text |-> t, quoted |-> <<>>, hide |-> {}]
Hide(s, names) == [i \in DOMAIN s |-> [s[i] EXCEPT !.hide = @ \cup names]]

(* Two results one after the other, and joined at their ends.              *)
Then(a, b) == IF a.ok /\ b.ok THEN Ok(a.out \o b.out) ELSE Error
Join(a, b) ==
  IF ~a.ok \/ ~b.ok THEN Error
  ELSE IF a.out = <<>> THEN b
  ELSE IF b.out = <<>> THEN a
  ELSE LET l == Last(a.out)
           r == Head(b.out)
       IN IF <<l.text, r.text>> \notin DOMAIN Joined THEN Error
          ELSE Ok(SubSeq(a.out, 1, Len(a.out) - 1)
                  \o <<[text |-> Joined[<<l.text, r.text>>], quoted |-> <<>>,
                        hide |-> l.hide \cap r.hide]>>
                  \o Tail(b.out))

(* s starts with the parenthesis that opens an invocation.                 *)
Level(s, j) == Cardinality({i \in 1..j : s[i].text = "("})
               - Cardinality({i \in 1..j : s[i].text = ")"})
Closings(s) == {j \in 1..Len(s) : Level(s, j) = 0}
Closing(s) == CHOOSE j \in Closings(s) : \A k \in Closings(s) : j <= k
Commas(s) == {j \in 1..Closing(s) : s[j].text = "," /\ Level(s, j) = 1}

Bounds(s) ==
  <<1>> \o SetToSortSeq(Commas(s), LAMBDA a, b : a < b) \o <<Closing(s)>>

(* The arguments of m, or too few or too many of them.                     *)
Actuals(m, s) ==
  LET b == Bounds(s)
      n == Len(m.parameters)
      given == Len(b) - 1
      upTo == [i \in 1..given |-> IF m.variadic /\ i = n THEN given + 1 ELSE i + 1]
      number == IF m.variadic /\ given > n THEN n ELSE given
  IN IF n = 0 /\ Closing(s) = 2 THEN <<>>
     ELSE [i \in 1..number |-> SubSeq(s, b[i] + 1, b[upTo[i]] - 1)]

RECURSIVE Expand(_)
RECURSIVE Substituted(_, _, _, _, _)

(* An item of the replacement list: # with its parameter, a parameter, or  *)
(* a token.                                                                *)
Width(m, i) == IF m.functionLike /\ m.replacement[i] = "#" THEN 2 ELSE 1
Formal(m, t) == m.functionLike /\ t \in Range(m.parameters)
ArgOf(m, args, t) == args[CHOOSE k \in DOMAIN m.parameters : m.parameters[k] = t]
Raw(m, args, i) ==
  LET t == m.replacement[i]
  IN IF Width(m, i) = 2
     THEN LET a == ArgOf(m, args, m.replacement[i + 1])
          IN <<[text |-> "string", quoted |-> [k \in DOMAIN a |-> a[k].text],
                hide |-> {}]>>
     ELSE IF Formal(m, t) THEN ArgOf(m, args, t)
     ELSE <<Fresh(t)>>

FollowedByPaste(m, i) ==
  LET j == i + Width(m, i) IN j <= Len(m.replacement) /\ m.replacement[j] = "##"

(* done: the chains that are complete; chain: the one before position i.   *)
Substituted(m, args, i, done, chain) ==
  IF i > Len(m.replacement) THEN Then(done, chain)
  ELSE IF m.replacement[i] = "##"
  THEN Substituted(m, args, i + 1 + Width(m, i + 1), done,
                   Join(chain, Ok(Raw(m, args, i + 1))))
  ELSE Substituted(m, args, i + Width(m, i), Then(done, chain),
                   IF /\ Formal(m, m.replacement[i])
                      /\ ~FollowedByPaste(m, i)
                   THEN Expand(ArgOf(m, args, m.replacement[i]))
                   ELSE Ok(Raw(m, args, i)))

Replaced(m, args, hide, rest) ==
  LET body == Substituted(m, args, 1, Ok(<<>>), Ok(<<>>))
  IN IF body.ok THEN Expand(Hide(body.out, hide) \o rest) ELSE Error

Expand(text) ==
  IF text = <<>> THEN Ok(<<>>)
  ELSE
    LET t == Head(text)
        rest == Tail(text)
        live == t.text \in Identifier \ t.hide
        macro == live /\ t.text \in DOMAIN Table
        m == Table[t.text]
        called == rest # <<>> /\ Head(rest).text = "("
    IN IF live /\ t.text \in Predefined
       THEN Then(Ok(<<[t EXCEPT !.text = PredefinedText]>>), Expand(rest))
       ELSE IF ~macro THEN Then(Ok(<<t>>), Expand(rest))
       ELSE IF ~m.functionLike
       THEN Replaced(m, <<>>, t.hide \cup {t.text}, rest)
       ELSE IF ~called THEN Then(Ok(<<t>>), Expand(rest))
       ELSE IF Closings(rest) = {} THEN Error
       ELSE LET close == rest[Closing(rest)]
                args == Actuals(m, rest)
            IN IF Len(args) # Len(m.parameters) THEN Error
               ELSE Replaced(m, args, (t.hide \cap close.hide) \cup {t.text},
                             SubSeq(rest, Closing(rest) + 1, Len(rest)))
=============================================================================
