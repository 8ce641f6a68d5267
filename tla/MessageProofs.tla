----------------------------- MODULE MessageProofs -----------------------------
(***************************************************************************)
(* Answers find their way back, over any number of hops.                   *)
(***************************************************************************)
EXTENDS Message, TLAPS

\* What Answer, Forward and Backward make of a message is a message.
LEMMA AddressTypes ==
    ASSUME NEW m \in Message, NEW to \in Subject
    PROVE  /\ Answer(m) \in Message
           /\ WithError(m) \in Message
           /\ Forward(m, to) \in Message
           /\ m.ret # <<>> => Backward(m) \in Message
<1>1. Answer(m) \in Message /\ WithError(m) \in Message
  BY DEF Message, Answer, WithError, Type
<1>2. Forward(m, to) \in Message
  <2>1. m.ret \in Seq(Subject) /\ m.from \in Subject /\ m.to \in Subject /\ m.id \in Id
    BY DEF Message
  <2>2. Append(m.ret, m.from) \in Seq(Subject)
    BY <2>1
  <2>3. \A s \in Seq(Subject) :
            [m EXCEPT !.type = "Query", !.from = m.to, !.to = to, !.ret = s] \in Message
    BY <2>1 DEF Message, Type
  <2>4. QED
    BY <2>2, <2>3 DEF Forward
<1>3. ASSUME m.ret # <<>>
      PROVE  Backward(m) \in Message
  <2>1. m.ret \in Seq(Subject) /\ Len(m.ret) \in Nat /\ Len(m.ret) > 0
    BY <1>3 DEF Message
  <2>2. Last(m.ret) \in Subject
    BY <2>1 DEF Last
  <2>3. Front(m.ret) \in Seq(Subject)
    BY <2>1 DEF Front
  <2>4. QED
    BY <2>2, <2>3 DEF Message, Backward
<1>4. QED
  BY <1>1, <1>2, <1>3

\* Whatever becomes of a message keeps its id; only Answer makes an
\* answer of a query.
LEMMA Kinship ==
    ASSUME NEW m \in Message, NEW to \in Subject
    PROVE  /\ Answer(m).id = m.id /\ IsAnswer(Answer(m))
           /\ WithError(m).id = m.id /\ WithError(m).type = "Failure"
           /\ Answer(WithError(m)).id = m.id /\ Answer(WithError(m)).type = "Failure"
           /\ Forward(m, to).id = m.id /\ ~IsAnswer(Forward(m, to))
           /\ Backward(m).id = m.id /\ Backward(m).type = m.type
           /\ m.id \in Id
  BY DEF Message, Answer, WithError, Forward, Backward, IsAnswer, Type

\* The answer to a query that was forwarded, sent backward, is the answer the
\* sender of the query would have got to it directly: one hop through a proxy
\* changes nothing (head.go, file.go: Forward, Answer, Backward).
THEOREM RoundTrip ==
    ASSUME NEW m \in Message, ~IsAnswer(m), NEW to \in Subject
    PROVE  Backward(Answer(Forward(m, to))) = Answer(m)
<1> DEFINE a == Answer(Forward(m, to))
<1>1. m.ret \in Seq(Subject) /\ m.from \in Subject
  BY DEF Message
<1>2. Last(Append(m.ret, m.from)) = m.from /\ Front(Append(m.ret, m.from)) = m.ret
  BY <1>1 DEF Last, Front
<1>3. a = [m EXCEPT !.type = "Answer", !.from = to, !.to = m.to,
                    !.ret = Append(m.ret, m.from)]
  BY DEF Message, Answer, Forward
<1>4. Backward(a) = [a EXCEPT !.from = m.to, !.to = m.from, !.ret = m.ret]
  BY <1>1, <1>2, <1>3 DEF Message, Backward
<1>5. Answer(m) = [m EXCEPT !.type = "Answer", !.from = m.to, !.to = m.from]
  BY DEF Message, Answer, IsAnswer
<1>6. QED
  BY <1>3, <1>4, <1>5 DEF Message

===============================================================================
