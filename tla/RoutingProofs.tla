---------------------------- MODULE RoutingProofs -----------------------------
(***************************************************************************)
(* However many services, requests and messages there are, and whatever    *)
(* stops, fails, crashes or is lost: a message is in one place, a request  *)
(* has one source of its answer, and a call is what Rpc says it is.        *)
(***************************************************************************)
EXTENDS Routing, MessageProofs, FiniteSetTheorems

-----------------------------------------------------------------------------
(* Messages and their ids.                                                 *)

LEMMA NewMessageIs ==
    ASSUME NEW i \in Id, NEW type \in {"Query", "Request"}
    PROVE  LET m == NewMessage(i, type, "block", "proxy") IN
           m \in Message /\ m.id = i /\ ~IsAnswer(m)
<1> DEFINE m == NewMessage(i, type, "block", "proxy")
<1>1. <<>> \in Seq(Subject)
  OBVIOUS
<1>2. m \in Message
  BY <1>1, SubjectAssumption DEF Message, NewMessage, Type
<1>3. m.id = i /\ ~IsAnswer(m)
  BY DEF NewMessage, IsAnswer
<1>4. QED
  BY <1>2, <1>3

\* The fields of a goroutine and of a handler.
LEMMA Fields ==
    ASSUME TypeOK
    PROVE  /\ \A n \in Node : \A k \in child[n] :
                 k \in Child /\ k.msg \in Message /\ k.msg.id \in Id /\ k.for \in Id \cup {None}
           /\ \A n \in Node : \A m \in inbox[n] : m \in Message /\ m.id \in Id
           /\ \A m \in net : m \in Message /\ m.id \in Id
           /\ \A m \in Message : m.id \in Id
           /\ \A i \in Id : /\ answer[i] # None => answer[i] \in Message
                            /\ caller[i] \in Caller
                            /\ caller[i].node \in Node \cup {None}
<1>1. \A m \in Message : m.id \in Id
  BY DEF Message
<1>2. \A k \in Child : k.msg \in Message /\ k.for \in Id \cup {None}
  BY DEF Child
<1>3. \A n \in Node : child[n] \subseteq Child /\ inbox[n] \subseteq Message
  BY DEF TypeOK, ExchangeTypeOK
<1>4. \A i \in Id : /\ answer[i] # None => answer[i] \in Message
                    /\ caller[i] \in Caller
  BY DEF TypeOK, ExchangeTypeOK
<1>5. \A i \in Id : caller[i].node \in Node \cup {None}
  BY <1>4 DEF Caller
<1>6. QED
  BY <1>1, <1>2, <1>3, <1>4, <1>5 DEF TypeOK, ExchangeTypeOK

-----------------------------------------------------------------------------
(* Steps                                                                   *)

LEMMA Steps ==
    ASSUME [Next]_vars
    PROVE  \/ UNCHANGED vars
           \/ \E i \in Id : CallerStep(i)
           \/ \E n \in Node, i \in Id : Begin(n, i)
           \/ \E n \in Node : \E m \in inbox[n] : Do(n, m) /\ UNCHANGED callers
           \/ \E n \in Node : \E k \in child[n] :
                Pass(n, k) \/ Serve(n, k) \/ NoRepository(n, k) \/ Return(n, k)
           \/ \E n \in Node : \E k \in child[n] : (Take(n, k) \/ Hand(n, k)) /\ UNCHANGED callers
           \/ \E n \in Node :
                /\ \/ Listen(n) \/ Open(n) \/ Signal(n) \/ Finish(n)
                   \/ WaitReplies(n) \/ WaitChildren(n) \/ Close(n)
                /\ UNCHANGED callers
           \/ \E n \in Node : Crash(n)
           \/ /\ \E m \in net : Drop(m) \/ \E n \in Node : Deliver(n, m)
              /\ UNCHANGED callers
  BY DEF Next, DoStep, RunStep, StartStep, Stop, FinishStep, Server, Rest

\* What a goroutine leaves in its place: nothing, or a message of the same id.
Leaves(n, k, S) ==
    /\ k \in child[n]
    /\ child' = [child EXCEPT ![n] = @ \ {k}]
    /\ net' = net \cup S
    /\ UNCHANGED <<phase, inbox, reply, answer>>

\* What a goroutine makes of a query, and a process that has no request waiting
\* of an answer.
LEMMA RunLeaves ==
    ASSUME TypeOK, NEW n \in Node, NEW k \in child[n],
           Pass(n, k) \/ Serve(n, k) \/ Return(n, k)
    PROVE  /\ caller' = caller
           /\ \/ Leaves(n, k, {}) /\ result' = result
              \/ \E m \in Message :
                    /\ Leaves(n, k, {m}) /\ m.id = k.msg.id
                    /\ result' = result
                    /\ IsAnswer(k.msg) => m.type = k.msg.type
                    /\ m.type # "Answer" \/ IsAnswer(k.msg)
              \/ \E m \in Message, r \in {"Answer", "Failure"} :
                    /\ ~IsAnswer(k.msg)
                    /\ Leaves(n, k, {}) \/ Leaves(n, k, {m})
                    /\ m.id = k.msg.id /\ IsAnswer(m)
                    /\ result' = [result EXCEPT ![k.msg.id] = r]
                    /\ m.type = "Answer" => r = "Answer"
<1>0. k.msg \in Message /\ k.msg.id \in Id
  BY Fields
<1>1. CASE Pass(n, k)
  <2>0. /\ ~IsAnswer(k.msg) /\ End(n, k) /\ UNCHANGED <<phase, inbox, reply, answer, callers>>
        /\ \/ Publish(Forward(k.msg, "chain"))
           \/ PublishFails
           \/ Publish(Answer(WithError(k.msg)))
    BY <1>1 DEF Pass, Querying
  <2>1. /\ Forward(k.msg, "chain") \in Message
        /\ WithError(k.msg) \in Message
    BY <1>0, AddressTypes, SubjectAssumption
  <2>2. Answer(WithError(k.msg)) \in Message
    BY <2>1, AddressTypes, SubjectAssumption
  <2>3. CASE Publish(Forward(k.msg, "chain"))
    <3>1. Leaves(n, k, {Forward(k.msg, "chain")})
      BY <2>0, <2>3 DEF Leaves, End, Publish
    <3>2. /\ Forward(k.msg, "chain").id = k.msg.id
          /\ Forward(k.msg, "chain").type # "Answer"
      BY <1>0, Kinship, SubjectAssumption DEF IsAnswer
    <3>3. QED
      BY <2>0, <2>1, <3>1, <3>2 DEF callers
  <2>4. CASE PublishFails
    <3>1. Leaves(n, k, {})
      BY <2>0, <2>4 DEF Leaves, End, PublishFails
    <3>2. QED
      BY <2>0, <3>1 DEF callers
  <2>5. CASE Publish(Answer(WithError(k.msg)))
    <3>1. Leaves(n, k, {Answer(WithError(k.msg))})
      BY <2>0, <2>5 DEF Leaves, End, Publish
    <3>2. /\ Answer(WithError(k.msg)).id = k.msg.id
          /\ Answer(WithError(k.msg)).type # "Answer"
      BY <1>0, Kinship, SubjectAssumption
    <3>3. QED
      BY <2>0, <2>2, <3>1, <3>2 DEF callers
  <2>6. QED
    BY <2>0, <2>3, <2>4, <2>5
<1>2. CASE Serve(n, k)
  <2>0. /\ ~IsAnswer(k.msg) /\ End(n, k) /\ UNCHANGED <<phase, inbox, reply, answer, caller>>
        /\ \/ /\ Send(Answer(k.msg))
              /\ result' = [result EXCEPT ![k.msg.id] = "Answer"]
           \/ /\ Send(Answer(WithError(k.msg)))
              /\ result' = [result EXCEPT ![k.msg.id] = "Failure"]
    BY <1>2 DEF Serve, Querying
  <2>1. ASSUME NEW m \in Message, Send(m)
        PROVE  Leaves(n, k, {}) \/ Leaves(n, k, {m})
    BY <2>0, <2>1 DEF Leaves, End, Send, Publish, PublishFails
  <2>2. /\ Answer(k.msg) \in Message /\ WithError(k.msg) \in Message
        /\ Answer(k.msg).id = k.msg.id /\ IsAnswer(Answer(k.msg))
    BY <1>0, AddressTypes, Kinship, SubjectAssumption
  <2>3. /\ Answer(WithError(k.msg)) \in Message
        /\ Answer(WithError(k.msg)).id = k.msg.id
        /\ Answer(WithError(k.msg)).type = "Failure"
    BY <1>0, <2>2, AddressTypes, Kinship, SubjectAssumption
  <2>4. CASE Send(Answer(k.msg)) /\ result' = [result EXCEPT ![k.msg.id] = "Answer"]
    BY <2>0, <2>1, <2>2, <2>4
  <2>5. CASE Send(Answer(WithError(k.msg))) /\ result' = [result EXCEPT ![k.msg.id] = "Failure"]
    BY <2>0, <2>1, <2>3, <2>5 DEF IsAnswer
  <2>6. QED
    BY <2>0, <2>4, <2>5
<1>3. CASE Return(n, k)
  <2>0. /\ IsAnswer(k.msg) /\ End(n, k) /\ UNCHANGED <<phase, inbox, reply, answer, callers>>
        /\ \/ UNCHANGED net
           \/ k.msg.ret # <<>> /\ Send(Backward(k.msg))
    BY <1>3 DEF Return
  <2>1. CASE UNCHANGED net
    <3>1. Leaves(n, k, {})
      BY <2>0, <2>1 DEF Leaves, End
    <3>2. QED
      BY <2>0, <3>1 DEF callers
  <2>2. CASE k.msg.ret # <<>> /\ Publish(Backward(k.msg))
    <3>1. Leaves(n, k, {Backward(k.msg)})
      BY <2>0, <2>2 DEF Leaves, End, Publish
    <3>2. /\ Backward(k.msg) \in Message
          /\ Backward(k.msg).id = k.msg.id /\ Backward(k.msg).type = k.msg.type
      BY <1>0, <2>2, AddressTypes, Kinship, SubjectAssumption
    <3>3. QED
      BY <2>0, <3>1, <3>2 DEF callers
  <2>3. QED
    BY <2>0, <2>1, <2>2 DEF Send, PublishFails
<1>4. QED
  BY <1>1, <1>2, <1>3

\* What a handler of a request or a PUT does in a step.
LEMMA CallerFields ==
    ASSUME TypeOK, Nobody, NEW i \in Id, CallerStep(i)
    PROVE  /\ UNCHANGED <<phase, inbox, child, result>>
           /\ caller' \in [Id -> Caller]
           /\ \A j \in Id : j # i => caller'[j] = caller[j]
           /\ caller[i].node \in Node /\ caller'[i].node = caller[i].node
           /\ \/ /\ caller[i].pc = "begin" /\ caller'[i].pc \in {"new", "done"}
                 /\ caller'[i].pc = "done" /\ i \in HeadReq => caller'[i].status # "OK"
                 /\ UNCHANGED <<reply, answer>>
                 /\ \/ UNCHANGED net
                    \/ \E m \in Message : m.id = i /\ ~IsAnswer(m) /\ net' = net \cup {m}
                                          /\ caller'[i].pc = "done"
              \/ /\ caller[i].pc = "new" /\ caller'[i].pc \in {"waiting", "giveup"}
                 /\ caller'[i].pc = "giveup" => caller'[i].status # "OK"
                 /\ reply' = [reply EXCEPT ![caller[i].node] = @ \cup {i}]
                 /\ UNCHANGED answer
                 /\ \/ UNCHANGED net
                    \/ \E m \in Message : m.id = i /\ ~IsAnswer(m) /\ net' = net \cup {m}
              \/ /\ caller[i].pc = "waiting" /\ caller'[i].pc = "done"
                 /\ answer[i] # None /\ answer' = [answer EXCEPT ![i] = None]
                 /\ caller'[i].status = "OK" => answer[i].type = "Answer"
                 /\ UNCHANGED <<net, reply>>
              \/ /\ caller[i].pc = "waiting" /\ caller'[i].pc = "giveup"
                 /\ caller'[i].status # "OK"
                 /\ UNCHANGED <<net, reply, answer>>
              \/ /\ caller[i].pc = "giveup" /\ caller'[i].pc = "done"
                 /\ caller'[i].status = caller[i].status
                 /\ reply' = [reply EXCEPT ![caller[i].node] = @ \ {i}]
                 /\ UNCHANGED <<net, answer>>
<1>0. /\ caller \in [Id -> Caller] /\ caller[i] \in Caller
      /\ caller[i].pc # "idle" => caller[i].node \in Node
  BY Fields DEF TypeOK, Nobody, At
<1>1. ASSUME NEW pc \in {"new", "waiting", "done"}, Moves(i, pc)
      PROVE  /\ caller' \in [Id -> Caller]
             /\ \A j \in Id : j # i => caller'[j] = caller[j]
             /\ caller'[i].node = caller[i].node /\ caller'[i].pc = pc
             /\ caller'[i].status = caller[i].status
  BY <1>0, <1>1 DEF Moves, Caller
<1>2. ASSUME NEW pc \in {"giveup", "done"}, NEW s \in {"OK", "Error", "Timeout", "Panic"},
             Returns(i, pc, s)
      PROVE  /\ caller' \in [Id -> Caller]
             /\ \A j \in Id : j # i => caller'[j] = caller[j]
             /\ caller'[i].node = caller[i].node /\ caller'[i].pc = pc
             /\ caller'[i].status = s
  BY <1>0, <1>2 DEF Returns, Caller
<1>3. \A type \in {"Query", "Request"} :
        Publish(NewMessage(i, type, "block", "proxy")) =>
            \E m \in Message : m.id = i /\ ~IsAnswer(m) /\ net' = net \cup {m}
  BY NewMessageIs DEF Publish
<1>4. CASE NoTopic(i)
  BY <1>0, <1>2, <1>4 DEF NoTopic, At, exchange
<1>5. CASE FileMessage(i)
  <2>1. CASE Publish(NewMessage(i, "Query", "block", "proxy")) /\ Returns(i, "done", "OK")
    BY <1>0, <1>2, <1>3, <1>5, <2>1, IdAssumption DEF FileMessage, At
  <2>2. CASE PublishFails /\ Returns(i, "done", "Error")
    BY <1>0, <1>2, <1>5, <2>2 DEF FileMessage, At, PublishFails
  <2>3. QED
    BY <1>5, <2>1, <2>2 DEF FileMessage
<1>6. CASE HeadNew(i)
  BY <1>0, <1>1, <1>6 DEF HeadNew, At, exchange
<1>7. CASE HeadAsk(i)
  <2>1. CASE Publish(NewMessage(i, "Request", "block", "proxy")) /\ Moves(i, "waiting")
    BY <1>0, <1>1, <1>3, <1>7, <2>1 DEF HeadAsk, At, Ask
  <2>2. CASE PublishFails /\ Returns(i, "giveup", "Error")
    BY <1>0, <1>2, <1>7, <2>2 DEF HeadAsk, At, Ask, PublishFails
  <2>3. QED
    BY <1>7, <2>1, <2>2 DEF HeadAsk
<1>8. CASE HeadReceive(i)
  <2>1. CASE answer[i].type = "Answer" /\ Returns(i, "done", "OK")
    BY <1>0, <1>2, <1>8, <2>1 DEF HeadReceive, At
  <2>2. CASE Returns(i, "done", "Error")
    BY <1>0, <1>2, <1>8, <2>2 DEF HeadReceive, At
  <2>3. QED
    BY <1>8, <2>1, <2>2 DEF HeadReceive
<1>9. CASE HeadTimeout(i)
  BY <1>0, <1>2, <1>9 DEF HeadTimeout, At, exchange
<1>10. CASE HeadForget(i)
  BY <1>0, <1>1, <1>10 DEF HeadForget, Forget, At
<1>11. QED
  BY <1>4, <1>5, <1>6, <1>7, <1>8, <1>9, <1>10 DEF CallerStep

LEMMA BeginFields ==
    ASSUME TypeOK, NEW n \in Node, NEW i \in Id, Begin(n, i)
    PROVE  /\ UNCHANGED <<phase, net, inbox, child, reply, answer, result>>
           /\ caller' \in [Id -> Caller]
           /\ \A j \in Id : j # i => caller'[j] = caller[j]
           /\ caller[i].pc = "idle" /\ caller'[i].pc = "begin" /\ caller'[i].node = n
<1>1. caller \in [Id -> Caller]
  BY DEF TypeOK
<1>2. QED
  BY <1>1 DEF Begin, At, Caller, exchange

\* A process that dies leaves nothing but what it has sent.
LEMMA DiesFields ==
    ASSUME TypeOK, NEW n \in Node, Dies(n)
    PROVE  /\ UNCHANGED <<net, answer, result>>
           /\ phase' = [phase EXCEPT ![n] = "crashed"]
           /\ inbox' = [inbox EXCEPT ![n] = {}]
           /\ child' = [child EXCEPT ![n] = {}]
           /\ reply' = [reply EXCEPT ![n] = {}]
           /\ caller' \in [Id -> Caller]
           /\ \A j \in Id :
                /\ caller'[j].node = caller[j].node
                /\ \/ caller'[j] = caller[j] /\ (caller[j].node = n => caller[j].pc = "done")
                   \/ /\ caller[j].node = n /\ caller[j].pc # "done"
                      /\ caller'[j].pc = "done" /\ caller'[j].status = "Lost"
<1>1. caller \in [Id -> Caller]
  BY DEF TypeOK
<1>2. ASSUME NEW j \in Id
      PROVE  /\ caller'[j] \in Caller
             /\ caller'[j].node = caller[j].node
             /\ \/ caller'[j] = caller[j] /\ (caller[j].node = n => caller[j].pc = "done")
                \/ /\ caller[j].node = n /\ caller[j].pc # "done"
                   /\ caller'[j].pc = "done" /\ caller'[j].status = "Lost"
  <2>1. caller[j] \in Caller
    BY <1>1
  <2>2. caller'[j] = IF caller[j].node = n /\ caller[j].pc # "done"
                     THEN [caller[j] EXCEPT !.pc = "done", !.status = "Lost"]
                     ELSE caller[j]
    BY DEF Dies, At
  <2>3. QED
    BY <2>1, <2>2 DEF Caller
<1>3. DOMAIN caller' = Id /\ caller' = [j \in Id |-> caller'[j]]
  BY DEF Dies
<1>4. caller' \in [Id -> Caller]
  BY <1>2, <1>3
<1>5. QED
  BY <1>2, <1>4 DEF Dies, Exit

LEMMA TypeOKStep ==
    ASSUME TypeOK, Nobody, Matched, [Next]_vars
    PROVE  TypeOK'
<1>0. /\ phase \in [Node -> Phase] /\ net \subseteq Message
      /\ inbox \in [Node -> SUBSET Message] /\ child \in [Node -> SUBSET Child]
      /\ reply \in [Node -> SUBSET Id] /\ answer \in [Id -> Message \cup {None}]
      /\ caller \in [Id -> Caller] /\ result \in [Id -> {None, "Answer", "Failure"}]
  BY DEF TypeOK, ExchangeTypeOK
<1>1. CASE UNCHANGED vars
  BY <1>1 DEF vars, exchange, callers, TypeOK, ExchangeTypeOK
<1>2. ASSUME NEW i \in Id, CallerStep(i)
      PROVE  TypeOK'
  <2>1. /\ UNCHANGED <<phase, inbox, child, result>> /\ caller' \in [Id -> Caller]
    BY <1>2, CallerFields
  <2>2. net' \subseteq Message
    BY <1>0, <1>2, CallerFields
  <2>3. reply' \in [Node -> SUBSET Id]
    BY <1>0, <1>2, CallerFields
  <2>4. answer' \in [Id -> Message \cup {None}]
    BY <1>0, <1>2, CallerFields
  <2>5. QED
    BY <1>0, <2>1, <2>2, <2>3, <2>4 DEF TypeOK, ExchangeTypeOK
<1>3. ASSUME NEW n \in Node, NEW i \in Id, Begin(n, i)
      PROVE  TypeOK'
  BY <1>0, <1>3, BeginFields DEF TypeOK, ExchangeTypeOK
<1>4. ASSUME NEW n \in Node, NEW m \in inbox[n], Do(n, m), UNCHANGED callers
      PROVE  TypeOK'
  <2>1. m \in Message
    BY <1>0
  <2>2. [msg |-> m, for |-> None] \in Child
    BY <2>1 DEF Child
  <2>3. inbox' \in [Node -> SUBSET Message] /\ child' \in [Node -> SUBSET Child]
    BY <1>0, <1>4, <2>2 DEF Do
  <2>4. QED
    BY <1>0, <1>4, <2>3 DEF Do, callers, TypeOK, ExchangeTypeOK
<1>5. ASSUME NEW n \in Node, NEW k \in child[n], Pass(n, k) \/ Serve(n, k) \/ Return(n, k)
      PROVE  TypeOK'
  <2>1. \E S \in SUBSET Message : Leaves(n, k, S)
    BY <1>5, RunLeaves
  <2>2. /\ UNCHANGED <<phase, inbox, reply, answer>> /\ net' \subseteq Message
        /\ child' \in [Node -> SUBSET Child]
    BY <1>0, <2>1 DEF Leaves
  <2>3. result' \in [Id -> {None, "Answer", "Failure"}] /\ caller' = caller
    BY <1>0, <1>5, RunLeaves
  <2>4. QED
    BY <1>0, <2>2, <2>3 DEF TypeOK, ExchangeTypeOK
<1>6. ASSUME NEW n \in Node, Dies(n)
      PROVE  TypeOK'
  <2>1. "crashed" \in Phase
    BY DEF Phase
  <2>2. /\ UNCHANGED <<net, answer, result>>
        /\ phase' = [phase EXCEPT ![n] = "crashed"]
        /\ inbox' = [inbox EXCEPT ![n] = {}]
        /\ child' = [child EXCEPT ![n] = {}]
        /\ reply' = [reply EXCEPT ![n] = {}]
        /\ caller' \in [Id -> Caller]
    BY <1>6, DiesFields
  <2>3. phase' \in [Node -> Phase] /\ inbox' \in [Node -> SUBSET Message]
    BY <1>0, <2>1, <2>2
  <2>4. child' \in [Node -> SUBSET Child] /\ reply' \in [Node -> SUBSET Id]
    BY <1>0, <2>2
  <2>5. QED
    BY <1>0, <2>2, <2>3, <2>4 DEF TypeOK, ExchangeTypeOK
<1>7. ASSUME NEW n \in Node, NEW k \in child[n], Take(n, k) \/ Hand(n, k), UNCHANGED callers
      PROVE  TypeOK'
  <2>0. k \in Child /\ k.msg \in Message /\ k.msg.id \in Id /\ k.for \in Id \cup {None}
    BY Fields
  <2>1. CASE Take(n, k)
    <3>1. [k EXCEPT !.for = k.msg.id] \in Child
      BY <2>0 DEF Child
    <3>2. child' \in [Node -> SUBSET Child] /\ reply' \in [Node -> SUBSET Id]
      BY <1>0, <2>1, <3>1 DEF Take, Key
    <3>3. QED
      BY <1>0, <1>7, <2>1, <3>2 DEF Take, callers, TypeOK, ExchangeTypeOK
  <2>2. CASE Hand(n, k)
    <3>1. child' \in [Node -> SUBSET Child] /\ answer' \in [Id -> Message \cup {None}]
      BY <1>0, <2>0, <2>2 DEF Hand, End
    <3>2. QED
      BY <1>0, <1>7, <2>2, <3>1 DEF Hand, callers, TypeOK, ExchangeTypeOK
  <2>3. QED
    BY <1>7, <2>1, <2>2
<1>8. ASSUME NEW n \in Node, UNCHANGED callers,
             \/ Listen(n) \/ Open(n) \/ Signal(n) \/ Finish(n)
             \/ WaitReplies(n) \/ WaitChildren(n) \/ Close(n)
      PROVE  TypeOK'
  <2>1. phase' \in [Node -> Phase]
    BY <1>0, <1>8 DEF Listen, Open, Signal, Finish, WaitReplies, WaitChildren, Close, Goes, Exit, Phase
  <2>3. child' \in [Node -> SUBSET Child]
    BY <1>0, <1>8 DEF Listen, Open, Signal, Finish, WaitReplies, WaitChildren, Close, Exit, exchange
  <2>4. inbox' \in [Node -> SUBSET Message] /\ reply' \in [Node -> SUBSET Id]
    BY <1>0, <1>8 DEF Listen, Open, Signal, Finish, WaitReplies, WaitChildren, Close, Exit, exchange
  <2>5. UNCHANGED <<net, answer>>
    BY <1>8 DEF Listen, Open, Signal, Finish, WaitReplies, WaitChildren, Close, Exit, exchange
  <2>6. QED
    BY <1>0, <1>8, <2>1, <2>3, <2>4, <2>5 DEF callers, TypeOK, ExchangeTypeOK
<1>9. ASSUME NEW m \in net, Drop(m) \/ \E n \in Node : Deliver(n, m), UNCHANGED callers
      PROVE  TypeOK'
  <2>1. UNCHANGED <<phase, child, reply, answer>> /\ net' \subseteq Message
    BY <1>0, <1>9 DEF Drop, Deliver
  <2>2. inbox' \in [Node -> SUBSET Message]
    BY <1>0, <1>9 DEF Drop, Deliver
  <2>3. QED
    BY <1>0, <1>9, <2>1, <2>2 DEF callers, TypeOK, ExchangeTypeOK
<1>10. QED
  BY <1>1, <1>2, <1>3, <1>4, <1>5, <1>6, <1>7, <1>8, <1>9, Steps DEF Crash, NoRepository

-----------------------------------------------------------------------------
(* One trace.                                                              *)

Before(i) == caller[i].pc \in {"idle", "begin", "new"}

\* What the invariant says of the traces of message i.
Sound(i) ==
    /\ Single(Traces(i))
    /\ Before(i) => Traces(i) = {} /\ result[i] = None
    /\ \A m \in Forms(i) :
        /\ ~IsAnswer(m) => result[i] = None
        /\ m.type = "Answer" => result[i] = "Answer"

\* A step adds nothing to the traces of message i.
Kept(i) ==
    /\ \A m \in net' : m.id = i => m \in net
    /\ \A n \in Node : \A m \in inbox'[n] : m.id = i => m \in inbox[n]
    /\ \A n \in Node : \A k \in child'[n] : k.msg.id = i => k \in child[n]
    /\ answer'[i] \in {answer[i], None}

LEMMA InTraces ==
    ASSUME NEW i \in Id, NEW t
    PROVE  t \in Traces(i) <=>
             \/ \E m \in net : m.id = i /\ t = <<"net", m>>
             \/ \E n \in Node : \E m \in inbox[n] : m.id = i /\ t = <<"inbox", n, m>>
             \/ \E n \in Node : \E k \in child[n] : k.msg.id = i /\ t = <<"child", n, k>>
             \/ answer[i] # None /\ t = <<"answer", answer[i]>>
<1> DEFINE A == {<<"net", m>> : m \in {x \in net : x.id = i}}
           B == UNION {{<<"inbox", n, m>> : m \in {x \in inbox[n] : x.id = i}} : n \in Node}
           C == UNION {{<<"child", n, k>> : k \in {x \in child[n] : x.msg.id = i}} : n \in Node}
           D == {<<"answer", m>> : m \in {answer[i]} \ {None}}
<1>1. t \in A
        <=> \E m \in net : m.id = i /\ t = <<"net", m>>
  OBVIOUS
<1>2. t \in B
        <=> \E n \in Node : \E m \in inbox[n] : m.id = i /\ t = <<"inbox", n, m>>
  <2>1. t \in B
          <=> \E n \in Node : t \in {<<"inbox", n, m>> : m \in {x \in inbox[n] : x.id = i}}
    OBVIOUS
  <2>2. \A n \in Node : t \in {<<"inbox", n, m>> : m \in {x \in inbox[n] : x.id = i}}
          <=> \E m \in inbox[n] : m.id = i /\ t = <<"inbox", n, m>>
    OBVIOUS
  <2>3. QED
    BY <2>1, <2>2
<1>3. t \in C
        <=> \E n \in Node : \E k \in child[n] : k.msg.id = i /\ t = <<"child", n, k>>
  <2>1. t \in C
          <=> \E n \in Node : t \in {<<"child", n, k>> : k \in {x \in child[n] : x.msg.id = i}}
    OBVIOUS
  <2>2. \A n \in Node : t \in {<<"child", n, k>> : k \in {x \in child[n] : x.msg.id = i}}
          <=> \E k \in child[n] : k.msg.id = i /\ t = <<"child", n, k>>
    OBVIOUS
  <2>3. QED
    BY <2>1, <2>2
<1>4. t \in D
        <=> answer[i] # None /\ t = <<"answer", answer[i]>>
  OBVIOUS
<1>5. Traces(i) = A \cup B \cup C \cup D
  BY Zenon DEF Traces
<1> HIDE DEF A, B, C, D
<1>6. QED
  BY <1>1, <1>2, <1>3, <1>4, <1>5

LEMMA InForms ==
    ASSUME NEW i \in Id, NEW m
    PROVE  m \in Forms(i) <=>
             \/ m \in net /\ m.id = i
             \/ \E n \in Node : m \in inbox[n] /\ m.id = i
             \/ \E n \in Node : \E k \in child[n] : k.msg.id = i /\ m = k.msg
             \/ answer[i] # None /\ m = answer[i]
<1> DEFINE A == {x \in net : x.id = i}
           B == UNION {{x \in inbox[n] : x.id = i} : n \in Node}
           C == UNION {{k.msg : k \in {x \in child[n] : x.msg.id = i}} : n \in Node}
           D == {answer[i]} \ {None}
<1>1. m \in B
        <=> \E n \in Node : m \in inbox[n] /\ m.id = i
  OBVIOUS
<1>2. m \in C
        <=> \E n \in Node : \E k \in child[n] : k.msg.id = i /\ m = k.msg
  <2>1. m \in C
          <=> \E n \in Node : m \in {k.msg : k \in {x \in child[n] : x.msg.id = i}}
    OBVIOUS
  <2>2. \A n \in Node : m \in {k.msg : k \in {x \in child[n] : x.msg.id = i}}
          <=> \E k \in child[n] : k.msg.id = i /\ m = k.msg
    OBVIOUS
  <2>3. QED
    BY <2>1, <2>2
<1>3. (m \in A <=> m \in net /\ m.id = i) /\ (m \in D <=> answer[i] # None /\ m = answer[i])
  OBVIOUS
<1>4. Forms(i) = A \cup B \cup C \cup D
  BY Zenon DEF Forms
<1> HIDE DEF A, B, C, D
<1>5. QED
  BY <1>1, <1>2, <1>3, <1>4

LEMMA KeptSound ==
    ASSUME NEW i \in Id, Sound(i), Kept(i), result'[i] = result[i], Before(i)' => Before(i)
    PROVE  Sound(i)'
<1>1. Traces(i)' \subseteq Traces(i)
  BY DEF Kept, Traces
<1>2. Forms(i)' \subseteq Forms(i)
  BY DEF Kept, Forms
<1>3. QED
  BY <1>1, <1>2 DEF Sound, Single

\* A trace, and the form that message i has there.
LEMMA Alone ==
    ASSUME NEW i \in Id, Sound(i)
    PROVE  /\ \A m \in net : m.id = i =>
                /\ ~Before(i) /\ m \in Forms(i)
                /\ \A x \in net : x.id = i => x = m
                /\ \A l \in Node : \A x \in inbox[l] : x.id # i
                /\ \A l \in Node : \A x \in child[l] : x.msg.id # i
                /\ answer[i] = None
           /\ \A n \in Node : \A m \in inbox[n] : m.id = i =>
                /\ ~Before(i) /\ m \in Forms(i)
                /\ \A x \in net : x.id # i
                /\ \A l \in Node : \A x \in inbox[l] : x.id = i => l = n /\ x = m
                /\ \A l \in Node : \A x \in child[l] : x.msg.id # i
                /\ answer[i] = None
           /\ \A n \in Node : \A k \in child[n] : k.msg.id = i =>
                /\ ~Before(i) /\ k.msg \in Forms(i)
                /\ \A x \in net : x.id # i
                /\ \A l \in Node : \A x \in inbox[l] : x.id # i
                /\ \A l \in Node : \A x \in child[l] : x.msg.id = i => l = n /\ x = k
                /\ answer[i] = None
           /\ answer[i] # None => ~Before(i)
<1>1. \A m \in net : m.id = i => <<"net", m>> \in Traces(i) /\ m \in Forms(i)
  BY DEF Traces, Forms
<1>2. \A n \in Node : \A m \in inbox[n] : m.id = i => <<"inbox", n, m>> \in Traces(i) /\ m \in Forms(i)
  BY DEF Traces, Forms
<1>3. \A n \in Node : \A k \in child[n] : k.msg.id = i => <<"child", n, k>> \in Traces(i) /\ k.msg \in Forms(i)
  BY DEF Traces, Forms
<1>4. answer[i] # None => <<"answer", answer[i]>> \in Traces(i)
  BY DEF Traces
<1>5. Single(Traces(i)) /\ (Before(i) => Traces(i) = {})
  BY DEF Sound
<1>6. ASSUME NEW m \in net, m.id = i
      PROVE  /\ ~Before(i) /\ m \in Forms(i)
             /\ \A x \in net : x.id = i => x = m
             /\ \A l \in Node : \A x \in inbox[l] : x.id # i
             /\ \A l \in Node : \A x \in child[l] : x.msg.id # i
             /\ answer[i] = None
  <2>1. \A t \in Traces(i) : t = <<"net", m>>
    BY <1>1, <1>5, <1>6 DEF Single
  <2>2. QED
    BY <1>1, <1>2, <1>3, <1>4, <1>5, <1>6, <2>1
<1>7. ASSUME NEW n \in Node, NEW m \in inbox[n], m.id = i
      PROVE  /\ ~Before(i) /\ m \in Forms(i)
             /\ \A x \in net : x.id # i
             /\ \A l \in Node : \A x \in inbox[l] : x.id = i => l = n /\ x = m
             /\ \A l \in Node : \A x \in child[l] : x.msg.id # i
             /\ answer[i] = None
  <2>1. \A t \in Traces(i) : t = <<"inbox", n, m>>
    BY <1>2, <1>5, <1>7 DEF Single
  <2>2. QED
    BY <1>1, <1>2, <1>3, <1>4, <1>5, <1>7, <2>1
<1>8. ASSUME NEW n \in Node, NEW k \in child[n], k.msg.id = i
      PROVE  /\ ~Before(i) /\ k.msg \in Forms(i)
             /\ \A x \in net : x.id # i
             /\ \A l \in Node : \A x \in inbox[l] : x.id # i
             /\ \A l \in Node : \A x \in child[l] : x.msg.id = i => l = n /\ x = k
             /\ answer[i] = None
  <2>1. \A t \in Traces(i) : t = <<"child", n, k>>
    BY <1>3, <1>5, <1>8 DEF Single
  <2>2. QED
    BY <1>1, <1>2, <1>3, <1>4, <1>5, <1>8, <2>1
<1>9. QED
  BY <1>4, <1>5, <1>6, <1>7, <1>8

\* All that is left of message i is in one place, in one form.
LEMMA NowSound ==
    ASSUME NEW i \in Id, NEW u, NEW x,
           \A m \in net' : m.id = i => <<"net", m>> = u /\ m = x,
           \A n \in Node : \A m \in inbox'[n] : m.id = i => <<"inbox", n, m>> = u /\ m = x,
           \A n \in Node : \A k \in child'[n] : k.msg.id = i => <<"child", n, k>> = u /\ k.msg = x,
           answer'[i] # None => <<"answer", answer'[i]>> = u /\ answer'[i] = x,
           ~Before(i)',
           ~IsAnswer(x) => result'[i] = None,
           x.type = "Answer" => result'[i] = "Answer"
    PROVE  Sound(i)'
<1>1. \A t \in Traces(i)' : t = u
  BY DEF Traces
<1>2. \A m \in Forms(i)' : m = x
  BY DEF Forms
<1>3. QED
  BY <1>1, <1>2 DEF Sound, Single

\* (the four places)
LEMMA NowInNet ==
    ASSUME NEW i \in Id, NEW x,
           \A m \in net' : m.id = i => m = x,
           \A n \in Node : \A m \in inbox'[n] : m.id # i,
           \A n \in Node : \A k \in child'[n] : k.msg.id # i,
           answer'[i] = None,
           ~Before(i)',
           ~IsAnswer(x) => result'[i] = None,
           x.type = "Answer" => result'[i] = "Answer"
    PROVE  Sound(i)'
<1> DEFINE u == <<"net", x>>
<1>1. \A m \in net' : m.id = i => <<"net", m>> = u /\ m = x
  OBVIOUS
<1> HIDE DEF u
<1>2. QED
  BY <1>1, NowSound

LEMMA NowInInbox ==
    ASSUME NEW i \in Id, NEW l \in Node, NEW x,
           \A m \in net' : m.id # i,
           \A n \in Node : \A m \in inbox'[n] : m.id = i => n = l /\ m = x,
           \A n \in Node : \A k \in child'[n] : k.msg.id # i,
           answer'[i] = None,
           ~Before(i)',
           ~IsAnswer(x) => result'[i] = None,
           x.type = "Answer" => result'[i] = "Answer"
    PROVE  Sound(i)'
<1> DEFINE u == <<"inbox", l, x>>
<1>1. \A n \in Node : \A m \in inbox'[n] : m.id = i => <<"inbox", n, m>> = u /\ m = x
  OBVIOUS
<1> HIDE DEF u
<1>2. QED
  BY <1>1, NowSound

LEMMA NowInChild ==
    ASSUME NEW i \in Id, NEW l \in Node, NEW h, NEW x, h.msg = x,
           \A m \in net' : m.id # i,
           \A n \in Node : \A m \in inbox'[n] : m.id # i,
           \A n \in Node : \A k \in child'[n] : k.msg.id = i => n = l /\ k = h,
           answer'[i] = None,
           ~Before(i)',
           ~IsAnswer(x) => result'[i] = None,
           x.type = "Answer" => result'[i] = "Answer"
    PROVE  Sound(i)'
<1> DEFINE u == <<"child", l, h>>
<1>1. \A n \in Node : \A k \in child'[n] : k.msg.id = i => <<"child", n, k>> = u /\ k.msg = x
  OBVIOUS
<1> HIDE DEF u
<1>2. QED
  BY <1>1, NowSound

LEMMA NowAnswered ==
    ASSUME NEW i \in Id, NEW x,
           \A m \in net' : m.id # i,
           \A n \in Node : \A m \in inbox'[n] : m.id # i,
           \A n \in Node : \A k \in child'[n] : k.msg.id # i,
           answer'[i] = x,
           ~Before(i)',
           ~IsAnswer(x) => result'[i] = None,
           x.type = "Answer" => result'[i] = "Answer"
    PROVE  Sound(i)'
<1> DEFINE u == <<"answer", x>>
<1>1. <<"answer", answer'[i]>> = u
  OBVIOUS
<1> HIDE DEF u
<1>2. QED
  BY <1>1, NowSound

\* A message that was sent stays so.
LEMMA Later ==
    ASSUME TypeOK, Nobody, [Next]_vars, NEW i \in Id, Before(i)'
    PROVE  Before(i)
<1>1. CASE \E j \in Id : CallerStep(j)
  BY <1>1, CallerFields DEF Before
<1>2. CASE \E n \in Node, j \in Id : Begin(n, j)
  BY <1>2, BeginFields DEF Before
<1>3. CASE \E n \in Node : Dies(n)
  BY <1>3, DiesFields DEF Before
<1>4. CASE caller' = caller
  BY <1>4 DEF Before
<1>5. CASE \E n \in Node : \E k \in child[n] : Pass(n, k) \/ Serve(n, k) \/ Return(n, k)
  BY <1>4, <1>5, RunLeaves
<1>6. QED
  BY <1>1, <1>2, <1>3, <1>4, <1>5, Steps DEF Crash, NoRepository, callers, vars

LEMMA SoundStep ==
    ASSUME TypeOK, Nobody, Matched, \A i \in Id : Sound(i), [Next]_vars,
           NEW i \in Id
    PROVE  Sound(i)'
<1>0. /\ Sound(i) /\ (Before(i)' => Before(i))
      /\ inbox \in [Node -> SUBSET Message] /\ child \in [Node -> SUBSET Child]
      /\ answer \in [Id -> Message \cup {None}] /\ result \in [Id -> {None, "Answer", "Failure"}]
  BY Later DEF TypeOK, ExchangeTypeOK
<1>1. ASSUME Kept(i), result'[i] = result[i]
      PROVE  Sound(i)'
  BY <1>0, <1>1, KeptSound
<1>2. CASE UNCHANGED vars
  BY <1>1, <1>2 DEF vars, exchange, callers, Kept
<1>3. ASSUME NEW j \in Id, CallerStep(j)
      PROVE  Sound(i)'
  <2>0. UNCHANGED <<inbox, child, result>> /\ answer'[i] \in {answer[i], None}
    BY <1>0, <1>3, CallerFields
  <2>1. CASE UNCHANGED net
    BY <1>1, <2>0, <2>1 DEF Kept
  <2>2. ASSUME NEW m \in Message, m.id = j, ~IsAnswer(m), net' = net \cup {m},
               Before(j), ~Before(j)', answer' = answer
        PROVE  Sound(i)'
    <3>1. CASE i # j
      <4>1. Kept(i)
        BY <2>0, <2>2, <3>1 DEF Kept
      <4>2. QED
        BY <1>1, <2>0, <4>1
    <3>2. CASE i = j
      <4>1. /\ \A x \in net : x.id # i
            /\ \A n \in Node : \A x \in inbox[n] : x.id # i
            /\ \A n \in Node : \A x \in child[n] : x.msg.id # i
            /\ answer[i] = None
        BY <1>0, <2>2, <3>2, Alone
      <4>2. result'[i] = None /\ m.type # "Answer"
        BY <1>0, <2>0, <2>2, <3>2 DEF Sound, IsAnswer
      <4>3. QED
        BY <2>0, <2>2, <3>2, <4>1, <4>2, NowInNet
    <3>3. QED
      BY <3>1, <3>2
  <2>3. QED
    BY <1>3, <2>1, <2>2, CallerFields DEF Before
<1>4. ASSUME NEW n \in Node, NEW j \in Id, Begin(n, j)
      PROVE  Sound(i)'
  BY <1>1, <1>4, BeginFields DEF Kept
<1>5. ASSUME NEW n \in Node, Dies(n)
      PROVE  Sound(i)'
  <2>1. Kept(i) /\ result' = result
    BY <1>0, <1>5, DiesFields DEF Kept
  <2>2. QED
    BY <1>1, <2>1
<1>6. ASSUME NEW n \in Node, NEW m \in inbox[n], Do(n, m), UNCHANGED callers
      PROVE  Sound(i)'
  <2> DEFINE k == [msg |-> m, for |-> None]
  <2>0. /\ UNCHANGED <<net, answer, caller, result>> /\ k.msg = m
        /\ inbox' = [inbox EXCEPT ![n] = @ \ {m}] /\ child' = [child EXCEPT ![n] = @ \cup {k}]
    BY <1>6 DEF Do, callers
  <2> HIDE DEF k
  <2>1. CASE m.id # i
    <3>1. Kept(i)
      BY <1>0, <2>0, <2>1 DEF Kept
    <3>2. QED
      BY <1>1, <2>0, <3>1
  <2>2. CASE m.id = i
    <3>1. /\ ~Before(i) /\ m \in Forms(i)
          /\ \A x \in net : x.id # i
          /\ \A l \in Node : \A x \in inbox[l] : x.id = i => l = n /\ x = m
          /\ \A l \in Node : \A x \in child[l] : x.msg.id # i
          /\ answer[i] = None
      BY <1>0, <2>2, Alone
    <3>2. \A l \in Node : \A x \in inbox'[l] : x.id # i
      BY <1>0, <2>0, <3>1
    <3>3. \A l \in Node : \A x \in child'[l] : x.msg.id = i => l = n /\ x = k
      BY <1>0, <2>0, <3>1
    <3>4. /\ ~IsAnswer(m) => result'[i] = None
          /\ m.type = "Answer" => result'[i] = "Answer"
      BY <1>0, <2>0, <3>1 DEF Sound
    <3>5. ~Before(i)'
      BY <1>0, <3>1
    <3>6. QED
      BY <2>0, <3>1, <3>2, <3>3, <3>4, <3>5, NowInChild
  <2>3. QED
    BY <2>1, <2>2

<1>7. ASSUME NEW n \in Node, NEW k \in child[n], Pass(n, k) \/ Serve(n, k) \/ Return(n, k)
      PROVE  Sound(i)'
  <2>0. /\ caller' = caller /\ k.msg \in Message
        /\ \A S : Leaves(n, k, S) =>
              /\ child' = [child EXCEPT ![n] = @ \ {k}] /\ net' = net \cup S
              /\ UNCHANGED <<inbox, answer>>
    BY <1>7, RunLeaves, Fields DEF Leaves
  <2>1. CASE k.msg.id # i
    <3>1. result'[i] = result[i]
      BY <1>0, <1>7, <2>1, RunLeaves
    <3>2. Leaves(n, k, {}) \/ \E m \in Message : Leaves(n, k, {m}) /\ m.id = k.msg.id
      BY <1>7, RunLeaves
    <3>3. Kept(i)
      <4>1. UNCHANGED <<inbox, answer>> /\ child' = [child EXCEPT ![n] = @ \ {k}]
        BY <3>2 DEF Leaves
      <4>2. \A m \in net' : m.id = i => m \in net
        BY <2>1, <3>2 DEF Leaves
      <4>3. QED
        BY <1>0, <4>1, <4>2 DEF Kept
    <3>4. QED
      BY <1>1, <3>1, <3>3
  <2>2. CASE k.msg.id = i
    <3>1. /\ ~Before(i)' /\ k.msg \in Forms(i)
          /\ \A x \in net : x.id # i
          /\ \A l \in Node : \A x \in inbox[l] : x.id # i
          /\ \A l \in Node : \A x \in child[l] : x.msg.id = i => l = n /\ x = k
          /\ answer[i] = None
      BY <1>0, <2>2, Alone
    <3>2. /\ ~IsAnswer(k.msg) => result[i] = None
          /\ k.msg.type = "Answer" => result[i] = "Answer"
      BY <1>0, <3>1 DEF Sound
    <3>3. ASSUME NEW S, Leaves(n, k, S)
          PROVE  /\ \A l \in Node : \A x \in inbox'[l] : x.id # i
                 /\ \A l \in Node : \A x \in child'[l] : x.msg.id # i
                 /\ \A x \in net' : x.id = i => x \in S
                 /\ answer'[i] = None
      BY <1>0, <2>0, <3>1, <3>3
    <3>4. CASE Leaves(n, k, {})
      <4>1. Traces(i)' = {} /\ Forms(i)' = {}
        <5>1. \A t : t \notin Traces(i)'
          BY <3>3, <3>4 DEF Traces
        <5>2. \A m : m \notin Forms(i)'
          BY <3>3, <3>4 DEF Forms
        <5>3. QED
          BY <5>1, <5>2
      <4>2. QED
        BY <3>1, <4>1 DEF Sound, Single
    <3>5. ASSUME NEW m \in Message, Leaves(n, k, {m}),
                 ~IsAnswer(m) => result'[i] = None,
                 m.type = "Answer" => result'[i] = "Answer"
          PROVE  Sound(i)'
      BY <3>1, <3>3, <3>5, NowInNet
    <3>6. QED
      BY <1>0, <1>7, <2>2, <3>2, <3>4, <3>5, RunLeaves DEF IsAnswer
  <2>3. QED
    BY <2>1, <2>2
<1>8. ASSUME NEW n \in Node, NEW k \in child[n], Take(n, k), UNCHANGED callers
      PROVE  Sound(i)'
  <2> DEFINE h == [k EXCEPT !.for = k.msg.id]
  <2>0. /\ UNCHANGED <<net, inbox, answer, caller, result>> /\ h.msg = k.msg
        /\ child' = [child EXCEPT ![n] = (@ \ {k}) \cup {h}]
    BY <1>8, Fields DEF Take, callers, Key, Child
  <2> HIDE DEF h
  <2>1. CASE k.msg.id # i
    <3>1. Kept(i)
      BY <1>0, <2>0, <2>1 DEF Kept
    <3>2. QED
      BY <1>1, <2>0, <3>1
  <2>2. CASE k.msg.id = i
    <3>1. /\ ~Before(i)' /\ k.msg \in Forms(i)
          /\ \A x \in net : x.id # i
          /\ \A l \in Node : \A x \in inbox[l] : x.id # i
          /\ \A l \in Node : \A x \in child[l] : x.msg.id = i => l = n /\ x = k
          /\ answer[i] = None
      BY <1>0, <2>2, Alone
    <3>2. \A l \in Node : \A x \in child'[l] : x.msg.id = i => l = n /\ x = h
      BY <1>0, <2>0, <3>1
    <3>3. /\ ~IsAnswer(k.msg) => result'[i] = None
          /\ k.msg.type = "Answer" => result'[i] = "Answer"
      BY <1>0, <2>0, <3>1 DEF Sound
    <3>4. QED
      BY <2>0, <3>1, <3>2, <3>3, NowInChild
  <2>3. QED
    BY <2>1, <2>2
<1>9. ASSUME NEW n \in Node, NEW k \in child[n], Hand(n, k), UNCHANGED callers
      PROVE  Sound(i)'
  <2>0. /\ UNCHANGED <<net, inbox, caller, result>> /\ k.for \in Id /\ k.for = k.msg.id
        /\ child' = [child EXCEPT ![n] = @ \ {k}]
        /\ answer' = [answer EXCEPT ![k.for] = k.msg]
    BY <1>9, Fields DEF Hand, End, callers, Matched
  <2>1. CASE k.msg.id # i
    <3>1. Kept(i)
      BY <1>0, <2>0, <2>1 DEF Kept
    <3>2. QED
      BY <1>1, <2>0, <3>1
  <2>2. CASE k.msg.id = i
    <3>1. /\ ~Before(i)' /\ k.msg \in Forms(i)
          /\ \A x \in net : x.id # i
          /\ \A l \in Node : \A x \in inbox[l] : x.id # i
          /\ \A l \in Node : \A x \in child[l] : x.msg.id = i => l = n /\ x = k
      BY <1>0, <2>2, Alone
    <3>2. /\ \A l \in Node : \A x \in child'[l] : x.msg.id # i
          /\ answer'[i] = k.msg
      BY <1>0, <2>0, <2>2, <3>1
    <3>3. /\ ~IsAnswer(k.msg) => result'[i] = None
          /\ k.msg.type = "Answer" => result'[i] = "Answer"
      BY <1>0, <2>0, <3>1 DEF Sound
    <3>4. QED
      BY <2>0, <3>1, <3>2, <3>3, NowAnswered
  <2>3. QED
    BY <2>1, <2>2
<1>10. ASSUME NEW n \in Node, UNCHANGED callers,
              \/ Listen(n) \/ Open(n) \/ Signal(n) \/ Finish(n)
              \/ WaitReplies(n) \/ WaitChildren(n) \/ Close(n)
       PROVE  Sound(i)'
  <2>1. UNCHANGED <<net, answer, result>>
    BY <1>10 DEF Listen, Open, Signal, Finish, WaitReplies, WaitChildren, Close, Exit, exchange, callers
  <2>2. \A l \in Node : inbox'[l] \subseteq inbox[l] /\ child'[l] \subseteq child[l]
    BY <1>0, <1>10 DEF Listen, Open, Signal, Finish, WaitReplies, WaitChildren, Close, Exit, exchange
  <2>3. QED
    BY <1>1, <2>1, <2>2 DEF Kept
<1>11. ASSUME NEW m \in net, Drop(m), UNCHANGED callers
       PROVE  Sound(i)'
  BY <1>1, <1>11 DEF Drop, Kept, callers
<1>12. ASSUME NEW m \in net, NEW n \in Node, Deliver(n, m), UNCHANGED callers
       PROVE  Sound(i)'
  <2>0. /\ UNCHANGED <<child, answer, caller, result>> /\ net' = net \ {m}
        /\ inbox' = [inbox EXCEPT ![n] = @ \cup {m}]
    BY <1>12 DEF Deliver, callers
  <2>1. CASE m.id # i
    <3>1. Kept(i)
      BY <1>0, <2>0, <2>1 DEF Kept
    <3>2. QED
      BY <1>1, <2>0, <3>1
  <2>2. CASE m.id = i
    <3>1. /\ ~Before(i)' /\ m \in Forms(i)
          /\ \A x \in net : x.id = i => x = m
          /\ \A l \in Node : \A x \in inbox[l] : x.id # i
          /\ \A l \in Node : \A x \in child[l] : x.msg.id # i
          /\ answer[i] = None
      BY <1>0, <2>2, Alone
    <3>2. /\ \A x \in net' : x.id # i
          /\ \A l \in Node : \A x \in inbox'[l] : x.id = i => l = n /\ x = m
      BY <1>0, <2>0, <3>1
    <3>3. /\ ~IsAnswer(m) => result'[i] = None
          /\ m.type = "Answer" => result'[i] = "Answer"
      BY <1>0, <2>0, <3>1 DEF Sound
    <3>4. QED
      BY <2>0, <3>1, <3>2, <3>3, NowInInbox
  <2>3. QED
    BY <2>1, <2>2
<1>13. QED
  BY <1>2, <1>3, <1>4, <1>5, <1>6, <1>7, <1>8, <1>9, <1>10, <1>11, <1>12, Steps
     DEF Crash, NoRepository

-----------------------------------------------------------------------------
(* One source.                                                             *)

\* What the invariant says of the sources of the answer to message i.
Fed(i) ==
    /\ Single(Sources(i))
    /\ Before(i) => Sources(i) = {}
    /\ At(i, "waiting") => Sources(i) # {}
    /\ \A n \in Node : i \in reply[n] =>
        caller[i].node = n /\ caller[i].pc \in {"waiting", "giveup"}
    /\ \A n \in Node : \A k \in child[n] : k.for = i => caller[i].node = n

LEMMA InSources ==
    ASSUME NEW i \in Id, NEW s
    PROVE  s \in Sources(i) <=>
             \/ \E n \in Node : i \in reply[n] /\ s = <<"reply", n>>
             \/ \E n \in Node : \E k \in child[n] : k.for = i /\ s = <<"hand", n, k>>
             \/ answer[i] # None /\ s = <<"answer", answer[i]>>
<1> DEFINE A == {<<"reply", n>> : n \in {x \in Node : i \in reply[x]}}
           B == UNION {{<<"hand", n, k>> : k \in {x \in child[n] : x.for = i}} : n \in Node}
           C == {<<"answer", m>> : m \in {answer[i]} \ {None}}
<1>1. s \in A <=> \E n \in Node : i \in reply[n] /\ s = <<"reply", n>>
  OBVIOUS
<1>2. s \in B <=> \E n \in Node : \E k \in child[n] : k.for = i /\ s = <<"hand", n, k>>
  <2>1. s \in B <=> \E n \in Node : s \in {<<"hand", n, k>> : k \in {x \in child[n] : x.for = i}}
    OBVIOUS
  <2>2. \A n \in Node : s \in {<<"hand", n, k>> : k \in {x \in child[n] : x.for = i}}
          <=> \E k \in child[n] : k.for = i /\ s = <<"hand", n, k>>
    OBVIOUS
  <2>3. QED
    BY <2>1, <2>2
<1>3. s \in C <=> answer[i] # None /\ s = <<"answer", answer[i]>>
  OBVIOUS
<1>4. Sources(i) = A \cup B \cup C
  BY Zenon DEF Sources
<1> HIDE DEF A, B, C
<1>5. QED
  BY <1>1, <1>2, <1>3, <1>4

\* A step leaves the sources of i alone, and its caller where it is.
LEMMA FedSame ==
    ASSUME NEW i \in Id, Fed(i),
           \A n \in Node : i \in reply'[n] <=> i \in reply[n],
           \A n \in Node : \A k : k.for = i => (k \in child'[n] <=> k \in child[n]),
           answer'[i] = answer[i],
           caller'[i].node = caller[i].node,
           Before(i)' => Before(i),
           At(i, "waiting")' => At(i, "waiting"),
           caller[i].pc \in {"waiting", "giveup"} => caller'[i].pc \in {"waiting", "giveup"}
    PROVE  Fed(i)'
<1>1. Sources(i)' = Sources(i)
  <2>1. Sources(i)' \subseteq Sources(i)
    BY DEF Sources
  <2>2. Sources(i) \subseteq Sources(i)'
    BY DEF Sources
  <2>3. QED
    BY <2>1, <2>2
<1>2. QED
  BY <1>1 DEF Fed

\* No source is left, or one.
LEMMA FedNone ==
    ASSUME NEW i \in Id,
           \A n \in Node : i \notin reply'[n],
           \A n \in Node : \A k \in child'[n] : k.for # i,
           answer'[i] = None,
           ~At(i, "waiting")'
    PROVE  Fed(i)'
<1>1. Sources(i)' = {}
  BY DEF Sources
<1>2. QED
  BY <1>1 DEF Fed, Single

LEMMA FedNow ==
    ASSUME NEW i \in Id, NEW u \in Sources(i)',
           \A n \in Node : i \in reply'[n] => <<"reply", n>> = u,
           \A n \in Node : \A k \in child'[n] : k.for = i => <<"hand", n, k>> = u,
           answer'[i] # None => <<"answer", answer'[i]>> = u,
           \A n \in Node : i \in reply'[n] =>
                caller'[i].node = n /\ caller'[i].pc \in {"waiting", "giveup"},
           \A n \in Node : \A k \in child'[n] : k.for = i => caller'[i].node = n,
           ~Before(i)'
    PROVE  Fed(i)'
<1>1. \A s \in Sources(i)' : s = u
  BY DEF Sources
<1>2. QED
  BY <1>1 DEF Fed, Single

LEMMA Only ==
    ASSUME NEW i \in Id, Fed(i)
    PROVE  /\ \A n \in Node : i \in reply[n] =>
                /\ ~Before(i) /\ caller[i].node = n
                /\ \A l \in Node : i \in reply[l] => l = n
                /\ \A l \in Node : \A k \in child[l] : k.for # i
                /\ answer[i] = None
           /\ \A n \in Node : \A k \in child[n] : k.for = i =>
                /\ ~Before(i) /\ caller[i].node = n
                /\ \A l \in Node : i \notin reply[l]
                /\ \A l \in Node : \A x \in child[l] : x.for = i => l = n /\ x = k
                /\ answer[i] = None
           /\ answer[i] # None =>
                /\ ~Before(i)
                /\ \A l \in Node : i \notin reply[l]
                /\ \A l \in Node : \A x \in child[l] : x.for # i
<1>1. \A n \in Node : i \in reply[n] => <<"reply", n>> \in Sources(i)
  BY InSources
<1>2. \A n \in Node : \A k \in child[n] : k.for = i => <<"hand", n, k>> \in Sources(i)
  BY InSources
<1>3. answer[i] # None => <<"answer", answer[i]>> \in Sources(i)
  BY InSources
<1>4. Single(Sources(i)) /\ (Before(i) => Sources(i) = {})
  BY DEF Fed
<1>5. ASSUME NEW n \in Node, i \in reply[n]
      PROVE  /\ ~Before(i) /\ caller[i].node = n
             /\ \A l \in Node : i \in reply[l] => l = n
             /\ \A l \in Node : \A k \in child[l] : k.for # i
             /\ answer[i] = None
  <2>1. \A s \in Sources(i) : s = <<"reply", n>>
    BY <1>1, <1>4, <1>5 DEF Single
  <2>2. QED
    BY <1>1, <1>2, <1>3, <1>4, <1>5, <2>1 DEF Fed
<1>6. ASSUME NEW n \in Node, NEW k \in child[n], k.for = i
      PROVE  /\ ~Before(i) /\ caller[i].node = n
             /\ \A l \in Node : i \notin reply[l]
             /\ \A l \in Node : \A x \in child[l] : x.for = i => l = n /\ x = k
             /\ answer[i] = None
  <2>1. \A s \in Sources(i) : s = <<"hand", n, k>>
    BY <1>2, <1>4, <1>6 DEF Single
  <2>2. QED
    BY <1>1, <1>2, <1>3, <1>4, <1>6, <2>1 DEF Fed
<1>7. ASSUME answer[i] # None
      PROVE  /\ ~Before(i)
             /\ \A l \in Node : i \notin reply[l]
             /\ \A l \in Node : \A x \in child[l] : x.for # i
  <2>1. \A s \in Sources(i) : s = <<"answer", answer[i]>>
    BY <1>3, <1>4, <1>7 DEF Single
  <2>2. QED
    BY <1>1, <1>2, <1>3, <1>4, <1>7, <2>1
<1>8. QED
  BY <1>5, <1>6, <1>7

\* (the three sources)
LEMMA FedInReply ==
    ASSUME NEW i \in Id, NEW l \in Node,
           \A n \in Node : i \in reply'[n] <=> n = l,
           \A n \in Node : \A k \in child'[n] : k.for # i,
           answer'[i] = None,
           caller'[i].node = l, caller'[i].pc \in {"waiting", "giveup"}
    PROVE  Fed(i)'
<1> DEFINE u == <<"reply", l>>
<1>1. u \in Sources(i)'
  BY DEF Sources
<1>2. \A n \in Node : i \in reply'[n] => <<"reply", n>> = u
  OBVIOUS
<1> HIDE DEF u
<1>3. QED
  BY <1>1, <1>2, FedNow DEF Before

LEMMA FedInHand ==
    ASSUME NEW i \in Id, NEW l \in Node, NEW h \in child'[l], h.for = i,
           \A n \in Node : i \notin reply'[n],
           \A n \in Node : \A k \in child'[n] : k.for = i => n = l /\ k = h,
           answer'[i] = None,
           caller'[i].node = l, ~Before(i)'
    PROVE  Fed(i)'
<1> DEFINE u == <<"hand", l, h>>
<1>1. u \in Sources(i)'
  BY DEF Sources
<1>2. \A n \in Node : \A k \in child'[n] : k.for = i => <<"hand", n, k>> = u
  OBVIOUS
<1> HIDE DEF u
<1>3. QED
  BY <1>1, <1>2, FedNow

LEMMA FedAnswered ==
    ASSUME NEW i \in Id,
           \A n \in Node : i \notin reply'[n],
           \A n \in Node : \A k \in child'[n] : k.for # i,
           answer'[i] # None,
           ~Before(i)'
    PROVE  Fed(i)'
<1> DEFINE u == <<"answer", answer'[i]>>
<1>1. u \in Sources(i)'
  BY DEF Sources
<1>2. <<"answer", answer'[i]>> = u
  OBVIOUS
<1> HIDE DEF u
<1>3. QED
  BY <1>1, <1>2, FedNow

LEMMA FedStep ==
    ASSUME TypeOK, Nobody, Matched, \A i \in Id : Fed(i), [Next]_vars,
           NEW i \in Id
    PROVE  Fed(i)'
<1>0. /\ Fed(i)
      /\ child \in [Node -> SUBSET Child] /\ reply \in [Node -> SUBSET Id]
      /\ answer \in [Id -> Message \cup {None}] /\ None \notin Message /\ None \notin Id
  BY NoneAssumption DEF TypeOK, ExchangeTypeOK
<1>1. ASSUME \A n \in Node : i \in reply'[n] <=> i \in reply[n],
             \A n \in Node : \A k : k.for = i => (k \in child'[n] <=> k \in child[n]),
             answer'[i] = answer[i], caller'[i] = caller[i]
      PROVE  Fed(i)'
  BY <1>0, <1>1, FedSame DEF Before, At
<1>2. CASE UNCHANGED vars
  BY <1>1, <1>2 DEF vars, exchange, callers
<1>3. ASSUME NEW j \in Id, CallerStep(j)
      PROVE  Fed(i)'
  <2>0. UNCHANGED child /\ caller[j].node \in Node /\ caller'[j].node = caller[j].node
    BY <1>3, CallerFields
  <2>1. CASE i # j
    <3>1. caller'[i] = caller[i] /\ answer'[i] = answer[i]
      BY <1>0, <1>3, <2>1, CallerFields
    <3>2. \A n \in Node : i \in reply'[n] <=> i \in reply[n]
      BY <1>0, <1>3, <2>1, CallerFields
    <3>3. QED
      BY <1>1, <2>0, <3>1, <3>2
  <2>2. CASE /\ i = j /\ caller[i].pc = "begin" /\ caller'[i].pc \in {"new", "done"}
             /\ UNCHANGED <<reply, answer>>
    <3>1. /\ \A n \in Node : i \notin reply'[n]
          /\ \A n \in Node : \A k \in child'[n] : k.for # i
          /\ answer'[i] = None
      BY <1>0, <2>0, <2>2, Only DEF Before
    <3>2. QED
      BY <2>2, <3>1, FedNone DEF At
  <2>3. CASE /\ i = j /\ caller[i].pc = "new" /\ caller'[i].pc \in {"waiting", "giveup"}
             /\ reply' = [reply EXCEPT ![caller[i].node] = @ \cup {i}] /\ UNCHANGED answer
    <3>1. /\ \A n \in Node : i \notin reply[n]
          /\ \A n \in Node : \A k \in child'[n] : k.for # i
          /\ answer'[i] = None
      BY <1>0, <2>0, <2>3, Only DEF Before
    <3>2. \A n \in Node : i \in reply'[n] <=> n = caller[i].node
      BY <1>0, <2>3, <3>1
    <3>3. QED
      BY <2>0, <2>3, <3>1, <3>2, FedInReply
  <2>4. CASE /\ i = j /\ caller'[i].pc = "done" /\ answer[i] # None
             /\ answer' = [answer EXCEPT ![i] = None] /\ UNCHANGED reply
    <3>1. /\ \A n \in Node : i \notin reply'[n]
          /\ \A n \in Node : \A k \in child'[n] : k.for # i
          /\ answer'[i] = None
      BY <1>0, <2>0, <2>4, Only
    <3>2. QED
      BY <2>4, <3>1, FedNone DEF At
  <2>5. CASE /\ i = j /\ caller[i].pc = "waiting" /\ caller'[i].pc = "giveup"
             /\ UNCHANGED <<reply, answer>>
    BY <1>0, <2>0, <2>5, FedSame DEF Before, At
  <2>6. CASE /\ i = j /\ caller[i].pc = "giveup" /\ caller'[i].pc = "done"
             /\ reply' = [reply EXCEPT ![caller[i].node] = @ \ {i}] /\ UNCHANGED answer
    <3>1. \A n \in Node : i \notin reply'[n]
      BY <1>0, <2>6 DEF Fed
    <3>2. CASE answer[i] # None
      <4>1. /\ \A n \in Node : \A k \in child'[n] : k.for # i
            /\ answer'[i] # None
        BY <1>0, <2>0, <2>6, <3>2, Only
      <4>2. QED
        BY <2>6, <3>1, <4>1, FedAnswered DEF Before
    <3>3. CASE answer[i] = None /\ \A n \in Node : \A k \in child[n] : k.for # i
      BY <2>0, <2>6, <3>1, <3>3, FedNone DEF At
    <3>4. ASSUME NEW n \in Node, NEW k \in child[n], k.for = i
          PROVE  Fed(i)'
      <4>1. /\ caller[i].node = n /\ answer[i] = None
            /\ \A l \in Node : \A x \in child[l] : x.for = i => l = n /\ x = k
        BY <1>0, <3>4, Only
      <4>2. QED
        BY <2>0, <2>6, <3>1, <3>4, <4>1, FedInHand DEF Before
    <3>5. QED
      BY <3>2, <3>3, <3>4
  <2>7. QED
    BY <1>3, <2>1, <2>2, <2>3, <2>4, <2>5, <2>6, CallerFields
<1>4. ASSUME NEW n \in Node, NEW j \in Id, Begin(n, j)
      PROVE  Fed(i)'
  <2>1. /\ UNCHANGED <<child, reply, answer>> /\ \A l \in Id : l # j => caller'[l] = caller[l]
        /\ caller[j].pc = "idle" /\ caller'[j].pc = "begin"
    BY <1>4, BeginFields
  <2>2. CASE i # j
    BY <1>1, <2>1, <2>2
  <2>3. CASE i = j
    <3>1. /\ \A l \in Node : i \notin reply'[l]
          /\ \A l \in Node : \A k \in child'[l] : k.for # i
          /\ answer'[i] = None
      BY <1>0, <2>1, <2>3, Only DEF Before
    <3>2. QED
      BY <2>1, <2>3, <3>1, FedNone DEF At
  <2>4. QED
    BY <2>2, <2>3
<1>5. ASSUME NEW n \in Node, Dies(n)
      PROVE  Fed(i)'
  <2>0. /\ UNCHANGED answer /\ child' = [child EXCEPT ![n] = {}] /\ reply' = [reply EXCEPT ![n] = {}]
        /\ caller'[i].node = caller[i].node
        /\ \/ caller'[i] = caller[i] /\ (caller[i].node = n => caller[i].pc = "done")
           \/ caller[i].node = n /\ caller'[i].pc = "done"
    BY <1>5, DiesFields
  <2>1. CASE caller[i].node # n
    <3>1. /\ i \notin reply[n] /\ \A k \in child[n] : k.for # i
          /\ caller'[i] = caller[i]
      BY <1>0, <2>0, <2>1 DEF Fed
    <3>2. \A l \in Node : i \in reply'[l] <=> i \in reply[l]
      BY <1>0, <2>0, <3>1
    <3>3. \A l \in Node : \A k : k.for = i => (k \in child'[l] <=> k \in child[l])
      BY <1>0, <2>0, <3>1
    <3>4. QED
      BY <1>1, <2>0, <3>1, <3>2, <3>3
  <2>2. CASE caller[i].node = n
    <3>1. /\ \A l \in Node : i \notin reply'[l]
          /\ \A l \in Node : \A k \in child'[l] : k.for # i
          /\ caller'[i].pc = "done"
      BY <1>0, <2>0, <2>2 DEF Fed
    <3>2. CASE answer[i] = None
      BY <2>0, <3>1, <3>2, FedNone DEF At
    <3>3. CASE answer[i] # None
      BY <2>0, <3>1, <3>3, FedAnswered DEF Before
    <3>4. QED
      BY <3>2, <3>3
  <2>3. QED
    BY <2>1, <2>2
<1>6. ASSUME NEW n \in Node, NEW m \in inbox[n], Do(n, m), UNCHANGED callers
      PROVE  Fed(i)'
  <2>1. /\ UNCHANGED <<reply, answer, caller>>
        /\ child' = [child EXCEPT ![n] = @ \cup {[msg |-> m, for |-> None]}]
    BY <1>6 DEF Do, callers
  <2>2. \A l \in Node : \A k : k.for = i => (k \in child'[l] <=> k \in child[l])
    BY <1>0, <2>1
  <2>3. QED
    BY <1>1, <2>1, <2>2
<1>7. ASSUME NEW n \in Node, NEW k \in child[n], Pass(n, k) \/ Serve(n, k) \/ Return(n, k)
      PROVE  Fed(i)'
  <2>1. k.for = None
    BY <1>7 DEF Pass, Serve, Return, Querying, Matched
  <2>2. /\ UNCHANGED <<reply, answer, caller>>
        /\ child' = [child EXCEPT ![n] = @ \ {k}]
    BY <1>7 DEF Pass, Serve, Return, End, callers
  <2>3. \A l \in Node : \A x : x.for = i => (x \in child'[l] <=> x \in child[l])
    BY <1>0, <2>1, <2>2
  <2>4. QED
    BY <1>1, <2>2, <2>3
<1>8. ASSUME NEW n \in Node, NEW k \in child[n], Take(n, k), UNCHANGED callers
      PROVE  Fed(i)'
  <2> DEFINE h == [k EXCEPT !.for = k.msg.id]
  <2>0. /\ UNCHANGED <<answer, caller>> /\ k.for = None /\ h.for = k.msg.id
        /\ k.msg.id \in reply[n]
        /\ reply' = [reply EXCEPT ![n] = @ \ {k.msg.id}]
        /\ child' = [child EXCEPT ![n] = (@ \ {k}) \cup {h}]
    BY <1>8, Fields DEF Take, Asked, callers, Key, Child
  <2> HIDE DEF h
  <2>1. CASE k.msg.id # i
    <3>1. \A l \in Node : i \in reply'[l] <=> i \in reply[l]
      BY <1>0, <2>0, <2>1
    <3>2. \A l \in Node : \A x : x.for = i => (x \in child'[l] <=> x \in child[l])
      BY <1>0, <2>0, <2>1
    <3>3. QED
      BY <1>1, <2>0, <3>1, <3>2
  <2>2. CASE k.msg.id = i
    <3>1. /\ ~Before(i)' /\ caller'[i].node = n
          /\ \A l \in Node : i \in reply[l] => l = n
          /\ \A l \in Node : \A x \in child[l] : x.for # i
          /\ answer'[i] = None
      BY <1>0, <2>0, <2>2, Only DEF Before
    <3>2. /\ \A l \in Node : i \notin reply'[l]
          /\ \A l \in Node : \A x \in child'[l] : x.for = i => l = n /\ x = h
          /\ h \in child'[n]
      BY <1>0, <2>0, <2>2, <3>1
    <3>3. QED
      BY <2>0, <2>2, <3>1, <3>2, FedInHand
  <2>3. QED
    BY <2>1, <2>2
<1>9. ASSUME NEW n \in Node, NEW k \in child[n], Hand(n, k), UNCHANGED callers
      PROVE  Fed(i)'
  <2>0. /\ UNCHANGED <<reply, caller>> /\ k.for \in Id /\ k.msg \in Message
        /\ child' = [child EXCEPT ![n] = @ \ {k}]
        /\ answer' = [answer EXCEPT ![k.for] = k.msg]
    BY <1>9, Fields DEF Hand, End, callers
  <2>1. CASE k.for # i
    <3>1. answer'[i] = answer[i]
          /\ \A l \in Node : \A x : x.for = i => (x \in child'[l] <=> x \in child[l])
      BY <1>0, <2>0, <2>1
    <3>2. QED
      BY <1>1, <2>0, <3>1
  <2>2. CASE k.for = i
    <3>1. /\ ~Before(i)'
          /\ \A l \in Node : i \notin reply'[l]
          /\ \A l \in Node : \A x \in child[l] : x.for = i => l = n /\ x = k
      BY <1>0, <2>0, <2>2, Only DEF Before
    <3>2. \A l \in Node : \A x \in child'[l] : x.for # i
      BY <1>0, <2>0, <3>1
    <3>3. answer'[i] # None
      BY <1>0, <2>0, <2>2
    <3>4. QED
      BY <3>1, <3>2, <3>3, FedAnswered
  <2>3. QED
    BY <2>1, <2>2
<1>10. ASSUME NEW n \in Node, UNCHANGED callers,
              \/ Listen(n) \/ Open(n) \/ Signal(n) \/ Finish(n)
              \/ WaitReplies(n) \/ WaitChildren(n) \/ Close(n)
       PROVE  Fed(i)'
  <2>1. UNCHANGED <<answer, caller>>
    BY <1>10 DEF Listen, Open, Signal, Finish, WaitReplies, WaitChildren, Close, Exit, exchange, callers
  <2>2. \A l \in Node : child'[l] = child[l] /\ reply'[l] = reply[l]
    BY <1>0, <1>10 DEF Listen, Open, Signal, Finish, WaitReplies, WaitChildren, Close, Exit, exchange
  <2>3. QED
    BY <1>1, <2>1, <2>2
<1>11. ASSUME NEW m \in net, Drop(m) \/ \E n \in Node : Deliver(n, m), UNCHANGED callers
       PROVE  Fed(i)'
  BY <1>1, <1>11 DEF Drop, Deliver, callers
<1>12. QED
  BY <1>2, <1>3, <1>4, <1>5, <1>6, <1>7, <1>8, <1>9, <1>10, <1>11, Steps
     DEF Crash, NoRepository

-----------------------------------------------------------------------------
(* The invariant                                                           *)

LEMMA MatchedStep ==
    ASSUME TypeOK, Nobody, Matched, [Next]_vars
    PROVE  Matched'
<1>0. /\ child \in [Node -> SUBSET Child] /\ answer \in [Id -> Message \cup {None}]
  BY DEF TypeOK, ExchangeTypeOK
<1>1. ASSUME \A i \in Id : answer'[i] \in {answer[i], None},
             \A n \in Node : \A k \in child'[n] : k.for # None =>
                k \in child[n] \/ (k.for = k.msg.id /\ IsAnswer(k.msg))
      PROVE  Matched'
  BY <1>1 DEF Matched
<1>2. ASSUME \A i \in Id : answer'[i] \in {answer[i], None},
             \A n \in Node : child'[n] \subseteq child[n]
      PROVE  Matched'
  BY <1>1, <1>2
<1>3. CASE UNCHANGED vars
  BY <1>2, <1>3 DEF vars, exchange
<1>4. ASSUME NEW j \in Id, CallerStep(j)
      PROVE  Matched'
  BY <1>0, <1>2, <1>4, CallerFields
<1>5. ASSUME NEW n \in Node, NEW j \in Id, Begin(n, j)
      PROVE  Matched'
  BY <1>2, <1>5, BeginFields
<1>6. ASSUME NEW n \in Node, Dies(n)
      PROVE  Matched'
  BY <1>0, <1>2, <1>6, DiesFields
<1>7. ASSUME NEW n \in Node, NEW m \in inbox[n], Do(n, m)
      PROVE  Matched'
  BY <1>0, <1>1, <1>7 DEF Do
<1>8. ASSUME NEW n \in Node, NEW k \in child[n], Pass(n, k) \/ Serve(n, k) \/ Return(n, k)
      PROVE  Matched'
  BY <1>0, <1>2, <1>8 DEF Pass, Serve, Return, End
<1>9. ASSUME NEW n \in Node, NEW k \in child[n], Take(n, k)
      PROVE  Matched'
  <2> DEFINE h == [k EXCEPT !.for = k.msg.id]
  <2>1. /\ h.for = h.msg.id /\ IsAnswer(h.msg) /\ UNCHANGED answer
        /\ child' = [child EXCEPT ![n] = (@ \ {k}) \cup {h}]
    BY <1>9, Fields DEF Take, Key, Child
  <2> HIDE DEF h
  <2>2. QED
    BY <1>0, <1>1, <2>1
<1>10. ASSUME NEW n \in Node, NEW k \in child[n], Hand(n, k)
       PROVE  Matched'
  <2>1. /\ k.for \in Id /\ k.msg.id = k.for
        /\ child' = [child EXCEPT ![n] = @ \ {k}]
        /\ answer' = [answer EXCEPT ![k.for] = k.msg]
    BY <1>10, Fields DEF Hand, End, Matched
  <2>2. \A i \in Id : answer'[i] # None => answer'[i].id = i
    BY <1>0, <2>1 DEF Matched
  <2>3. \A l \in Node : child'[l] \subseteq child[l]
    BY <1>0, <2>1
  <2>4. QED
    BY <2>2, <2>3 DEF Matched
<1>11. ASSUME NEW n \in Node,
              \/ Listen(n) \/ Open(n) \/ Signal(n) \/ Finish(n)
              \/ WaitReplies(n) \/ WaitChildren(n) \/ Close(n)
       PROVE  Matched'
  BY <1>0, <1>2, <1>11 DEF Listen, Open, Signal, Finish, WaitReplies, WaitChildren, Close, Exit, exchange
<1>12. ASSUME NEW m \in net, Drop(m) \/ \E n \in Node : Deliver(n, m)
       PROVE  Matched'
  BY <1>2, <1>12 DEF Drop, Deliver
<1>13. QED
  BY <1>3, <1>4, <1>5, <1>6, <1>7, <1>8, <1>9, <1>10, <1>11, <1>12, Steps
     DEF Crash, NoRepository

LEMMA NobodyStep ==
    ASSUME TypeOK, Nobody, [Next]_vars
    PROVE  Nobody'
<1>0. None \notin Node
  BY NoneAssumption
<1>1. CASE caller' = caller
  BY <1>1 DEF Nobody, At
<1>2. ASSUME NEW j \in Id, CallerStep(j)
      PROVE  Nobody'
  <2>1. /\ \A i \in Id : i # j => caller'[i] = caller[i]
        /\ caller[j].node \in Node /\ caller'[j].node = caller[j].node
        /\ caller'[j].pc # "idle"
        /\ caller'[j].pc = "giveup" => caller'[j].status # "OK"
    BY <1>2, CallerFields
  <2>2. QED
    BY <1>0, <2>1 DEF Nobody, At
<1>3. ASSUME NEW n \in Node, NEW j \in Id, Begin(n, j)
      PROVE  Nobody'
  BY <1>0, <1>3, BeginFields DEF Nobody, At
<1>4. ASSUME NEW n \in Node, Dies(n)
      PROVE  Nobody'
  BY <1>0, <1>4, DiesFields DEF Nobody, At
<1>5. ASSUME NEW n \in Node, NEW k \in child[n], Pass(n, k) \/ Serve(n, k) \/ Return(n, k)
      PROVE  Nobody'
  BY <1>1, <1>5, RunLeaves
<1>6. QED
  BY <1>1, <1>2, <1>3, <1>4, <1>5, Steps DEF Crash, NoRepository, callers, vars

\* The invariant, seen message by message.
LEMMA InvParts ==
    RoutingInv <=>
        /\ TypeOK /\ Matched /\ Nobody
        /\ \A i \in Id : Sound(i) /\ Fed(i)
<1>0. ASSUME TypeOK
      PROVE  \A n \in Node : (\A i \in reply[n] : i \in Id)
                          /\ (\A k \in child[n] : k.for # None => k.for \in Id)
  BY <1>0, Fields DEF TypeOK, ExchangeTypeOK
<1>1. ASSUME RoutingInv
      PROVE  \A i \in Id : Sound(i) /\ Fed(i)
  <2>1. ASSUME NEW i \in Id
        PROVE  Sound(i)
    BY <1>1 DEF RoutingInv, Told, Unsent, Sound, Before
  <2>2. ASSUME NEW i \in Id
        PROVE  Fed(i)
    BY <1>1, NoneAssumption DEF RoutingInv, Unsent, Owned, Waited, Fed, Before
  <2>3. QED
    BY <2>1, <2>2
<1>2. ASSUME TypeOK, Matched, Nobody, \A i \in Id : Sound(i) /\ Fed(i)
      PROVE  RoutingInv
  <2>1. Told /\ Unsent /\ Waited
    BY <1>2 DEF Told, Unsent, Waited, Sound, Fed, Before
  <2>2. Owned
    BY <1>0, <1>2 DEF Owned, Fed
  <2>3. QED
    BY <1>2, <2>1, <2>2 DEF RoutingInv, Sound, Fed
<1>3. QED
  BY <1>1, <1>2 DEF RoutingInv

LEMMA RoutingInit ==
    ASSUME Init
    PROVE  RoutingInv
<1>1. TypeOK
  <2>1. [node |-> None, pc |-> "idle", status |-> None] \in Caller
    BY DEF Caller
  <2>2. phase \in [Node -> Phase]
    BY DEF Init, ExchangeInit, Phase
  <2>3. QED
    BY <2>1, <2>2 DEF Init, ExchangeInit, TypeOK, ExchangeTypeOK
<1>2. ASSUME NEW i \in Id
      PROVE  /\ Traces(i) = {} /\ Sources(i) = {} /\ Forms(i) = {} /\ result[i] = None
             /\ caller[i].pc = "idle" /\ caller[i].node = None /\ answer[i] = None
  <2>1. \A n \in Node : inbox[n] = {} /\ child[n] = {} /\ reply[n] = {}
    BY DEF Init, ExchangeInit
  <2>2. net = {} /\ answer[i] = None
    BY DEF Init, ExchangeInit
  <2>3. Traces(i) = {} /\ Sources(i) = {} /\ Forms(i) = {}
    BY <2>1, <2>2 DEF Traces, Sources, Forms
  <2>4. QED
    BY <2>2, <2>3 DEF Init
<1>3. Matched /\ Nobody
  BY <1>2 DEF Matched, Nobody, At, Init, ExchangeInit
<1>4. \A i \in Id : Sound(i) /\ Fed(i)
  BY <1>2 DEF Sound, Fed, Single, At, Init, ExchangeInit
<1>5. QED
  BY <1>1, <1>3, <1>4, InvParts

LEMMA RoutingStep ==
    ASSUME RoutingInv, [Next]_vars
    PROVE  RoutingInv'
<1>1. TypeOK /\ Matched /\ Nobody /\ \A i \in Id : Sound(i) /\ Fed(i)
  BY InvParts
<1>2. TypeOK' /\ Matched' /\ Nobody'
  BY <1>1, TypeOKStep, MatchedStep, NobodyStep
<1>3. \A i \in Id : Sound(i)' /\ Fed(i)'
  BY <1>1, SoundStep, FedStep
<1>4. Told' /\ Unsent' /\ Waited'
  BY <1>3 DEF Told, Unsent, Waited, Sound, Fed, Before
<1>5. Owned'
  <2>1. \A n \in Node : /\ \A i \in reply'[n] : i \in Id
                        /\ \A k \in child'[n] : k.for \in Id \cup {None}
    BY <1>2 DEF TypeOK, ExchangeTypeOK, Child
  <2>2. QED
    BY <1>3, <2>1 DEF Owned, Fed
<1>6. QED
  BY <1>2, <1>3, <1>4, <1>5 DEF RoutingInv, Sound, Fed

-----------------------------------------------------------------------------
(* Theorems                                                                *)

LEMMA Counts ==
    ASSUME NEW S, Single(S)
    PROVE  /\ Cardinality(S) <= 1
           /\ S # {} => Cardinality(S) = 1
<1>1. CASE S = {}
  BY <1>1, FS_EmptySet
<1>2. ASSUME NEW s \in S
      PROVE  Cardinality(S) = 1
  <2>1. S = {s}
    BY DEF Single
  <2>2. QED
    BY <2>1, FS_Singleton
<1>3. QED
  BY <1>1, <1>2

LEMMA Routed == Spec => []RoutingInv
<1>1. Init => RoutingInv
  BY RoutingInit
<1>2. RoutingInv /\ UNCHANGED vars => RoutingInv'
  BY RoutingStep
<1>3. RoutingInv /\ [Next]_vars => RoutingInv'
  BY RoutingStep
<1>4. QED
  BY <1>1, <1>3, PTL DEF Spec

\* Messages, goroutines, requests and handlers are what their declarations say,
\* for any services, roles and faults.
THEOREM RoutingTypes == Spec => []TypeOK
<1>1. RoutingInv => TypeOK
  BY DEF RoutingInv
<1>2. QED
  BY <1>1, Routed, PTL

\* A message is passed on, answered or dropped, never two of these, however many
\* proxies it passes and whoever stops or crashes meanwhile: the channel of a
\* request, which holds one message, blocks nobody (exchange.go:272-279).
THEOREM Traced == Spec => []OneTrace
<1>1. RoutingInv => OneTrace
  BY Counts DEF RoutingInv, OneTrace
<1>2. QED
  BY <1>1, Routed, PTL

\* However timeouts race late answers: a waiting request has one source of its
\* answer, and one that returned has left nothing that Finish would wait for
\* (exchange.go:152-160, 272-279, 297-313).
THEOREM Sourced == Spec => []OneSource
<1>1. RoutingInv => OneSource
  <2>1. ASSUME RoutingInv, NEW i \in HeadReq
        PROVE  /\ At(i, "waiting") => Cardinality(Sources(i)) = 1
               /\ At(i, "done") => \A n \in Node : i \notin reply[n]
    <3>1. i \in Id
      BY IdAssumption
    <3>2. At(i, "waiting") => Cardinality(Sources(i)) = 1
      BY <2>1, <3>1, Counts DEF RoutingInv, Waited
    <3>3. At(i, "done") => \A n \in Node : i \notin reply[n]
      BY <2>1, <3>1 DEF RoutingInv, Owned, At
    <3>4. QED
      BY <3>2, <3>3
  <2>2. QED
    BY <2>1 DEF OneSource
<1>2. QED
  BY <1>1, Routed, PTL

-----------------------------------------------------------------------------
(* Calls                                                                   *)

Call == [i \in Id |-> CallOf(i)]

LEMMA CallIs ==
    ASSUME NEW i \in Id
    PROVE  /\ Call[i] = CallOf(i)
           /\ caller[i].pc = "idle" => CallOf(i) = "idle"
           /\ caller[i].pc \notin {"idle", "done"} => CallOf(i) = "called"
           /\ caller[i].pc = "done" =>
                CallOf(i) = IF i \in HeadReq /\ caller[i].status = "OK" THEN "ok" ELSE "failed"
  BY DEF Call, CallOf, At

LEMMA CallIsNext ==
    ASSUME NEW i \in Id
    PROVE  /\ Call'[i] = CallOf(i)'
           /\ caller'[i] = caller[i] => CallOf(i)' = CallOf(i)
           /\ caller'[i].pc = "idle" => CallOf(i)' = "idle"
           /\ caller'[i].pc \notin {"idle", "done"} => CallOf(i)' = "called"
           /\ caller'[i].pc = "done" =>
                CallOf(i)' = IF i \in HeadReq /\ caller'[i].status = "OK" THEN "ok" ELSE "failed"
  BY DEF Call, CallOf, At

\* Calls that change their callers, and not their calls.
LEMMA CallsStay ==
    ASSUME result' = result, \A i \in Id : CallOf(i)' = CallOf(i)
    PROVE  UNCHANGED Calls!vars
  BY DEF Calls!vars

LEMMA RpcStep ==
    ASSUME RoutingInv, [Next]_vars
    PROVE  [Calls!Next]_Calls!vars
<1>0. /\ TypeOK /\ Nobody /\ \A i \in Id : Sound(i) /\ Fed(i)
      /\ result \in [Id -> {None, "Answer", "Failure"}]
  BY InvParts DEF TypeOK
<1>1. CASE caller' = caller /\ result' = result
  BY <1>1, CallIsNext, CallsStay
<1>2. ASSUME result' = result, NEW I \in SUBSET Id,
             \A i \in I : CallOf(i) = "called" /\ CallOf(i)' = "failed",
             \A i \in Id \ I : CallOf(i)' = CallOf(i)
      PROVE  [Calls!Next]_Calls!vars
  <2>1. I \in SUBSET {i \in Id : Call[i] = "called"}
    BY <1>2, CallIs
  <2>2. Call' = [i \in Id |-> IF i \in I THEN "failed" ELSE Call[i]]
    BY <1>2 DEF Call
  <2>3. Calls!Fail
    BY <1>2, <2>1, <2>2 DEF Calls!Fail, Call
  <2>4. QED
    BY <2>3 DEF Calls!Next
<1>3. ASSUME NEW j \in Id, CallerStep(j)
      PROVE  [Calls!Next]_Calls!vars
  <2>0. /\ result' = result /\ \A i \in Id \ {j} : CallOf(i)' = CallOf(i)
        /\ CallOf(j) = "called"
    BY <1>0, <1>3, CallerFields, CallIs, CallIsNext
  <2>1. CASE CallOf(j)' = "called"
    BY <2>0, <2>1, CallsStay
  <2>2. CASE CallOf(j)' = "failed"
    BY <1>2, <2>0, <2>2
  <2>3. CASE CallOf(j)' = "ok"
    <3>1. answer[j] # None /\ answer[j].type = "Answer"
      BY <1>0, <1>3, <2>3, CallerFields, CallIsNext DEF Nobody, At
    <3>2. answer[j] \in Forms(j)
      BY <3>1 DEF Forms
    <3>3. result[j] = "Answer"
      BY <1>0, <3>1, <3>2 DEF Sound
    <3>4. Call' = [Call EXCEPT ![j] = "ok"]
      BY <2>0, <2>3 DEF Call
    <3>5. Calls!Succeed(j)
      BY <2>0, <3>3, <3>4, CallIs DEF Calls!Succeed, Call
    <3>6. QED
      BY <3>5 DEF Calls!Next
  <2>4. QED
    BY <1>3, <2>1, <2>2, <2>3, <1>0, CallerFields, CallIsNext
<1>4. ASSUME NEW n \in Node, NEW j \in Id, Begin(n, j)
      PROVE  [Calls!Next]_Calls!vars
  <2>1. /\ result' = result /\ \A i \in Id \ {j} : CallOf(i)' = CallOf(i)
        /\ CallOf(j) = "idle" /\ CallOf(j)' = "called"
    BY <1>0, <1>4, BeginFields, CallIs, CallIsNext
  <2>2. Call' = [Call EXCEPT ![j] = "called"]
    BY <2>1 DEF Call
  <2>3. Calls!Call(j)
    BY <2>1, <2>2, CallIs DEF Calls!Call, Call
  <2>4. QED
    BY <2>3 DEF Calls!Next
<1>5. ASSUME NEW n \in Node, Dies(n)
      PROVE  [Calls!Next]_Calls!vars
  <2> DEFINE I == {i \in Id : caller[i].node = n /\ caller[i].pc # "done"}
  <2>1. ASSUME NEW i \in I
        PROVE  CallOf(i) = "called" /\ CallOf(i)' = "failed"
    <3>1. caller'[i].pc = "done" /\ caller'[i].status = "Lost"
      BY <1>0, <1>5, DiesFields
    <3>2. caller[i].pc \notin {"idle", "done"}
      BY <1>0, NoneAssumption DEF Nobody, At
    <3>3. QED
      BY <3>1, <3>2, CallIs, CallIsNext
  <2>2. \A i \in Id \ I : CallOf(i)' = CallOf(i)
    BY <1>0, <1>5, DiesFields, CallIsNext
  <2>3. result' = result
    BY <1>0, <1>5, DiesFields
  <2>4. QED
    BY <1>2, <2>1, <2>2, <2>3
<1>6. ASSUME NEW n \in Node, NEW k \in child[n], Pass(n, k) \/ Serve(n, k) \/ Return(n, k)
      PROVE  [Calls!Next]_Calls!vars
  <2>1. caller' = caller
    BY <1>0, <1>6, RunLeaves
  <2>2. CASE result' = result
    BY <1>1, <2>1, <2>2
  <2>3. ASSUME NEW r \in {"Answer", "Failure"}, ~IsAnswer(k.msg),
               result' = [result EXCEPT ![k.msg.id] = r]
        PROVE  [Calls!Next]_Calls!vars
    <3> DEFINE j == k.msg.id
    <3>1. j \in Id /\ ~Before(j) /\ k.msg \in Forms(j)
      BY <1>0, Fields, Alone
    <3>2. result[j] = None
      BY <1>0, <2>3, <3>1 DEF Sound
    <3>3. CallOf(j) # "idle"
      BY <3>1, CallIs DEF Before, CallOf, At
    <3>4. Call' = Call
      BY <2>1, CallIsNext DEF Call
    <3>5. Calls!Serve(j)
      BY <2>3, <3>1, <3>2, <3>3, <3>4, CallIs DEF Calls!Serve, Call
    <3>6. QED
      BY <3>1, <3>5 DEF Calls!Next
  <2>4. QED
    BY <1>0, <1>6, <2>2, <2>3, RunLeaves
<1>7. QED
  BY <1>0, <1>1, <1>3, <1>4, <1>5, <1>6, Steps DEF Crash, NoRepository, callers, vars

\* To a caller, any number of services and messages are the calls of Rpc: served
\* at most once, and successful only with their own result, whatever is forwarded,
\* answered late, stopped, crashed or lost.
THEOREM RoutingIsRpc == Spec => IsRpc
<1>1. Init => Calls!Init
  <2>1. ASSUME Init
        PROVE  Calls!Init
    <3>1. \A i \in Id : CallOf(i) = "idle"
      BY <2>1, CallIs DEF Init
    <3>2. QED
      BY <2>1, <3>1 DEF Init, Calls!Init
  <2>2. QED
    BY <2>1
<1>2. RoutingInv /\ [Next]_vars => [Calls!Next]_Calls!vars
  BY RpcStep
<1>3. QED
  BY <1>1, <1>2, Routed, PTL DEF Spec, IsRpc, Calls!Spec

-----------------------------------------------------------------------------
(* No request is forgotten                                                 *)

\* Every leg of the way of a message ends where the next one begins.
LEMMA Legs ==
    ASSUME NEW m \in Message, OnWay(m)
    PROVE  /\ m.to = "proxy" /\ ~IsAnswer(m) => OnWay(Forward(m, "chain"))
           /\ m.to = "chain" => OnWay(Answer(m)) /\ OnWay(Answer(WithError(m)))
           /\ m.to = "proxy" /\ IsAnswer(m) => m.ret # <<>> /\ OnWay(Backward(m))
           /\ m.to \in {"proxy", "chain", "block"}
           /\ IsAnswer(m) => m.to # "chain"
           /\ m.to = "block" => IsAnswer(m)
<1>0. /\ m.type \in Type /\ m.from \in Subject /\ m.to \in Subject
      /\ m.ret \in Seq(Subject) /\ m.id \in Id
  BY DEF Message
<1>1. ASSUME m.to = "proxy", ~IsAnswer(m)
      PROVE  OnWay(Forward(m, "chain"))
  <2>1. m.from = "block" /\ m.ret = <<>>
    BY <1>1 DEF OnWay
  <2>2. Append(m.ret, m.from) = <<"block">>
    BY <2>1
  <2>3. /\ Forward(m, "chain").type = "Query" /\ Forward(m, "chain").from = "proxy"
        /\ Forward(m, "chain").to = "chain" /\ Forward(m, "chain").ret = <<"block">>
    BY <1>0, <1>1, <2>2 DEF Forward, Message
  <2>4. QED
    BY <2>3 DEF OnWay, IsAnswer
<1>2. ASSUME m.to = "chain"
      PROVE  OnWay(Answer(m)) /\ OnWay(Answer(WithError(m)))
  <2>1. m.from = "proxy" /\ m.ret = <<"block">> /\ ~IsAnswer(m)
    BY <1>2 DEF OnWay
  <2>2. /\ Answer(m).from = "chain" /\ Answer(m).to = "proxy" /\ Answer(m).ret = <<"block">>
        /\ IsAnswer(Answer(m))
    BY <1>2, <2>1 DEF Answer, Message, IsAnswer
  <2>3. /\ Answer(WithError(m)).from = "chain" /\ Answer(WithError(m)).to = "proxy"
        /\ Answer(WithError(m)).ret = <<"block">> /\ IsAnswer(Answer(WithError(m)))
    BY <1>2, <2>1 DEF Answer, WithError, Message, IsAnswer
  <2>4. QED
    BY <2>2, <2>3 DEF OnWay
<1>3. ASSUME m.to = "proxy", IsAnswer(m)
      PROVE  m.ret # <<>> /\ OnWay(Backward(m))
  <2>1. m.ret = <<"block">>
    BY <1>3 DEF OnWay
  <2>2. Last(<<"block">>) = "block" /\ Front(<<"block">>) = <<>> /\ <<"block">> # <<>>
    BY DEF Last, Front
  <2>3. /\ Backward(m).to = "block" /\ Backward(m).ret = <<>>
        /\ Backward(m).type = m.type
    BY <2>1, <2>2 DEF Backward, Message
  <2>4. QED
    BY <1>3, <2>1, <2>2, <2>3 DEF OnWay, IsAnswer
<1>4. QED
  BY <1>1, <1>2, <1>3 DEF OnWay

\* Nothing starts, stops or fails.
LEMMA Calm ==
    ASSUME Undisturbed, WayInv, [Next]_vars
    PROVE  \/ UNCHANGED vars
           \/ \E i \in Id : CallerStep(i)
           \/ \E n \in Node, i \in Id : Begin(n, i)
           \/ \E n \in Node : \E m \in inbox[n] : Do(n, m) /\ UNCHANGED callers
           \/ \E n \in Node : \E k \in child[n] : Pass(n, k) \/ Serve(n, k) \/ Return(n, k)
           \/ \E n \in Node : \E k \in child[n] : (Take(n, k) \/ Hand(n, k)) /\ UNCHANGED callers
           \/ /\ \E m \in net : Drop(m) \/ \E n \in Node : Deliver(n, m)
              /\ UNCHANGED callers
<1>1. \A n \in Node : phase[n] = "up"
  BY DEF WayInv
<1>2. \A n \in Node : ~StartStep(n) /\ ~Stop(n) /\ ~FinishStep(n) /\ ~Crash(n)
  BY <1>1 DEF Undisturbed, StartStep, Listen, Open, Goes, Stop, Signal, FinishStep, Finish,
              WaitReplies, WaitChildren, Close, Crash
<1>3. \A n \in Node : \A k \in child[n] : ~NoRepository(n, k)
  BY <1>1 DEF NoRepository
<1>4. QED
  BY <1>2, <1>3 DEF Next, DoStep, RunStep, Server, Rest

\* What a goroutine sends is on its way, and it drops an answer only where
\* nobody waits for it.
LEMMA Onward ==
    ASSUME Undisturbed, TypeOK, WayInv, NEW n \in Node, NEW k \in child[n],
           Pass(n, k) \/ Serve(n, k) \/ Return(n, k)
    PROVE  /\ caller' = caller
           /\ \/ \E m \in Message : Leaves(n, k, {m}) /\ m.id = k.msg.id /\ OnWay(m)
              \/ /\ Leaves(n, k, {}) /\ Role[n] = "block"
                 /\ k.for = None /\ k.msg.id \notin reply[n]
<1>0. k.msg \in Message /\ OnWay(k.msg) /\ k.msg.to = Role[n] /\ Faults = {}
  BY Fields DEF WayInv, Undisturbed
<1>1. ASSUME NEW m \in Message, Publish(m), End(n, k), UNCHANGED <<phase, inbox, reply, answer>>
      PROVE  Leaves(n, k, {m})
  BY <1>1 DEF Leaves, End, Publish
<1>2. CASE Pass(n, k)
  <2>1. /\ Publish(Forward(k.msg, "chain")) /\ End(n, k) /\ Role[n] = "proxy"
        /\ ~IsAnswer(k.msg) /\ UNCHANGED <<phase, inbox, reply, answer, callers>>
    BY <1>0, <1>2 DEF Pass, Querying, PublishFails
  <2>2. Forward(k.msg, "chain") \in Message /\ Forward(k.msg, "chain").id = k.msg.id
    BY <1>0, AddressTypes, Kinship, SubjectAssumption
  <2>3. OnWay(Forward(k.msg, "chain"))
    BY <1>0, <2>1, Legs
  <2>4. QED
    BY <1>1, <2>1, <2>2, <2>3 DEF callers
<1>3. CASE Serve(n, k)
  <2>1. /\ Publish(Answer(k.msg)) \/ Publish(Answer(WithError(k.msg)))
        /\ End(n, k) /\ Role[n] = "chain" /\ UNCHANGED <<phase, inbox, reply, answer, caller>>
    BY <1>0, <1>3 DEF Serve, Send, PublishFails
  <2>2. /\ Answer(k.msg) \in Message /\ WithError(k.msg) \in Message
        /\ Answer(k.msg).id = k.msg.id /\ Answer(WithError(k.msg)).id = k.msg.id
    BY <1>0, AddressTypes, Kinship, SubjectAssumption
  <2>3. Answer(WithError(k.msg)) \in Message
    BY <2>2, AddressTypes, SubjectAssumption
  <2>4. OnWay(Answer(k.msg)) /\ OnWay(Answer(WithError(k.msg)))
    BY <1>0, <2>1, Legs
  <2>5. QED
    BY <1>1, <2>1, <2>2, <2>3, <2>4
<1>4. CASE Return(n, k)
  <2>0. /\ IsAnswer(k.msg) /\ k.for = None /\ k.msg.id \notin reply[n]
        /\ End(n, k) /\ UNCHANGED <<phase, inbox, reply, answer, callers>>
        /\ \/ UNCHANGED net /\ (k.msg.ret = <<>> \/ Role[n] = "block")
           \/ Send(Backward(k.msg)) /\ Role[n] # "block"
           \/ Send(Backward(k.msg)) /\ k.msg.ret # <<>>
    BY <1>4 DEF Return, Asked, Key, Swallows
  <2>1. CASE Role[n] = "block"
    <3>1. k.msg.ret = <<>>
      BY <1>0, <2>1, <2>0 DEF OnWay, IsAnswer
    <3>2. UNCHANGED net
      BY <1>4, <3>1 DEF Return
    <3>3. Leaves(n, k, {})
      BY <2>0, <3>2 DEF Leaves, End
    <3>4. QED
      BY <2>0, <2>1, <3>3 DEF callers
  <2>2. CASE Role[n] # "block"
    <3>1. Role[n] = "proxy"
      BY <1>0, <2>0, <2>2, Legs
    <3>2. k.msg.ret # <<>> /\ OnWay(Backward(k.msg))
      BY <1>0, <2>0, <3>1, Legs
    <3>3. Publish(Backward(k.msg))
      BY <1>0, <2>0, <2>2, <3>2 DEF Send, PublishFails
    <3>4. Backward(k.msg) \in Message /\ Backward(k.msg).id = k.msg.id
      BY <1>0, <3>2, AddressTypes, Kinship, SubjectAssumption
    <3>5. QED
      BY <1>1, <2>0, <3>2, <3>3, <3>4 DEF callers
  <2>3. QED
    BY <2>1, <2>2
<1>5. QED
  BY <1>2, <1>3, <1>4

\* Message i is somewhere.
Around(i) ==
    \/ \E m \in net : m.id = i
    \/ \E n \in Node : \E m \in inbox[n] : m.id = i
    \/ \E n \in Node : \E k \in child[n] : k.msg.id = i
    \/ answer[i] # None

LEMMA AroundIs ==
    ASSUME NEW i \in Id
    PROVE  Traces(i) # {} <=> Around(i)
<1>1. ASSUME Around(i)
      PROVE  \E t : t \in Traces(i)
  <2>1. ASSUME NEW m \in net, m.id = i
        PROVE  <<"net", m>> \in Traces(i)
    BY <2>1 DEF Traces
  <2>2. ASSUME NEW n \in Node, NEW m \in inbox[n], m.id = i
        PROVE  <<"inbox", n, m>> \in Traces(i)
    BY <2>2 DEF Traces
  <2>3. ASSUME NEW n \in Node, NEW k \in child[n], k.msg.id = i
        PROVE  <<"child", n, k>> \in Traces(i)
    BY <2>3 DEF Traces
  <2>4. ASSUME answer[i] # None
        PROVE  <<"answer", answer[i]>> \in Traces(i)
    BY <2>4 DEF Traces
  <2>5. QED
    BY <1>1, <2>1, <2>2, <2>3, <2>4 DEF Around
<1>2. \A t : t \in Traces(i) =>
        \/ \E m \in net : m.id = i
        \/ \E n \in Node : \E m \in inbox[n] : m.id = i
        \/ \E n \in Node : \E k \in child[n] : k.msg.id = i
        \/ answer[i] # None
  <2>1. TAKE t
  <2>2. HAVE t \in Traces(i)
  <2>3. \/ \E m \in net : m.id = i /\ t = <<"net", m>>
        \/ \E n \in Node : \E m \in inbox[n] : m.id = i /\ t = <<"inbox", n, m>>
        \/ \E n \in Node : \E k \in child[n] : k.msg.id = i /\ t = <<"child", n, k>>
        \/ answer[i] # None /\ t = <<"answer", answer[i]>>
    BY <2>2, InTraces
  <2>4. QED
    BY <2>3, Zenon
<1>3. QED
  BY <1>1, <1>2 DEF Around

LEMMA AroundIsNext ==
    ASSUME NEW i \in Id, Around(i)'
    PROVE  Traces(i)' # {}
<1>1. ASSUME NEW m \in net', m.id = i
      PROVE  <<"net", m>> \in Traces(i)'
  BY <1>1 DEF Traces
<1>2. ASSUME NEW n \in Node, NEW m \in inbox'[n], m.id = i
      PROVE  <<"inbox", n, m>> \in Traces(i)'
  BY <1>2 DEF Traces
<1>3. ASSUME NEW n \in Node, NEW k \in child'[n], k.msg.id = i
      PROVE  <<"child", n, k>> \in Traces(i)'
  BY <1>3 DEF Traces
<1>4. ASSUME answer'[i] # None
      PROVE  <<"answer", answer'[i]>> \in Traces(i)'
  BY <1>4 DEF Traces
<1>5. QED
  BY <1>1, <1>2, <1>3, <1>4 DEF Around

\* An answer that a goroutine of the block service has not been given the channel
\* for is not one that its request waits for.
LEMMA NotWaited ==
    ASSUME Undisturbed, RoutingInv, WayInv, NEW n \in Node, Role[n] = "block",
           NEW k \in child[n], k.for = None, k.msg.id \notin reply[n]
    PROVE  ~At(k.msg.id, "waiting")
<1> DEFINE i == k.msg.id
<1>0. /\ TypeOK /\ Matched /\ Nobody /\ i \in Id /\ Sound(i) /\ Fed(i)
  BY InvParts, Fields
<1>1. SUFFICES ASSUME At(i, "waiting")
      PROVE  FALSE
  OBVIOUS
<1>2. answer[i] = None /\ \A l \in Node : \A x \in child[l] : x.msg.id = i => x = k
  BY <1>0, Alone
<1>3. caller[i].node \in Node /\ Role[caller[i].node] = "block"
  BY <1>0, <1>1, Fields DEF Nobody, WayInv, At
<1>4. caller[i].node = n
  BY <1>3 DEF Undisturbed
<1>5. PICK s : s \in Sources(i)
  BY <1>0, <1>1 DEF Fed
<1>6. CASE \E l \in Node : i \in reply[l]
  BY <1>0, <1>4, <1>6 DEF Fed
<1>7. ASSUME NEW l \in Node, NEW x \in child[l], x.for = i
      PROVE  FALSE
  <2>1. x.msg.id = i
    BY <1>0, <1>7, NoneAssumption DEF Matched
  <2>2. QED
    BY <1>0, <1>2, <1>7, <2>1, NoneAssumption
<1>8. QED
  BY <1>0, <1>2, <1>5, <1>6, <1>7, InSources

\* A message nobody listens for is not on the way of a request.
LEMMA NoDrop ==
    ASSUME Undisturbed, RoutingInv, WayInv, NEW m \in net
    PROVE  ~Drop(m)
<1>0. TypeOK /\ Nobody /\ m \in Message /\ m.id \in Id /\ Sound(m.id) /\ OnWay(m)
  BY InvParts, Fields DEF WayInv
<1>1. m.to \in {"proxy", "chain", "block"}
  BY <1>0, Legs
<1>2. \E n \in Node : Role[n] = m.to
  <2>1. CASE m.to \in {"proxy", "chain"}
    BY <2>1 DEF Undisturbed
  <2>2. CASE m.to = "block"
    <3>1. caller[m.id].pc # "idle"
      BY <1>0, Alone DEF Before
    <3>2. caller[m.id].node \in Node /\ Role[caller[m.id].node] = "block"
      BY <1>0, <3>1, Fields DEF Nobody, WayInv, At
    <3>3. QED
      BY <2>2, <3>2
  <2>3. QED
    BY <1>1, <2>1, <2>2
<1>3. \A n \in Node : Listening(n)
  BY DEF WayInv, Listening
<1>4. QED
  BY <1>2, <1>3 DEF Drop, Undisturbed

\* A request that comes to wait has been sent.
LEMMA NowWaits ==
    ASSUME Undisturbed, TypeOK, Nobody, NEW i \in Id, CallerStep(i)
    PROVE  /\ UNCHANGED <<phase, inbox, child>>
           /\ \/ UNCHANGED net
              \/ \E m \in Message : m.id = i /\ OnWay(m) /\ net' = net \cup {m}
           /\ \A j \in Id : j # i => answer'[j] = answer[j]
           /\ At(i, "waiting")' =>
                answer' = answer /\ \E m \in net' : m.id = i
<1>0. /\ UNCHANGED <<phase, inbox, child>>
      /\ \A j \in Id : j # i => answer'[j] = answer[j]
  BY CallerFields DEF TypeOK, ExchangeTypeOK
<1>1. ASSUME NEW type \in {"Query", "Request"}, Publish(NewMessage(i, type, "block", "proxy"))
      PROVE  \E m \in Message : m.id = i /\ OnWay(m) /\ net' = net \cup {m}
  <2> DEFINE m == NewMessage(i, type, "block", "proxy")
  <2>1. m \in Message /\ m.id = i /\ ~IsAnswer(m)
    BY NewMessageIs
  <2>2. m.from = "block" /\ m.to = "proxy" /\ m.ret = <<>>
    BY DEF NewMessage
  <2>3. QED
    BY <1>1, <2>1, <2>2 DEF OnWay, Publish
<1>2. Faults = {}
  BY DEF Undisturbed
<1>3. CASE HeadAsk(i)
  <2>1. Publish(NewMessage(i, "Request", "block", "proxy")) /\ answer' = answer
    BY <1>2, <1>3 DEF HeadAsk, PublishFails, Ask
  <2>2. PICK m \in Message : m.id = i /\ OnWay(m) /\ net' = net \cup {m}
    BY <1>1, <2>1
  <2>3. QED
    BY <1>0, <2>1, <2>2
<1>4. CASE FileMessage(i)
  <2>1. Publish(NewMessage(i, "Query", "block", "proxy"))
    BY <1>2, <1>4 DEF FileMessage, PublishFails
  <2>2. ~At(i, "waiting")'
    BY <1>4, CallerFields DEF At, FileMessage
  <2>3. QED
    BY <1>0, <1>1, <2>1, <2>2
<1>5. CASE ~HeadAsk(i) /\ ~FileMessage(i)
  <2>1. UNCHANGED net
    BY <1>5 DEF CallerStep, NoTopic, HeadNew, HeadReceive, HeadTimeout, HeadForget, Forget, exchange
  <2>2. caller[i].pc # "new"
    BY <1>5 DEF CallerStep, NoTopic, HeadNew, HeadReceive, HeadTimeout, HeadForget, At
  <2>3. ~At(i, "waiting")'
    BY <2>2, CallerFields DEF At
  <2>4. QED
    BY <1>0, <2>1, <2>3
<1>6. QED
  BY <1>3, <1>4, <1>5

\* The messages of WayInv, and the requests.
Guided ==
    /\ \A n \in Node :
        /\ phase[n] = "up"
        /\ \A m \in inbox[n] : OnWay(m) /\ m.to = Role[n]
        /\ \A k \in child[n] : OnWay(k.msg) /\ k.msg.to = Role[n]
    /\ \A m \in net : OnWay(m)

Kin == \A i \in Id : ~At(i, "idle") => Role[caller[i].node] = "block"

LEMMA KinStep ==
    ASSUME Undisturbed, RoutingInv, WayInv, [Next]_vars
    PROVE  Kin'
<1>0. TypeOK /\ Nobody /\ Kin
  BY InvParts DEF WayInv, Kin
<1>1. CASE caller' = caller
  BY <1>0, <1>1 DEF Kin, At
<1>2. ASSUME NEW i \in Id, CallerStep(i)
      PROVE  Kin'
  <2>1. /\ \A j \in Id : j # i => caller'[j] = caller[j]
        /\ caller'[i].node = caller[i].node /\ caller[i].pc # "idle"
    BY <1>0, <1>2, CallerFields
  <2>2. QED
    BY <1>0, <2>1 DEF Kin, At
<1>3. ASSUME NEW n \in Node, NEW i \in Id, Begin(n, i)
      PROVE  Kin'
  <2>1. /\ \A j \in Id : j # i => caller'[j] = caller[j]
        /\ caller'[i].node = n /\ Role[n] = "block"
    BY <1>0, <1>3, BeginFields DEF Begin, Serving
  <2>2. QED
    BY <1>0, <2>1 DEF Kin, At
<1>4. QED
  BY <1>0, <1>1, <1>2, <1>3, Calm, RunLeaves DEF callers, vars

LEMMA GuidedStep ==
    ASSUME Undisturbed, RoutingInv, WayInv, [Next]_vars
    PROVE  Guided'
<1>0. /\ TypeOK /\ Nobody /\ Guided
      /\ inbox \in [Node -> SUBSET Message] /\ child \in [Node -> SUBSET Child]
  BY InvParts DEF WayInv, Guided, TypeOK, ExchangeTypeOK
<1>1. CASE UNCHANGED <<phase, net, inbox, child>>
  BY <1>0, <1>1 DEF Guided
<1>2. ASSUME NEW i \in Id, CallerStep(i)
      PROVE  Guided'
  BY <1>0, <1>2, NowWaits DEF Guided
<1>3. ASSUME NEW n \in Node, NEW m \in inbox[n], Do(n, m)
      PROVE  Guided'
  <2> DEFINE k == [msg |-> m, for |-> None]
  <2>0. /\ UNCHANGED <<phase, net>> /\ k.msg = m
        /\ inbox' = [inbox EXCEPT ![n] = @ \ {m}] /\ child' = [child EXCEPT ![n] = @ \cup {k}]
    BY <1>3 DEF Do
  <2> HIDE DEF k
  <2>1. \A l \in Node : inbox'[l] \subseteq inbox[l] /\ \A x \in child'[l] : x \in child[l] \/ (x = k /\ l = n)
    BY <1>0, <2>0
  <2>2. QED
    BY <1>0, <2>0, <2>1 DEF Guided
<1>4. ASSUME NEW n \in Node, NEW k \in child[n], Pass(n, k) \/ Serve(n, k) \/ Return(n, k)
      PROVE  Guided'
  <2>1. PICK S : Leaves(n, k, S) /\ \A m \in S : OnWay(m)
    <3>1. ASSUME NEW m \in Message, Leaves(n, k, {m}), OnWay(m)
          PROVE  \E S : Leaves(n, k, S) /\ \A x \in S : OnWay(x)
      <4>1. Leaves(n, k, {m}) /\ \A x \in {m} : OnWay(x)
        BY <3>1
      <4>2. QED
        BY <4>1
    <3>2. ASSUME Leaves(n, k, {})
          PROVE  \E S : Leaves(n, k, S) /\ \A x \in S : OnWay(x)
      <4>1. Leaves(n, k, {}) /\ \A x \in {} : OnWay(x)
        BY <3>2
      <4>2. QED
        BY <4>1
    <3>3. QED
      BY <1>0, <1>4, <3>1, <3>2, Onward
  <2>2. \A l \in Node : child'[l] \subseteq child[l]
    BY <1>0, <2>1 DEF Leaves
  <2>3. QED
    BY <1>0, <2>1, <2>2 DEF Guided, Leaves
<1>5. ASSUME NEW n \in Node, NEW k \in child[n], Take(n, k)
      PROVE  Guided'
  <2> DEFINE h == [k EXCEPT !.for = k.msg.id]
  <2>0. /\ UNCHANGED <<phase, net, inbox>> /\ child' = [child EXCEPT ![n] = (@ \ {k}) \cup {h}]
        /\ h.msg = k.msg
    BY <1>0, <1>5, Fields DEF Take, Key, Child
  <2> HIDE DEF h
  <2>1. \A l \in Node : \A x \in child'[l] : x \in child[l] \/ (x = h /\ l = n)
    BY <1>0, <2>0
  <2>2. QED
    BY <1>0, <2>0, <2>1 DEF Guided
<1>6. ASSUME NEW n \in Node, NEW k \in child[n], Hand(n, k)
      PROVE  Guided'
  <2>1. \A l \in Node : child'[l] \subseteq child[l]
    BY <1>0, <1>6 DEF Hand, End
  <2>2. QED
    BY <1>0, <1>6, <2>1 DEF Guided, Hand
<1>7. ASSUME NEW n \in Node, NEW m \in net, Deliver(n, m)
      PROVE  Guided'
  <2>1. \A l \in Node : \A x \in inbox'[l] : x \in inbox[l] \/ (x = m /\ l = n)
    BY <1>0, <1>7 DEF Deliver
  <2>2. QED
    BY <1>0, <1>7, <2>1 DEF Guided, Deliver
<1>8. QED
  BY <1>0, <1>1, <1>2, <1>3, <1>4, <1>5, <1>6, <1>7, Calm, BeginFields, NoDrop DEF vars, exchange

\* A request waits for a message that is there, whatever step is taken.
LEMMA ExpectedStep ==
    ASSUME Undisturbed, RoutingInv, WayInv, [Next]_vars, NEW i \in Id,
           At(i, "waiting") => Around(i)
    PROVE  At(i, "waiting")' => Around(i)'
<1>0. /\ TypeOK /\ Nobody /\ Matched
      /\ inbox \in [Node -> SUBSET Message] /\ child \in [Node -> SUBSET Child]
      /\ answer \in [Id -> Message \cup {None}]
  BY InvParts DEF TypeOK, ExchangeTypeOK
<1>1. CASE UNCHANGED <<net, inbox, child, answer>> /\ (At(i, "waiting")' => At(i, "waiting"))
  BY <1>1 DEF Around
<1>2. ASSUME NEW j \in Id, CallerStep(j)
      PROVE  At(i, "waiting")' => Around(i)'
  <2>1. CASE i = j
    BY <1>0, <1>2, <2>1, NowWaits DEF Around
  <2>2. CASE i # j
    <3>1. caller'[i] = caller[i] /\ answer'[i] = answer[i] /\ net \subseteq net' /\ UNCHANGED <<inbox, child>>
      BY <1>0, <1>2, <2>2, CallerFields, NowWaits
    <3>2. QED
      BY <3>1 DEF Around, At
  <2>3. QED
    BY <2>1, <2>2
<1>3. ASSUME NEW n \in Node, NEW m \in inbox[n], Do(n, m), UNCHANGED callers
      PROVE  At(i, "waiting")' => Around(i)'
  <2> DEFINE k == [msg |-> m, for |-> None]
  <2>0. /\ UNCHANGED <<net, answer, caller>> /\ k.msg = m
        /\ inbox' = [inbox EXCEPT ![n] = @ \ {m}] /\ child' = [child EXCEPT ![n] = @ \cup {k}]
    BY <1>3 DEF Do, callers
  <2> HIDE DEF k
  <2>1. CASE m.id = i
    <3>1. k \in child'[n]
      BY <1>0, <2>0
    <3>2. QED
      BY <2>0, <2>1, <3>1 DEF Around
  <2>2. CASE m.id # i
    <3>1. /\ \A l \in Node : \A x \in inbox[l] : x.id = i => x \in inbox'[l]
          /\ \A l \in Node : child[l] \subseteq child'[l]
      BY <1>0, <2>0, <2>2
    <3>2. QED
      BY <2>0, <3>1 DEF Around, At
  <2>3. QED
    BY <2>1, <2>2
<1>4. ASSUME NEW n \in Node, NEW k \in child[n], Pass(n, k) \/ Serve(n, k) \/ Return(n, k)
      PROVE  At(i, "waiting")' => Around(i)'
  <2>0. caller' = caller
    BY <1>0, <1>4, Onward
  <2>1. CASE k.msg.id = i
    <3>1. ASSUME NEW m \in Message, Leaves(n, k, {m}), m.id = k.msg.id
          PROVE  Around(i)'
      BY <2>1, <3>1 DEF Leaves, Around
    <3>2. CASE Role[n] = "block" /\ k.for = None /\ k.msg.id \notin reply[n]
      BY <2>0, <2>1, <3>2, NotWaited DEF At
    <3>3. QED
      BY <1>0, <1>4, <3>1, <3>2, Onward
  <2>2. CASE k.msg.id # i
    <3>1. PICK S : Leaves(n, k, S)
      BY <1>0, <1>4, Onward
    <3>2. \A l \in Node : \A x \in child[l] : x.msg.id = i => x \in child'[l]
      BY <1>0, <2>2, <3>1 DEF Leaves
    <3>3. QED
      BY <2>0, <3>1, <3>2 DEF Around, At, Leaves
  <2>3. QED
    BY <2>1, <2>2
<1>5. ASSUME NEW n \in Node, NEW k \in child[n], Take(n, k), UNCHANGED callers
      PROVE  At(i, "waiting")' => Around(i)'
  <2> DEFINE h == [k EXCEPT !.for = k.msg.id]
  <2>0. /\ UNCHANGED <<net, inbox, answer, caller>>
        /\ child' = [child EXCEPT ![n] = (@ \ {k}) \cup {h}] /\ h.msg = k.msg
    BY <1>0, <1>5, Fields DEF Take, Key, Child, callers
  <2> HIDE DEF h
  <2>1. \A l \in Node : \A x \in child[l] : x \in child'[l] \/ (x = k /\ h \in child'[l])
    BY <1>0, <2>0
  <2>2. \A l \in Node : \A x \in child[l] : x.msg.id = i => \E y \in child'[l] : y.msg.id = i
    BY <2>0, <2>1
  <2>3. QED
    BY <2>0, <2>2 DEF Around, At
<1>6. ASSUME NEW n \in Node, NEW k \in child[n], Hand(n, k), UNCHANGED callers
      PROVE  At(i, "waiting")' => Around(i)'
  <2>0. /\ UNCHANGED <<net, inbox, caller>> /\ child' = [child EXCEPT ![n] = @ \ {k}]
        /\ k.for = k.msg.id /\ k.msg.id \in Id /\ k.msg # None
        /\ answer' = [answer EXCEPT ![k.msg.id] = k.msg]
    BY <1>0, <1>6, Fields, NoneAssumption DEF Hand, End, callers, Matched
  <2>1. CASE k.msg.id = i
    BY <1>0, <2>0, <2>1 DEF Around
  <2>2. CASE k.msg.id # i
    <3>1. \A l \in Node : \A x \in child[l] : x.msg.id = i => x \in child'[l]
      BY <1>0, <2>0, <2>2
    <3>2. answer'[i] = answer[i]
      BY <1>0, <2>0, <2>2
    <3>3. QED
      BY <2>0, <3>1, <3>2 DEF Around, At
  <2>3. QED
    BY <2>1, <2>2
<1>7. ASSUME NEW n \in Node, NEW m \in net, Deliver(n, m), UNCHANGED callers
      PROVE  At(i, "waiting")' => Around(i)'
  <2>1. /\ net' = net \ {m} /\ m \in inbox'[n] /\ \A l \in Node : inbox[l] \subseteq inbox'[l]
        /\ UNCHANGED <<child, answer, caller>>
    BY <1>0, <1>7 DEF Deliver, callers
  <2>2. QED
    BY <2>1 DEF Around, At
<1>8. ASSUME NEW n \in Node, NEW j \in Id, Begin(n, j)
      PROVE  At(i, "waiting")' => Around(i)'
  BY <1>0, <1>1, <1>8, BeginFields DEF At
<1>9. CASE UNCHANGED vars
  BY <1>1, <1>9 DEF vars, exchange, callers, At
<1>10. QED
  BY <1>2, <1>3, <1>4, <1>5, <1>6, <1>7, <1>8, <1>9, Calm, NoDrop

\* Undisturbed, no request waits for nothing: while it waits, it or its answer is
\* on one of the four legs between the services, or with one of them, whoever
\* else asks, gives up or answers late meanwhile (head.go, proxy.go).
THEOREM Awaited == Undisturbed => (Spec => []WaitedFor)
<1> SUFFICES ASSUME Undisturbed
             PROVE  Spec => []WaitedFor
  OBVIOUS
<1>1. Init => WayInv
  <2>1. ASSUME Init
        PROVE  WayInv
    <3>1. \A i \in Id : At(i, "idle") /\ ~At(i, "waiting")
      BY <2>1 DEF Init, At
    <3>2. WaitedFor
      BY <3>1, IdAssumption DEF WaitedFor
    <3>3. QED
      BY <2>1, <3>1, <3>2 DEF WayInv, Undisturbed, Init, ExchangeInit
  <2>2. QED
    BY <2>1
<1>2. RoutingInv /\ WayInv /\ [Next]_vars => WayInv'
  <2>0. SUFFICES ASSUME RoutingInv, WayInv, [Next]_vars
        PROVE  WayInv'
    OBVIOUS
  <2>1. Guided' /\ Kin'
    BY <2>0, GuidedStep, KinStep
  <2>2. ASSUME NEW i \in HeadReq
        PROVE  At(i, "waiting")' => Traces(i)' # {}
    <3>1. i \in Id /\ (At(i, "waiting") => Around(i))
      BY <2>0, AroundIs, IdAssumption DEF WayInv, WaitedFor
    <3>2. At(i, "waiting")' => Around(i)'
      BY <2>0, <3>1, ExpectedStep
    <3>3. QED
      BY <3>1, <3>2, AroundIsNext
  <2>3. QED
    BY <2>1, <2>2 DEF WayInv, Guided, Kin, WaitedFor
<1>3. WayInv => WaitedFor
  BY DEF WayInv
<1>4. QED
  BY <1>1, <1>2, <1>3, Routed, PTL DEF Spec

=============================================================================
