-------------------------------- MODULE Broker ---------------------------------
(***************************************************************************)
(* What exchanges do with topics, frames and contexts, seen from their     *)
(* users (broker/broker.go): services of one name in a queue group, each   *)
(* with an address of its own below it; queries, requests and broadcasts   *)
(* to any of these; handlers that answer and handlers that pass on.        *)
(* Requests that time out and services that stop are in Exchange.          *)
(***************************************************************************)
EXTENDS Frames

CONSTANTS
    Node,      \* exchanges
    Caller,    \* those that send something of their own
    Address,   \* Address[n]: the words Listen was called with
    Relay,     \* exchanges whose handlers forward, as the proxy's do
    Beyond,    \* where they forward to
    Stacks     \* the middleware an exchange may use

Subjects(n) == {SubSeq(Address[n], 1, k) : k \in 1 .. Len(Address[n])}

Words == UNION {ToSet(Address[n]) : n \in Node}

\* Listen takes one word, and more.
ASSUME WordsAssumption == \A n \in Node : Address[n] \in Seq(Words) \ {<<>>}
ASSUME AddressAssumption ==
    Subject = UNION {Subjects(n) : n \in Node} /\ Beyond \in Subject
ASSUME NodeAssumption ==
    /\ Caller \cup Relay \subseteq Node
    /\ \A r \in Relay : Head(Beyond) # Head(Address[r])

\* An exchange has no middleware twice, and all have them in one order.
ASSUME StacksAssumption ==
    /\ Stacks \subseteq Seq(Middleware)
    /\ \A ws \in Stacks : Cardinality(NamesOf(ws)) = Len(ws)
    /\ \A ws, xs \in Stacks : \A j, k \in DOMAIN ws, l, m \in DOMAIN xs :
        j < k /\ xs[l].name = ws[j].name /\ xs[m].name = ws[k].name => l < m

VARIABLES
    stack,     \* stack[w]: the middleware of the services named w
    net,       \* frames on their way, each with those who may receive it, and
               \* the exchanges it came through, which keeps equal ones apart
    child,     \* goroutines
    call,      \* call[i]: who sent message i, how, and what came back
    handled    \* handled[i]: the handlers that ran for i, and whom they served

vars == <<stack, net, child, call, handled>>

Name(n) == Head(Address[n])
Stack(n) == stack[Name(n)]

Idle == [node |-> None, type |-> None, to |-> <<>>, user |-> None,
         last |-> FALSE, got |-> {}]

Init ==
    /\ stack \in [{Name(n) : n \in Node} -> Stacks]
    /\ net = {}
    /\ child = {}
    /\ call = [i \in Id |-> Idle]
    /\ handled = [i \in Id |-> <<>>]

-----------------------------------------------------------------------------
(* Listen, Topic, Publish *)

\* Listen subscribes to every prefix in the queue group of the name, and to all
\* but the longest for broadcasts.
Queue(s) == {n \in Node : s \in Subjects(n)}
Wide(s) == {n \in Node : s \in Subjects(n) \ {Address[n]}}

\* Slip: the last topic is one too far, and the first is taken.
TopicFirst(n, i) == SubSeq(Address[n], 1, 1)

\* The topic that answers are to go to: the last one for an index out of range.
Topic(n, i) ==
    IF i \in 0 .. Len(Address[n]) - 1 THEN SubSeq(Address[n], 1, i + 1) ELSE Address[n]

\* One message for a queue group, one for each other subscription.
Receivers(m) == IF m.type = "Broadcast" THEN {{n} : n \in Wide(m.to)} ELSE {Queue(m.to)}

\* Slip: a connection receives what it sends.
PublishEcho(n, user, m, via) ==
    net' = net \cup {[frame |-> Encode(Stack(n), user, m), by |-> n, via |-> via, to |-> ns] :
                         ns \in Receivers(m) \ {{}}}

\* NoEcho: what a connection sends it does not receive.
Publish(n, user, m, via) ==
    net' = net \cup {c \in {[frame |-> Encode(Stack(n), user, m), by |-> n, via |-> via,
                             to |-> ns \ {n}] : ns \in Receivers(m)} : c.to # {}}

\* Slip: a context knows nothing of broadcasts.
SendLoud(k, m) == Publish(k.at, k.user, m, k.via)

\* Send in a handler: a broadcast is not answered.
Send(k, m) ==
    IF IsAnswer(m) /\ k.msg.type = "Broadcast" THEN UNCHANGED net
    ELSE Publish(k.at, k.user, m, k.via)

-----------------------------------------------------------------------------
(* Message and Request, or Send of a message that was built *)

\* WithFrom: the sender is another of its topics (0, the first, without it).
Apply(n, m, from) == [m EXCEPT !.from = Topic(n, from)]

Ask(i, n) ==
    /\ call[i] = Idle
    /\ \E type \in {"Query", "Request", "Broadcast"}, to \in Subject,
          user \in User \cup {None}, from \in {0, -1} :
        /\ Publish(n, user, Apply(n, NewMessage(i, type, Topic(n, 0), to), from), <<>>)
        /\ call' = [call EXCEPT ![i] =
                [node |-> n, type |-> type, to |-> to, user |-> user,
                 last |-> from = -1, got |-> {}]]
    /\ UNCHANGED <<stack, child, handled>>

\* The callback of a subscription: Decode, and Do if that succeeds.
Receive(n, c) ==
    /\ c \in net
    /\ n \in c.to
    /\ net' = net \ {c}
    /\ child' = IF Accepts(Stack(n), c.frame)
                THEN child \cup {[at |-> n, msg |-> c.frame.msg,
                                  user |-> UserIn(Stack(n), c.frame), via |-> Append(c.via, n)]}
                ELSE child
    /\ UNCHANGED <<stack, call, handled>>

\* Run of a query: the handler answers, fails, or passes the query on.
Handle(k) ==
    /\ k \in child
    /\ ~IsAnswer(k.msg)
    /\ handled' = [handled EXCEPT ![k.msg.id] = Append(@, [at |-> k.at, user |-> k.user, via |-> k.via])]
    /\ IF k.at \in Relay
       THEN Send(k, Forward(k.msg, Beyond))
       ELSE Send(k, Answer(k.msg)) \/ Send(k, Answer(WithError(k.msg)))
    /\ child' = child \ {k}
    /\ UNCHANGED <<stack, call>>

\* Run of an answer: a request waits for it, it goes back, or nobody wants it.
Settle(k) ==
    LET i == k.msg.id
        mine == call[i].type = "Request" /\ call[i].node = k.at /\ call[i].got = {}
    IN
    /\ k \in child
    /\ IsAnswer(k.msg)
    /\ child' = child \ {k}
    /\ IF ~mine /\ k.msg.ret # <<>>
       THEN Send(k, Backward(k.msg)) /\ UNCHANGED call
       ELSE call' = [call EXCEPT ![i].got = @ \cup {k.at}] /\ UNCHANGED net
    /\ UNCHANGED <<stack, handled>>

Quiet == net = {} /\ child = {}

Rest == Quiet /\ (\A i \in Id : call[i] # Idle) /\ UNCHANGED vars

Next ==
    \/ \E i \in Id, n \in Caller : Ask(i, n)
    \/ \E c \in net : \E n \in c.to : Receive(n, c)
    \/ \E k \in child : Handle(k) \/ Settle(k)
    \/ Rest

Spec == Init /\ [][Next]_vars

-----------------------------------------------------------------------------
(* Properties *)

\* What an exchange and a stack can be, and what is recorded of a message.
TypeOK ==
    /\ \A c \in net : c.frame.msg \in Message /\ c.to \subseteq Node \ {c.by} /\ c.via \in Seq(Node)
    /\ \A k \in child :
        k.at \in Node /\ k.msg \in Message /\ k.user \in User \cup {None} /\ k.via \in Seq(Node)
    /\ \A i \in Id : call[i].got \subseteq Node

Serving(i, ns) == {k \in DOMAIN handled[i] : handled[i][k].at \in ns}

\* The user that a context had when a message was sent is the user that every
\* handler with Authorize serves, also behind a handler that passes it on,
\* whatever else the exchanges use (middleware.go:39-53, message.go:203-210).
UserKept ==
    \A i \in Id : \A k \in DOMAIN handled[i] :
        LET h == handled[i][k] IN
        Authorize \in ToSet(Stack(h.at)) => h.user = call[i].user

\* A frame is taken exactly by those who have all the middleware it came with,
\* miss nothing mandatory of their own, and sign by the same algorithm; an
\* answer is always taken.  Places are enough to tell (message.go:192-227).
Understood ==
    \A c \in net : \A n \in c.to :
        LET sent == ToSet(Stack(c.by))
            mine == ToSet(Stack(n))
        IN Accepts(Stack(n), c.frame) <=>
              \/ IsAnswer(c.frame.msg)
              \/ /\ \A w \in sent : w \in mine
                 /\ \A w \in mine : Mandatory(w) => w \in sent

\* Those that message i is for.
There(i) ==
    LET c == call[i] IN
    (IF c.type = "Broadcast" THEN Wide(c.to) ELSE Queue(c.to)) \ {c.node}

OneStack == \A x, y \in DOMAIN stack : stack[x] = stack[y]

\* A request from a last topic that no other exchange has.
OwnRequest(i) ==
    LET c == call[i] IN
    c.type = "Request" /\ c.last /\ Queue(Address[c.node]) = {c.node}

\* When all use one stack and all is done, a query or request was handled by
\* one exchange of those that listen, a broadcast once by each that does, and
\* what was passed on by one more each time; and a request from the last topic, when
\* no other exchange has it, got its answer (exchange.go:213-246, 73-79).
Delivered ==
    Quiet /\ OneStack =>
        \A i \in Id : call[i] # Idle =>
            LET beyond == Serving(i, Node \ There(i))
            IN /\ IF call[i].type = "Broadcast"
                  THEN \A n \in There(i) : Cardinality(Serving(i, {n})) = 1
                  ELSE Cardinality(Serving(i, There(i))) = IF There(i) = {} THEN 0 ELSE 1
               /\ Cardinality(beyond) = Cardinality(Serving(i, Relay \cap There(i)))
               /\ beyond \subseteq Serving(i, Queue(Beyond))
               /\ OwnRequest(i) /\ There(i) # {} => call[i].got = {call[i].node}

\* A broadcast is not answered, but by those to whom a handler passed it on
\* (exchange.go:203-205).
Silent ==
    \A i \in Id : call[i].type = "Broadcast" =>
        LET loud == {c \in net : c.frame.msg.id = i /\ IsAnswer(c.frame.msg)} IN
        Cardinality(loud) + Cardinality(call[i].got) <= Cardinality(Serving(i, Relay))

-----------------------------------------------------------------------------
(* Why users are kept and broadcasts stay unanswered: a user is wherever   *)
(* its message is, and every answer has a relay of its own.                *)

Recorded ==
    /\ stack \in [{Name(n) : n \in Node} -> Stacks]
    /\ call \in [Id -> [node : Node \cup {None}, type : Type \cup {None},
                        to : Subject \cup {<<>>}, user : User \cup {None},
                        last : BOOLEAN, got : SUBSET Node]]
    /\ handled \in [Id -> Seq([at : Node, user : User \cup {None}, via : Seq(Node)])]

\* A frame is what its sender's stack made of a message and a user.
Written ==
    \A c \in net :
        /\ c.by \in Node
        /\ \E user \in User \cup {None} :
            /\ c.frame = Encode(Stack(c.by), user, c.frame.msg)
            /\ ~IsAnswer(c.frame.msg) /\ Authorize \in ToSet(Stack(c.by)) =>
                   user = call[c.frame.msg.id].user

Contexts ==
    \A k \in child :
        ~IsAnswer(k.msg) /\ Authorize \in ToSet(Stack(k.at)) => k.user = call[k.msg.id].user

\* Nobody knows or has handled a message before it is sent.
Unasked ==
    \A i \in Id : call[i] = Idle =>
        /\ handled[i] = <<>>
        /\ \A c \in net : c.frame.msg.id # i
        /\ \A k \in child : k.msg.id # i

\* What relays made of message i, and what became of that.
LooseFrames(i) == {c \in net : c.frame.msg.id = i /\ c.frame.msg.type # "Broadcast"}
LooseRuns(i) == {k \in child : k.msg.id = i /\ k.msg.type # "Broadcast"}

\* There is no more of it than relays that passed the broadcast on.
Hushed ==
    \A i \in Id : call[i] = Idle \/ call[i].type = "Broadcast" =>
        /\ IsFiniteSet(LooseFrames(i)) /\ IsFiniteSet(LooseRuns(i)) /\ IsFiniteSet(call[i].got)
        /\ Cardinality(LooseFrames(i)) + Cardinality(LooseRuns(i)) + Cardinality(call[i].got)
              <= Cardinality(Serving(i, Relay))

BrokerInv ==
    TypeOK /\ Recorded /\ Written /\ Contexts /\ Unasked /\ UserKept /\ Hushed

===============================================================================
