------------------------------- MODULE Routing --------------------------------
(***************************************************************************)
(* The services on the broker: a block service asks "head" for a HEAD, and *)
(* sends "file" after a PUT; a proxy forwards both to a chain service and  *)
(* its answers back (service/head.go, file.go, proxy.go, chain.go,         *)
(* block.go).  Services start late, finish and crash.                      *)
(***************************************************************************)
EXTENDS Exchange

CONSTANTS
    HeadReq,   \* HEAD requests
    FileMsg,   \* "file" messages of PUT requests
    Late,      \* processes that have not started yet
    Stops      \* processes that are told to stop

ASSUME IdAssumption == Id = HeadReq \cup FileMsg /\ HeadReq \cap FileMsg = {}
ASSUME SubjectAssumption == Subject = {"block", "proxy", "chain"}
ASSUME NodesAssumption == Late \subseteq Node /\ Stops \subseteq Node

VARIABLES
    caller,    \* caller[i]: the HTTP handler behind message i
    result     \* result[i]: what the chain's handler made of message i

callers == <<caller, result>>
vars == <<phase, exchange, callers>>

Caller ==
    [node : Node \cup {None},
     pc : {"idle", "begin", "new", "waiting", "giveup", "done"},
     status : {None, "OK", "Error", "Timeout", "Panic", "Lost"}]

Init ==
    /\ ExchangeInit(Late)
    /\ caller = [i \in Id |-> [node |-> None, pc |-> "idle", status |-> None]]
    /\ result = [i \in Id |-> None]

At(i, pc) == caller[i].pc = pc

Moves(i, pc) == caller' = [caller EXCEPT ![i].pc = pc]

Returns(i, pc, status) ==
    caller' = [caller EXCEPT ![i].pc = pc, ![i].status = status]

-----------------------------------------------------------------------------
(* Handlers of the block service *)

\* Server.Shutdown stops accepting, but a connection accepted before may still
\* bring a request while Run already finishes the broker.
Serving(n) ==
    /\ Role[n] = "block"
    /\ phase[n] \in {"up", "stopped", "replies", "children", "finished"}

Begin(n, i) ==
    /\ At(i, "idle")
    /\ Serving(n)
    /\ caller' = [caller EXCEPT ![i].node = n, ![i].pc = "begin"]
    /\ UNCHANGED <<phase, exchange, result>>

\* e.topic[0][0] after Finish: index out of range, recovered by the router.
NoTopic(i) ==
    /\ At(i, "begin")
    /\ ~Listening(caller[i].node)
    /\ Returns(i, "done", "Panic")
    /\ UNCHANGED <<phase, exchange, result>>

\* Broker.Message of a PUT that has already answered 201.
FileMessage(i) ==
    /\ i \in FileMsg
    /\ At(i, "begin")
    /\ Listening(caller[i].node)
    /\ \/ Publish(NewMessage(i, "Query", "block", "proxy"))
          /\ Returns(i, "done", "OK")
       \/ PublishFails /\ Returns(i, "done", "Error")
    /\ UNCHANGED <<phase, inbox, child, reply, answer, result>>

\* Broker.Request reads the topic when it builds the message ...
HeadNew(i) ==
    /\ i \in HeadReq
    /\ At(i, "begin")
    /\ Listening(caller[i].node)
    /\ Moves(i, "new")
    /\ UNCHANGED <<phase, exchange, result>>

\* ... and registers and sends it, whether or not Finish was called meanwhile.
HeadAsk(i) ==
    /\ At(i, "new")
    /\ Ask(caller[i].node, i)
    /\ \/ Publish(NewMessage(i, "Request", "block", "proxy"))
          /\ Moves(i, "waiting")
       \/ PublishFails /\ Returns(i, "giveup", "Error")
    /\ UNCHANGED result

\* Slip: a failure is an answer, too.
HeadReceiveAny(i) ==
    /\ At(i, "waiting")
    /\ answer[i] # None
    /\ Returns(i, "done", "OK")
    /\ answer' = [answer EXCEPT ![i] = None]
    /\ UNCHANGED <<phase, net, inbox, child, reply, result>>

\* Slip: the type of the message for a status.
HeadReceiveType(i) ==
    /\ At(i, "waiting")
    /\ answer[i] # None
    /\ Returns(i, "done", answer[i].type)
    /\ answer' = [answer EXCEPT ![i] = None]
    /\ UNCHANGED <<phase, net, inbox, child, reply, result>>

\* The channel has the answer; Decode turns a Failure into an error.
HeadReceive(i) ==
    /\ At(i, "waiting")
    /\ answer[i] # None
    /\ Returns(i, "done", IF answer[i].type = "Answer" THEN "OK" ELSE "Error")
    /\ answer' = [answer EXCEPT ![i] = None]
    /\ UNCHANGED <<phase, net, inbox, child, reply, result>>

\* Slip: the timeout is not in force.
HeadTimeoutNever(i) == At(i, "waiting") /\ FALSE /\ UNCHANGED vars

\* A minute has passed, or the client hung up: select may take this branch even
\* when the answer is there.
HeadTimeout(i) ==
    /\ At(i, "waiting")
    /\ Returns(i, "giveup", "Timeout")
    /\ UNCHANGED <<phase, exchange, result>>

HeadForget(i) ==
    /\ At(i, "giveup")
    /\ Forget(caller[i].node, i)
    /\ Moves(i, "done")
    /\ UNCHANGED result

CallerStep(i) ==
    \/ NoTopic(i) \/ FileMessage(i) \/ HeadNew(i) \/ HeadAsk(i)
    \/ HeadReceive(i) \/ HeadTimeout(i) \/ HeadForget(i)

-----------------------------------------------------------------------------
(* Goroutines of the exchanges: Run *)

Querying(n, k) == k \in child[n] /\ ~IsAnswer(k.msg)

\* Slip: the proxy forwards and answers as well.
PassAnswers(n, k) ==
    /\ Role[n] = "proxy"
    /\ Querying(n, k)
    /\ net' = net \cup {Forward(k.msg, "chain"), Answer(k.msg)}
    /\ End(n, k)
    /\ UNCHANGED <<phase, inbox, reply, answer, callers>>

\* HeadQuery and FileQuery of the proxy: forward, answer only an error.
Pass(n, k) ==
    /\ Role[n] = "proxy"
    /\ Querying(n, k)
    /\ \/ Publish(Forward(k.msg, "chain"))
       \/ PublishFails
       \/ "error" \in Faults /\ Publish(Answer(WithError(k.msg)))
    /\ End(n, k)
    /\ UNCHANGED <<phase, inbox, reply, answer, callers>>

\* HeadQuery and FileQuery of the chain.  They fail when the database does, when
\* their context is done, and so when Run has closed the database after that.
Serve(n, k) ==
    /\ Role[n] = "chain"
    /\ Querying(n, k)
    /\ phase[n] # "listening"
    /\ \/ /\ Send(Answer(k.msg))
          /\ result' = [result EXCEPT ![k.msg.id] = "Answer"]
       \/ /\ Cancelled(n) \/ "error" \in Faults
          /\ Send(Answer(WithError(k.msg)))
          /\ result' = [result EXCEPT ![k.msg.id] = "Failure"]
    /\ End(n, k)
    /\ UNCHANGED <<phase, inbox, reply, answer, caller>>

\* The process dies, and its HTTP handlers with it.
Dies(n) ==
    /\ Exit(n, "crashed")
    /\ caller' = [i \in Id |->
                    IF caller[i].node = n /\ ~At(i, "done")
                    THEN [caller[i] EXCEPT !.pc = "done", !.status = "Lost"]
                    ELSE caller[i]]
    /\ UNCHANGED result

\* Chain.Run listens before it has a database: the handler calls a nil
\* interface, and a panic in a goroutine ends the process.
NoRepository(n, k) ==
    /\ Role[n] = "chain"
    /\ Querying(n, k)
    /\ phase[n] = "listening"
    /\ Dies(n)

\* FileReply of the block service ends the way of an answer.
Swallows(n, i) == Role[n] = "block" /\ i \in FileMsg

\* An answer nobody here asked for goes back where its query came from.
Return(n, k) ==
    /\ k \in child[n]
    /\ k.for = None
    /\ IsAnswer(k.msg)
    /\ ~Asked(n, k.msg)
    /\ IF k.msg.ret = <<>> \/ Swallows(n, k.msg.id)
       THEN UNCHANGED net
       ELSE Send(Backward(k.msg))
    /\ End(n, k)
    /\ UNCHANGED <<phase, inbox, reply, answer, callers>>

RunStep(n, k) ==
    \/ Pass(n, k) \/ Serve(n, k) \/ NoRepository(n, k) \/ Return(n, k)
    \/ (Take(n, k) \/ Hand(n, k)) /\ UNCHANGED callers

DoStep(n) == \E m \in inbox[n] : Do(n, m) /\ UNCHANGED callers

-----------------------------------------------------------------------------
(* Start and finish of the services *)

Open(n) == Goes(n, "listening", "up") /\ UNCHANGED exchange

StartStep(n) == (Listen(n) \/ Open(n)) /\ UNCHANGED callers

\* Broker.Shutdown waits again for what Finish waits for; a block service has
\* waited for its HTTP handlers before.
Close(n) ==
    /\ phase[n] = "finished"
    /\ reply[n] = {} /\ child[n] = {}
    /\ \A i \in Id : caller[i].node = n => At(i, "done")
    /\ Exit(n, "closed")

FinishStep(n) ==
    /\ Finish(n) \/ WaitReplies(n) \/ WaitChildren(n) \/ Close(n)
    /\ UNCHANGED callers

Stop(n) == n \in Stops /\ Signal(n) /\ UNCHANGED callers

Crash(n) == "crash" \in Faults /\ Running(n) /\ Dies(n)

Server ==
    /\ \E m \in net : Drop(m) \/ \E n \in Node : Deliver(n, m)
    /\ UNCHANGED callers

\* Nobody has anything left to do.
Rest ==
    /\ net = {}
    /\ \A i \in Id : At(i, "idle") \/ At(i, "done")
    /\ \A n \in Node : inbox[n] = {} /\ child[n] = {}
    /\ \A n \in Node : phase[n] \in {"up", "closed", "crashed"}
    /\ UNCHANGED vars

Next ==
    \/ \E i \in Id : CallerStep(i) \/ \E n \in Node : Begin(n, i)
    \/ \E n \in Node :
        \/ DoStep(n) \/ \E k \in child[n] : RunStep(n, k)
        \/ StartStep(n) \/ Stop(n) \/ FinishStep(n) \/ Crash(n)
    \/ Server
    \/ Rest

Spec == Init /\ [][Next]_vars

\* Goroutines run and timers fire; the server need not deliver, nobody need
\* ask, and nothing need fail or stop.
Fairness ==
    /\ \A i \in Id : WF_vars(CallerStep(i))
    /\ \A n \in Node :
        /\ WF_vars(DoStep(n))
        /\ WF_vars(FinishStep(n))
        /\ \A i \in Id :
            WF_vars(\E k \in child[n] : k.msg.id = i /\ RunStep(n, k))

FairSpec == Spec /\ Fairness

-----------------------------------------------------------------------------
(* Properties *)

\* Every variable has the shape its declaration says.
TypeOK ==
    /\ ExchangeTypeOK
    /\ caller \in [Id -> Caller]
    /\ result \in [Id -> {None, "Answer", "Failure"}]

\* Where message i, or what became of it, is now.
Traces(i) ==
    {<<"net", m>> : m \in {x \in net : x.id = i}}
        \cup (UNION {{<<"inbox", n, m>> : m \in {x \in inbox[n] : x.id = i}} : n \in Node})
        \cup (UNION {{<<"child", n, k>> : k \in {x \in child[n] : x.msg.id = i}} : n \in Node})
        \cup {<<"answer", m>> : m \in {answer[i]} \ {None}}

\* A message is passed on, answered or dropped, never two of these: there is one
\* trace of it at any time, so the channel of a request, which holds one
\* message, never blocks the goroutine that answers it (exchange.go, head.go).
OneTrace == \A i \in Id : Cardinality(Traces(i)) <= 1

\* Where the answer of request i will come from.
Sources(i) ==
    {<<"reply", n>> : n \in {x \in Node : i \in reply[x]}}
        \cup (UNION {{<<"hand", n, k>> : k \in {x \in child[n] : x.for = i}} : n \in Node})
        \cup {<<"answer", m>> : m \in {answer[i]} \ {None}}

\* However a timeout races a late answer (exchange.go:152-160 and 272-279), a
\* waiting request has exactly one source of its answer, and a request that
\* returned has left nothing in the map that Finish waits for.
OneSource ==
    \A i \in HeadReq :
        /\ At(i, "waiting") => Cardinality(Sources(i)) = 1
        /\ At(i, "done") => \A n \in Node : i \notin reply[n]

\* Without failures no request waits for nothing: while it waits, it or its
\* answer is on its way (head.go, proxy.go: forward, answer, backward).
WaitedFor == \A i \in HeadReq : At(i, "waiting") => Traces(i) # {}

\* A request returns, answered or not, whatever becomes of it (head.go:18).
RequestReturns == \A i \in HeadReq : At(i, "begin") ~> At(i, "done")

\* A service that was told to stop ends, although Finish waits for requests and
\* goroutines that depend on each other (exchange.go:297-313, block.go:83-84).
FinishReturns ==
    \A n \in Node : phase[n] = "stopped" ~> phase[n] \in {"closed", "crashed"}

\* A caller sees a call that is served at most once and that succeeds only with
\* the result of its own message, although queries change hands, answers are
\* matched by id, and callers time out, stop and die.
CallOf(i) ==
    CASE At(i, "idle") -> "idle"
      [] ~At(i, "idle") /\ ~At(i, "done") -> "called"
      [] OTHER -> IF i \in HeadReq /\ caller[i].status = "OK" THEN "ok" ELSE "failed"

Calls == INSTANCE Rpc WITH call <- [i \in Id |-> CallOf(i)]

IsRpc == Calls!Spec

-----------------------------------------------------------------------------
(* Why answers match: an id has one message, one source of its answer, and *)
(* one process that asked.                                                 *)

\* The messages that are message i, or what became of it.
Forms(i) ==
    {m \in net : m.id = i}
        \cup (UNION {{m \in inbox[n] : m.id = i} : n \in Node})
        \cup (UNION {{k.msg : k \in {x \in child[n] : x.msg.id = i}} : n \in Node})
        \cup ({answer[i]} \ {None})

\* What is taken for a request, or handed to it, is an answer with its id.
Matched ==
    /\ \A i \in Id : answer[i] # None => answer[i].id = i
    /\ \A n \in Node : \A k \in child[n] : k.for # None => k.for = k.msg.id /\ IsAnswer(k.msg)

\* Nobody knows or has handled a message before it is sent.
Unsent ==
    \A i \in Id : caller[i].pc \in {"idle", "begin", "new"} =>
        Traces(i) = {} /\ Sources(i) = {} /\ result[i] = None

Single(S) == \A s, t \in S : s = t

\* Whoever waits for an answer, or is handed one, is the process that asked.
Owned ==
    /\ \A n \in Node : \A i \in reply[n] :
        caller[i].node = n /\ caller[i].pc \in {"waiting", "giveup"}
    /\ \A n \in Node : \A k \in child[n] : k.for # None => caller[k.for].node = n

Waited == \A i \in Id : At(i, "waiting") => Sources(i) # {}

\* A query is a message no chain has handled, and an Answer one that it has.
Told ==
    \A i \in Id : \A m \in Forms(i) :
        /\ ~IsAnswer(m) => result[i] = None
        /\ m.type = "Answer" => result[i] = "Answer"

Nobody ==
    \A i \in Id :
        /\ At(i, "idle") <=> caller[i].node = None
        /\ At(i, "giveup") => caller[i].status # "OK"

RoutingInv ==
    /\ TypeOK /\ Matched /\ Unsent /\ Owned /\ Waited /\ Told /\ Nobody
    /\ \A i \in Id : Single(Traces(i)) /\ Single(Sources(i))

-----------------------------------------------------------------------------
(* Why requests are not forgotten: nothing goes wrong, all subjects are    *)
(* listened on, and the answer finds the one process that asked.           *)

Undisturbed ==
    /\ Faults = {} /\ Late = {} /\ Stops = {}
    /\ \A n, l \in Node : Role[n] = "block" /\ Role[l] = "block" => n = l
    /\ {"proxy", "chain"} \subseteq {Role[n] : n \in Node}

\* The four legs of a message: asked, passed on, answered, sent back.
OnWay(m) ==
    \/ ~IsAnswer(m) /\ m.from = "block" /\ m.to = "proxy" /\ m.ret = <<>>
    \/ ~IsAnswer(m) /\ m.from = "proxy" /\ m.to = "chain" /\ m.ret = <<"block">>
    \/ IsAnswer(m) /\ m.from = "chain" /\ m.to = "proxy" /\ m.ret = <<"block">>
    \/ IsAnswer(m) /\ m.to = "block" /\ m.ret = <<>>

WayInv ==
    /\ \A n \in Node :
        /\ phase[n] = "up"
        /\ \A m \in inbox[n] : OnWay(m) /\ m.to = Role[n]
        /\ \A k \in child[n] : OnWay(k.msg) /\ k.msg.to = Role[n]
    /\ \A m \in net : OnWay(m)
    /\ \A i \in Id : ~At(i, "idle") => Role[caller[i].node] = "block"
    /\ WaitedFor

===============================================================================
