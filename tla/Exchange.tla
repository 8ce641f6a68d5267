------------------------------- MODULE Exchange -------------------------------
(***************************************************************************)
(* A broker's exchange (broker/exchange/exchange.go) and the NATS server   *)
(* between the exchanges (broker/transport/nats/nats.go).                  *)
(*                                                                         *)
(* Every service listens on one subject in the queue group of that name:   *)
(* a message for the subject goes to one member.  The client buffers it,   *)
(* calls Do, and Do starts a goroutine, Run, a child of the exchange.      *)
(***************************************************************************)
EXTENDS Message, FiniteSets

CONSTANTS
    Node,      \* processes
    Role,      \* Role[n]: the subject, and queue group, that n listens on
    Faults,    \* what may go wrong: "error" (Publish fails, a handler fails),
               \* "lost" (NATS drops a message), "crash" (a process dies)
    None

ASSUME RoleAssumption == Role \in [Node -> Subject]
ASSUME FaultsAssumption == Faults \subseteq {"error", "lost", "crash"}
ASSUME NoneAssumption == None \notin Id /\ None \notin Node /\ None \notin Message

VARIABLES
    phase,     \* phase[n]: where the service is between start and exit
    net,       \* messages on their way to or in the server
    inbox,     \* inbox[n]: delivered, in the client's buffer or callback
    child,     \* child[n]: messages a goroutine of n is working on
    reply,     \* reply[n]: requests of n that wait for an answer
    answer     \* answer[i]: what is in the channel of request i

transport == <<net, inbox>>
exchange == <<net, inbox, child, reply, answer>>

\* "stopped": the context of Listen is done; "replies": topics dropped, in
\* reply.Wait(); "children": in child.Wait(); "finished": Finish() has returned;
\* "closed": the process is gone.
Phase == {"down", "listening", "up", "stopped", "replies", "children",
          "finished", "closed", "crashed"}

\* A child that handles an answer takes the channel of the request it is for out
\* of e.reply, and then sends to it.
Child == [msg : Message, for : Id \cup {None}]

ExchangeInit(late) ==
    /\ phase = [n \in Node |-> IF n \in late THEN "down" ELSE "up"]
    /\ net = {}
    /\ inbox = [n \in Node |-> {}]
    /\ child = [n \in Node |-> {}]
    /\ reply = [n \in Node |-> {}]
    /\ answer = [i \in Id |-> None]

ExchangeTypeOK ==
    /\ phase \in [Node -> Phase]
    /\ net \subseteq Message
    /\ inbox \in [Node -> SUBSET Message]
    /\ child \in [Node -> SUBSET Child]
    /\ reply \in [Node -> SUBSET Id]
    /\ answer \in [Id -> Message \cup {None}]

-----------------------------------------------------------------------------
(* Transport *)

\* The topics of n are in e.topic while it is subscribed to them.
Listening(n) == phase[n] \in {"listening", "up", "stopped"}

Running(n) == phase[n] \notin {"down", "closed", "crashed"}

\* Publish succeeds: the message is the server's.
Publish(m) == net' = net \cup {m}

PublishFails == "error" \in Faults /\ UNCHANGED net

\* Send where nobody looks at the error.
Send(m) == Publish(m) \/ PublishFails

\* The server picks a member of the queue group.
Deliver(n, m) ==
    /\ m \in net
    /\ Listening(n)
    /\ Role[n] = m.to
    /\ net' = net \ {m}
    /\ inbox' = [inbox EXCEPT ![n] = @ \cup {m}]
    /\ UNCHANGED <<phase, child, reply, answer>>

\* Core NATS keeps nothing: no listener, no delivery.
Drop(m) ==
    /\ m \in net
    /\ "lost" \in Faults \/ \A n \in Node : Listening(n) => Role[n] # m.to
    /\ net' = net \ {m}
    /\ UNCHANGED <<phase, inbox, child, reply, answer>>

-----------------------------------------------------------------------------
(* Requests *)

\* reply.Store, and Send at once: nobody can answer between the two.
Ask(n, i) ==
    /\ reply' = [reply EXCEPT ![n] = @ \cup {i}]
    /\ UNCHANGED <<phase, inbox, child, answer>>

\* Slip: a request that gave up stays in the map.
ForgetNothing(n, i) == UNCHANGED <<phase, exchange>>

\* reply.Delete at the end of a request that got no answer.
Forget(n, i) ==
    /\ reply' = [reply EXCEPT ![n] = @ \ {i}]
    /\ UNCHANGED <<phase, net, inbox, child, answer>>

-----------------------------------------------------------------------------
(* Incoming messages *)

\* The callback of the subscription: the goroutine is registered, then started.
Do(n, m) ==
    /\ m \in inbox[n]
    /\ inbox' = [inbox EXCEPT ![n] = @ \ {m}]
    /\ child' = [child EXCEPT ![n] = @ \cup {[msg |-> m, for |-> None]}]
    /\ UNCHANGED <<phase, net, reply, answer>>

\* Run has nothing left to do: child.Delete.  It follows the last effect of Run
\* without a step in between that another process could tell apart.
End(n, k) == child' = [child EXCEPT ![n] = @ \ {k}]

\* Slip: any request of the method will do.
KeyMethod(n, m) ==
    IF reply[n] # {} THEN CHOOSE i \in reply[n] : TRUE ELSE m.id

\* The request an answer belongs to.
Key(n, m) == m.id

Asked(n, m) == Key(n, m) \in reply[n]

\* Slip: the channel is looked up, and stays in the map.
TakeKeeps(n, k) ==
    /\ k \in child[n]
    /\ k.for = None
    /\ IsAnswer(k.msg)
    /\ Asked(n, k.msg)
    /\ child' = [child EXCEPT ![n] =
                    (@ \ {k}) \cup {[k EXCEPT !.for = Key(n, k.msg)]}]
    /\ UNCHANGED <<phase, net, inbox, reply, answer>>

\* reply.Delete in Run: the channel is this goroutine's now.
Take(n, k) ==
    /\ k \in child[n]
    /\ k.for = None
    /\ IsAnswer(k.msg)
    /\ Asked(n, k.msg)
    /\ reply' = [reply EXCEPT ![n] = @ \ {Key(n, k.msg)}]
    /\ child' = [child EXCEPT ![n] =
                    (@ \ {k}) \cup {[k EXCEPT !.for = Key(n, k.msg)]}]
    /\ UNCHANGED <<phase, net, inbox, answer>>

\* q <- m: the channel holds one message.
Hand(n, k) ==
    /\ k \in child[n]
    /\ k.for # None
    /\ answer[k.for] = None
    /\ answer' = [answer EXCEPT ![k.for] = k.msg]
    /\ End(n, k)
    /\ UNCHANGED <<phase, net, inbox, reply>>

-----------------------------------------------------------------------------
(* Start and finish *)

Goes(n, from, to) ==
    /\ phase[n] = from
    /\ phase' = [phase EXCEPT ![n] = to]

Listen(n) == Goes(n, "down", "listening") /\ UNCHANGED exchange

\* The process is told to stop: the context that Listen was given is done, and
\* so is that of every child, there now or stored later, which derives from it.
Signal(n) == Goes(n, "up", "stopped") /\ UNCHANGED exchange

Cancelled(n) == phase[n] \notin {"listening", "up"}

\* Unsubscribe throws the client's buffer away, but not a callback under way.
\* The loop over the children cancels what is done already.  The deferred waits
\* run in reverse: replies first.
Finish(n) ==
    /\ Goes(n, "stopped", "replies")
    /\ \E kept \in SUBSET inbox[n] :
        /\ Cardinality(kept) <= 1
        /\ inbox' = [inbox EXCEPT ![n] = kept]
    /\ UNCHANGED <<net, child, reply, answer>>

WaitReplies(n) ==
    /\ reply[n] = {}
    /\ Goes(n, "replies", "children")
    /\ UNCHANGED exchange

WaitChildren(n) ==
    /\ child[n] = {}
    /\ Goes(n, "children", "finished")
    /\ UNCHANGED exchange

\* The process ends, on purpose or not, and with it all it remembers.
Exit(n, how) ==
    /\ phase' = [phase EXCEPT ![n] = how]
    /\ inbox' = [inbox EXCEPT ![n] = {}]
    /\ child' = [child EXCEPT ![n] = {}]
    /\ reply' = [reply EXCEPT ![n] = {}]
    /\ UNCHANGED <<net, answer>>

===============================================================================
