---------------------------------- MODULE Echo ---------------------------------
(***************************************************************************)
(* The load generator of service/echo.go: a loop hands serial numbers to   *)
(* workers, each message takes a slot of a bounded queue, and its answer   *)
(* gives it back.  One process asks; a proxy answers (EchoQuery).          *)
(***************************************************************************)
EXTENDS Integers, Sequences, FiniteSets

CONSTANTS
    Worker,     \* the goroutines, as many as the flag concurrency says
    Quantity,   \* the flag quantity: messages to send
    Pressure,   \* the flag pressure: slots of the queue
    Faults      \* subset of {"error", "lost"}: Message fails, a message is lost

ASSUME EchoAssumption ==
    /\ IsFiniteSet(Worker)
    /\ Quantity \in Nat
    /\ Pressure \in Nat
    /\ Faults \subseteq {"error", "lost"}

VARIABLES
    main,       \* the loop of Echo: where it is, and its i, quantity, concurrency
    worker,     \* where a worker is, the number it took, and its err
    c,          \* the channel of serial numbers
    q, w,       \* slots taken, and the WaitGroup
    msg,        \* what became of each message
    cancelled   \* ctx

vars == <<main, worker, c, q, w, msg, cancelled>>

Serial == 0 .. Quantity - 1

Init ==
    /\ main = [pc |-> "loop", i |-> 0, quantity |-> Quantity, concurrency |-> Cardinality(Worker)]
    /\ worker = [k \in Worker |-> [pc |-> "take", n |-> 0, err |-> FALSE]]
    /\ c = <<>>
    /\ q = 0 /\ w = 0
    /\ msg = [n \in Serial |-> "none"]
    /\ cancelled = FALSE

Alive == main.pc \notin {"ended", "exited", "panicked"}
Lost == {n \in Serial : msg[n] = "lost"}

-----------------------------------------------------------------------------
(* The loop *)

More == main.i < main.quantity /\ main.concurrency > 0

\* Cancellation is looked at once a turn, before the loop waits.
Turn ==
    /\ main.pc = "loop"
    /\ main' = IF ~More THEN [main EXCEPT !.pc = "collect"]
               ELSE IF cancelled THEN [main EXCEPT !.quantity = main.i, !.i = @ + 1]
               ELSE [main EXCEPT !.pc = "select"]
    /\ UNCHANGED <<worker, c, q, w, msg, cancelled>>

\* c <- i, for a buffer of as many as there were workers.
Give ==
    /\ main.pc = "select"
    /\ Len(c) < Cardinality(Worker)
    /\ c' = Append(c, main.i)
    /\ main' = [main EXCEPT !.pc = "loop", !.i = @ + 1]
    /\ UNCHANGED <<worker, q, w, msg, cancelled>>

\* <-e: a worker ends; in the loop a turn goes by and its number is not given.
Collect(k) ==
    /\ main.pc \in {"select", "collect"}
    /\ worker[k].pc = "report"
    /\ worker' = [worker EXCEPT ![k].pc = "gone"]
    /\ main' = [main EXCEPT
            !.concurrency = @ - 1,
            !.i = IF main.pc = "select" THEN @ + 1 ELSE @,
            !.pc = IF @ = "select" THEN "loop" ELSE @]
    /\ UNCHANGED <<c, q, w, msg, cancelled>>

\* All workers have ended: AfterFunc, and w.Wait.
Collected ==
    /\ main.pc = "collect" /\ main.concurrency = 0
    /\ main' = [main EXCEPT !.pc = "wait"]
    /\ UNCHANGED <<worker, c, q, w, msg, cancelled>>

\* Slip: no AfterFunc.
ExitsNever == FALSE

\* What AfterFunc was given, os.Exit, runs.
Exits == main.pc = "wait" /\ cancelled

Exit ==
    /\ Exits
    /\ main' = [main EXCEPT !.pc = "exited"]
    /\ UNCHANGED <<worker, c, q, w, msg, cancelled>>

\* Slip: the workers have ended, so all is done.
WaitedForWorkers ==
    /\ main.pc = "wait"
    /\ main' = [main EXCEPT !.pc = IF main.quantity = 0 THEN "panicked" ELSE "ended"]
    /\ UNCHANGED <<worker, c, q, w, msg, cancelled>>

\* w.Wait returns; Echo divides by the quantity.
Waited ==
    /\ main.pc = "wait" /\ w = 0
    /\ main' = [main EXCEPT !.pc = IF main.quantity = 0 THEN "panicked" ELSE "ended"]
    /\ UNCHANGED <<worker, c, q, w, msg, cancelled>>

MainStep == Turn \/ Give \/ (\E k \in Worker : Collect(k)) \/ Collected \/ Waited

-----------------------------------------------------------------------------
(* A worker *)

Take(k) ==
    /\ worker[k].pc = "take"
    /\ IF c # <<>>
       THEN /\ worker' = [worker EXCEPT ![k].pc = "slot", ![k].n = Head(c)]
            /\ c' = Tail(c)
       ELSE /\ main.pc = "collect"      \* c is closed
            /\ worker' = [worker EXCEPT ![k].pc = "report"]
            /\ UNCHANGED c
    /\ UNCHANGED <<main, q, w, msg, cancelled>>

Slot(k) ==
    /\ worker[k].pc = "slot"
    /\ q < Pressure
    /\ q' = q + 1
    /\ worker' = [worker EXCEPT ![k].pc = "add"]
    /\ UNCHANGED <<main, c, w, msg, cancelled>>

Add(k) ==
    /\ worker[k].pc = "add"
    /\ w' = w + 1
    /\ worker' = [worker EXCEPT ![k].pc = "send"]
    /\ UNCHANGED <<main, c, q, msg, cancelled>>

Message(k) ==
    /\ worker[k].pc = "send"
    /\ msg' = [msg EXCEPT ![worker[k].n] = "asked"]
    /\ worker' = [worker EXCEPT ![k].pc = "take"]
    /\ UNCHANGED <<main, c, q, w, cancelled>>

\* <-q; w.Done(): one step, since nobody looks at w while q is read here.
Release == q > 0 /\ q' = q - 1 /\ w' = w - 1

\* Slip: the slot of what was not sent stays taken.
MessageFailsKeeps(k) ==
    /\ "error" \in Faults
    /\ worker[k].pc = "send"
    /\ worker' = [worker EXCEPT ![k].pc = "report", ![k].err = TRUE]
    /\ UNCHANGED <<main, c, q, w, msg, cancelled>>

\* Message returns an error, and nothing was sent: the worker ends.
MessageFails(k) ==
    /\ "error" \in Faults
    /\ worker[k].pc = "send"
    /\ Release
    /\ worker' = [worker EXCEPT ![k].pc = "report", ![k].err = TRUE]
    /\ UNCHANGED <<main, c, msg, cancelled>>

WorkerStep(k) == Take(k) \/ Slot(k) \/ Add(k) \/ Message(k) \/ MessageFails(k)

-----------------------------------------------------------------------------
(* Messages, and signals *)

\* EchoQuery on a proxy: the message, or an error; either is an answer.
EchoQuery(n) ==
    /\ msg[n] = "asked"
    /\ msg' = [msg EXCEPT ![n] = "answered"]
    /\ UNCHANGED <<main, worker, c, q, w, cancelled>>

\* Slip: an answer is counted, but its slot is not given back.
EchoReplyKeeps(n) ==
    /\ msg[n] = "answered"
    /\ w' = w - 1
    /\ msg' = [msg EXCEPT ![n] = "caught"]
    /\ UNCHANGED <<main, worker, c, q, cancelled>>

\* The catcher.
EchoReply(n) ==
    /\ msg[n] = "answered"
    /\ Release
    /\ msg' = [msg EXCEPT ![n] = "caught"]
    /\ UNCHANGED <<main, worker, c, cancelled>>

Lose(n) ==
    /\ "lost" \in Faults
    /\ msg[n] \in {"asked", "answered"}
    /\ msg' = [msg EXCEPT ![n] = "lost"]
    /\ UNCHANGED <<main, worker, c, q, w, cancelled>>

Cancel ==
    /\ ~cancelled
    /\ cancelled' = TRUE
    /\ UNCHANGED <<main, worker, c, q, w, msg>>

Rest == (~Alive \/ Lost # {}) /\ UNCHANGED vars

Next ==
    \/ Alive /\ (MainStep \/ Exit \/ Cancel \/ (\E k \in Worker : WorkerStep(k)))
    \/ Alive /\ \E n \in Serial : EchoQuery(n) \/ EchoReply(n) \/ Lose(n)
    \/ Rest

Spec == Init /\ [][Next]_vars

\* Goroutines run, and what is not lost arrives; a select that can go on does.
Fairness ==
    /\ WF_vars(MainStep) /\ WF_vars(Exit)
    /\ \A k \in Worker : WF_vars(Alive /\ WorkerStep(k))
    /\ \A n \in Serial : WF_vars(Alive /\ (EchoQuery(n) \/ EchoReply(n)))

FairSpec == Spec /\ Fairness

-----------------------------------------------------------------------------
(* Properties *)

\* Messages that have their slot, and workers.
Open == {n \in Serial : msg[n] \in {"asked", "answered", "lost"}}
At(pc) == {k \in Worker : worker[k].pc = pc}

\* Every slot belongs to a message on its way or lost, or to a worker about to
\* send, and so does every count of w, but for a worker that has yet to add: a
\* slot is neither leaked by an error nor given back twice (echo.go:34-38, 50-60).
SlotsMatch ==
    /\ q = Cardinality(Open) + Cardinality(At("add")) + Cardinality(At("send"))
    /\ w = Cardinality(Open) + Cardinality(At("send"))
    /\ q <= Pressure

\* When Echo returns, no message is on its way; and unless a worker failed or the
\* loop was cancelled, every number was sent and came back (echo.go:82-97).
AllCameBack ==
    main.pc = "ended" =>
        /\ \A n \in Serial : msg[n] \in {"none", "caught"}
        /\ \/ cancelled
           \/ \E k \in Worker : worker[k].err
           \/ \A n \in Serial : msg[n] = "caught"

\* Echo returns, failing workers or not, if no message is lost, there is a slot
\* at all, and something to divide by (echo.go:66-97).
EchoReturns ==
    <>(main.pc = "ended" \/ Lost # {} \/ cancelled \/ Pressure = 0 \/ Quantity = 0)

\* Once it is cancelled Echo ends, by one way or another, unless so many answers
\* are lost that no slot is left: cancellation frees none (echo.go:50, 67-74, 90).
CancelEnds == cancelled ~> (~Alive \/ Cardinality(Lost) = Pressure)

-----------------------------------------------------------------------------
(* Why slots match: no number is handed out twice.                         *)

TypeOK ==
    /\ main \in [pc : {"loop", "select", "collect", "wait", "ended", "exited", "panicked"},
                 i : Nat, quantity : 0 .. Quantity, concurrency : Int]
    /\ worker \in [Worker -> [pc : {"take", "slot", "add", "send", "report", "gone"},
                              n : Nat, err : BOOLEAN]]
    /\ c \in Seq(Serial)
    /\ q \in Int /\ w \in Int
    /\ msg \in [Serial -> {"none", "asked", "answered", "caught", "lost"}]
    /\ cancelled \in BOOLEAN

Holds(k) == worker[k].pc \in {"slot", "add", "send"}

\* The numbers in the channel and with the workers are different ones, which
\* the loop has passed and nobody has sent.
NumbersOnce ==
    /\ main.pc = "select" => main.i < main.quantity
    /\ \A n \in Serial : msg[n] # "none" => n < main.i
    /\ \A j \in 1 .. Len(c) : c[j] < main.i /\ msg[c[j]] = "none"
    /\ \A j, l \in 1 .. Len(c) : c[j] = c[l] => j = l
    /\ \A k \in Worker : Holds(k) =>
        /\ worker[k].n \in Serial /\ worker[k].n < main.i /\ msg[worker[k].n] = "none"
        /\ \A j \in 1 .. Len(c) : c[j] # worker[k].n
        /\ \A l \in Worker : Holds(l) /\ worker[l].n = worker[k].n => l = k

SlotsInv == TypeOK /\ NumbersOnce /\ SlotsMatch

\* Nothing went wrong so far.
Clean == ~cancelled /\ \A k \in Worker : ~worker[k].err

\* Without a failure workers end when the channel is closed and empty, ...
EndsLast ==
    \A k \in Worker : worker[k].pc \in {"report", "gone"} /\ ~worker[k].err =>
        main.pc \notin {"loop", "select"} /\ c = <<>>

\* ... the loop counts those that have not, ...
WorkersCounted ==
    /\ main.concurrency = Cardinality(Worker \ At("gone"))
    /\ main.pc \notin {"loop", "select", "collect"} => At("gone") = Worker

\* (where number n may be)
Somewhere(n) ==
    \/ msg[n] # "none"
    \/ \E j \in 1 .. Len(c) : c[j] = n
    \/ \E k \in Worker : Holds(k) /\ worker[k].n = n

\* ... and every number it has passed is somewhere.
NumbersKept ==
    /\ ~cancelled => main.quantity = Quantity
    /\ Clean => \A n \in Serial : n < main.i => Somewhere(n)
    /\ Clean /\ Worker # {} /\ main.pc \notin {"loop", "select"} => main.i >= main.quantity
    /\ main.pc = "ended" => w = 0

EchoInv == SlotsInv /\ EndsLast /\ WorkersCounted /\ NumbersKept

===============================================================================
