------------------------------ MODULE EchoProofs ------------------------------
(***************************************************************************)
(* The load generator keeps its books for every number of workers, of      *)
(* messages and of slots, whatever fails, gets lost or is cancelled.       *)
(***************************************************************************)
EXTENDS Echo, FiniteSetTheorems, TLAPS

-----------------------------------------------------------------------------
(* Counting workers and messages.                                          *)

LEMMA AtFinite ==
    ASSUME NEW a
    PROVE  IsFiniteSet(At(a)) /\ Cardinality(At(a)) \in Nat
<1>1. IsFiniteSet(At(a))
  BY EchoAssumption, FS_Subset DEF At
<1>2. QED
  BY <1>1, FS_CardinalityType

LEMMA OpenFinite == IsFiniteSet(Open) /\ Cardinality(Open) \in Nat
<1>1. IsFiniteSet(Serial)
  BY EchoAssumption, FS_Interval DEF Serial
<1>2. IsFiniteSet(Open)
  BY <1>1, FS_Subset DEF Open
<1>3. QED
  BY <1>2, FS_CardinalityType

LEMMA WorkerLeaves ==
    ASSUME NEW a, NEW k \in Worker, worker[k].pc = a, worker'[k].pc # a,
           \A l \in Worker : l # k => worker'[l] = worker[l],
           IsFiniteSet(At(a))
    PROVE  Cardinality(At(a)') = Cardinality(At(a)) - 1
<1>1. At(a)' = At(a) \ {k} /\ k \in At(a)
  BY DEF At
<1>2. QED
  BY <1>1, FS_RemoveElement

LEMMA WorkerEnters ==
    ASSUME NEW a, NEW k \in Worker, worker[k].pc # a, worker'[k].pc = a,
           \A l \in Worker : l # k => worker'[l] = worker[l],
           IsFiniteSet(At(a))
    PROVE  Cardinality(At(a)') = Cardinality(At(a)) + 1
<1>1. At(a)' = At(a) \cup {k} /\ k \notin At(a)
  BY DEF At
<1>2. QED
  BY <1>1, FS_AddElement

LEMMA WorkersStay ==
    ASSUME NEW a, \A l \in Worker : worker'[l].pc = a <=> worker[l].pc = a
    PROVE  At(a)' = At(a)
  BY DEF At

LEMMA MessageOpens ==
    ASSUME TypeOK, NEW n \in Serial, msg[n] = "none", msg' = [msg EXCEPT ![n] = "asked"]
    PROVE  Cardinality(Open') = Cardinality(Open) + 1
<1>1. Open' = Open \cup {n} /\ n \notin Open
  BY DEF Open, TypeOK
<1>2. QED
  BY <1>1, OpenFinite, FS_AddElement

LEMMA MessageCloses ==
    ASSUME TypeOK, NEW n \in Serial, msg[n] = "answered", msg' = [msg EXCEPT ![n] = "caught"]
    PROVE  Cardinality(Open') = Cardinality(Open) - 1
<1>1. Open' = Open \ {n} /\ n \in Open
  BY DEF Open, TypeOK
<1>2. QED
  BY <1>1, OpenFinite, FS_RemoveElement

LEMMA MessagesStay ==
    ASSUME \A n \in Serial : msg'[n] \in {"asked", "answered", "lost"}
                                <=> msg[n] \in {"asked", "answered", "lost"}
    PROVE  Open' = Open
  BY DEF Open

-----------------------------------------------------------------------------
(* Steps *)

\* Echo ends once, and then nothing happens any more.
LEMMA Steps ==
    ASSUME [Next]_vars
    PROVE  \/ UNCHANGED vars
           \/ /\ Alive
              /\ \/ Turn \/ Give \/ (\E k \in Worker : Collect(k)) \/ Collected
                 \/ Exit \/ Waited \/ Cancel
                 \/ \E k \in Worker : Take(k) \/ Slot(k) \/ Add(k) \/ Message(k) \/ MessageFails(k)
                 \/ \E n \in Serial : EchoQuery(n) \/ EchoReply(n) \/ Lose(n)
  BY DEF Next, MainStep, WorkerStep, Rest

\* What a step of the loop leaves alone.
LEMMA MainFields ==
    ASSUME TypeOK
    PROVE  /\ main.i \in Nat /\ main.quantity \in Nat /\ main.quantity <= Quantity
           /\ main.concurrency \in Int
           /\ Quantity \in Nat
           /\ Turn => /\ main.pc = "loop" /\ UNCHANGED <<worker, c, q, w, msg, cancelled>>
                      /\ main'.concurrency = main.concurrency
                      /\ \/ /\ ~More /\ main'.pc = "collect" /\ main'.i = main.i
                            /\ main'.quantity = main.quantity
                         \/ /\ More /\ cancelled /\ main'.pc = "loop"
                            /\ main'.i = main.i + 1 /\ main'.quantity = main.i
                         \/ /\ More /\ ~cancelled /\ main'.pc = "select"
                            /\ main'.i = main.i /\ main'.quantity = main.quantity
           /\ \A k \in Worker : Collect(k) =>
                /\ main'.quantity = main.quantity
                /\ main'.concurrency = main.concurrency - 1
                /\ \/ main.pc = "select" /\ main'.pc = "loop" /\ main'.i = main.i + 1
                   \/ main.pc = "collect" /\ main'.pc = "collect" /\ main'.i = main.i
           /\ Give => /\ main'.quantity = main.quantity
                      /\ main'.concurrency = main.concurrency
                      /\ main.pc = "select" /\ main'.pc = "loop" /\ main'.i = main.i + 1
           /\ Collected \/ Exit \/ Waited =>
                      /\ main'.quantity = main.quantity
                      /\ main'.concurrency = main.concurrency
                      /\ main'.i = main.i
<1>1. /\ main \in [pc : {"loop", "select", "collect", "wait", "ended", "exited", "panicked"},
                   i : Nat, quantity : 0 .. Quantity, concurrency : Int]
      /\ Quantity \in Nat
  BY EchoAssumption DEF TypeOK
<1>2. main.i \in Nat /\ main.quantity \in Nat /\ main.quantity <= Quantity
      /\ main.concurrency \in Int
  BY <1>1
<1>3. CASE Turn
  BY <1>1, <1>2, <1>3 DEF Turn, Collect, Give, Collected, Exit, Exits, Waited
<1>4. ASSUME NEW k \in Worker, Collect(k)
      PROVE  /\ main'.quantity = main.quantity
             /\ main'.concurrency = main.concurrency - 1
             /\ \/ main.pc = "select" /\ main'.pc = "loop" /\ main'.i = main.i + 1
                \/ main.pc = "collect" /\ main'.pc = "collect" /\ main'.i = main.i
  BY <1>1, <1>4 DEF Collect
<1>5. Give => /\ main'.quantity = main.quantity
              /\ main'.concurrency = main.concurrency
              /\ main.pc = "select" /\ main'.pc = "loop" /\ main'.i = main.i + 1
  BY <1>1 DEF Give
<1>6. Collected \/ Exit \/ Waited =>
              /\ main'.quantity = main.quantity
              /\ main'.concurrency = main.concurrency
              /\ main'.i = main.i
  BY <1>1 DEF Collected, Exit, Waited
<1>7. QED
  BY <1>1, <1>2, <1>3, <1>4, <1>5, <1>6

\* A step of a worker: its own record, and what else moves.
LEMMA WorkerFields ==
    ASSUME TypeOK, NEW k \in Worker,
           Take(k) \/ Slot(k) \/ Add(k) \/ Message(k) \/ MessageFails(k)
    PROVE  /\ main' = main /\ cancelled' = cancelled
           /\ \A l \in Worker : l # k => worker'[l] = worker[l]
           /\ worker' \in [Worker -> [pc : {"take", "slot", "add", "send", "report", "gone"},
                                      n : Nat, err : BOOLEAN]]
           /\ \/ /\ worker[k].pc = "take" /\ worker'[k].pc = "slot" /\ c # <<>>
                 /\ worker'[k].n = Head(c) /\ worker'[k].err = worker[k].err /\ c' = Tail(c)
                 /\ UNCHANGED <<q, w, msg>>
              \/ /\ worker[k].pc = "take" /\ worker'[k].pc = "report"
                 /\ c = <<>> /\ main.pc = "collect"
                 /\ worker'[k].n = worker[k].n /\ worker'[k].err = worker[k].err
                 /\ UNCHANGED <<c, q, w, msg>>
              \/ /\ worker[k].pc = "slot" /\ worker'[k].pc = "add"
                 /\ worker'[k].n = worker[k].n /\ worker'[k].err = worker[k].err
                 /\ q < Pressure /\ q' = q + 1
                 /\ UNCHANGED <<c, w, msg>>
              \/ /\ worker[k].pc = "add" /\ worker'[k].pc = "send"
                 /\ worker'[k].n = worker[k].n /\ worker'[k].err = worker[k].err
                 /\ w' = w + 1
                 /\ UNCHANGED <<c, q, msg>>
              \/ /\ worker[k].pc = "send" /\ worker'[k].pc = "take"
                 /\ worker'[k].n = worker[k].n /\ worker'[k].err = worker[k].err
                 /\ msg' = [msg EXCEPT ![worker[k].n] = "asked"]
                 /\ UNCHANGED <<c, q, w>>
              \/ /\ worker[k].pc = "send" /\ worker'[k].pc = "report"
                 /\ worker'[k].n = worker[k].n /\ worker'[k].err
                 /\ q' = q - 1 /\ w' = w - 1
                 /\ UNCHANGED <<c, msg>>
<1>0. /\ worker \in [Worker -> [pc : {"take", "slot", "add", "send", "report", "gone"},
                                n : Nat, err : BOOLEAN]]
      /\ c \in Seq(Serial) /\ Serial \subseteq Nat
  BY EchoAssumption DEF TypeOK, Serial
<1>1. CASE Take(k) /\ c # <<>>
  <2>0. c \in Seq(Serial) /\ c # <<>> => Head(c) \in Serial
    OBVIOUS
  <2>1. Head(c) \in Nat
    BY <1>0, <1>1, <2>0
  <2>2. /\ worker' = [worker EXCEPT ![k].pc = "slot", ![k].n = Head(c)]
        /\ worker[k].pc = "take" /\ c' = Tail(c)
        /\ UNCHANGED <<main, q, w, msg, cancelled>>
    BY <1>1 DEF Take
  <2>3. worker'[k] = [worker[k] EXCEPT !.pc = "slot", !.n = Head(c)]
    BY <1>0, <2>2
  <2>4. /\ worker'[k] \in [pc : {"take", "slot", "add", "send", "report", "gone"},
                           n : Nat, err : BOOLEAN]
        /\ worker'[k].pc = "slot" /\ worker'[k].n = Head(c) /\ worker'[k].err = worker[k].err
    BY <1>0, <2>1, <2>3
  <2>5. QED
    BY <1>0, <1>1, <2>2, <2>4
<1>2. CASE Take(k) /\ c = <<>>
  BY <1>0, <1>2 DEF Take
<1>3. CASE Slot(k)
  BY <1>0, <1>3 DEF Slot
<1>4. CASE Add(k)
  BY <1>0, <1>4 DEF Add
<1>5. CASE Message(k)
  BY <1>0, <1>5 DEF Message
<1>6. CASE MessageFails(k)
  BY <1>0, <1>6 DEF MessageFails, Release
<1>7. QED
  BY <1>1, <1>2, <1>3, <1>4, <1>5, <1>6

LEMMA CollectFields ==
    ASSUME TypeOK, NEW k \in Worker, Collect(k)
    PROVE  /\ \A l \in Worker : l # k => worker'[l] = worker[l]
           /\ worker' \in [Worker -> [pc : {"take", "slot", "add", "send", "report", "gone"},
                                      n : Nat, err : BOOLEAN]]
           /\ worker[k].pc = "report" /\ worker'[k].pc = "gone"
           /\ worker'[k].err = worker[k].err
           /\ UNCHANGED <<c, q, w, msg, cancelled>>
  BY DEF Collect, TypeOK

LEMMA TypeOKStep ==
    ASSUME TypeOK, NumbersOnce, [Next]_vars
    PROVE  TypeOK'
<1>0. main.i \in Nat /\ main.quantity \in Nat /\ main.quantity <= Quantity /\ Quantity \in Nat
  BY MainFields
<1>1. CASE UNCHANGED vars
  BY <1>1 DEF vars, TypeOK
<1> DEFINE Main == [pc : {"loop", "select", "collect", "wait", "ended", "exited", "panicked"},
                    i : Nat, quantity : 0 .. Quantity, concurrency : Int]
<1>m. main \in Main /\ main.concurrency \in Int
  BY DEF TypeOK
<1>2. CASE Turn
  <2>1. CASE ~More
    BY <1>2, <2>1 DEF Turn, TypeOK
  <2>2. CASE More /\ cancelled
    <3>1. main' = [main EXCEPT !.quantity = main.i, !.i = main.i + 1]
      BY <1>2, <2>2 DEF Turn
    <3>2. main.i \in 0 .. Quantity /\ main.i + 1 \in Nat
      BY <1>0, <2>2 DEF More
    <3>3. main' \in Main
      BY <1>m, <3>1, <3>2
    <3>4. QED
      BY <1>2, <3>3 DEF Turn, TypeOK
  <2>3. CASE More /\ ~cancelled
    BY <1>2, <2>3 DEF Turn, TypeOK
  <2>4. QED
    BY <2>1, <2>2, <2>3
<1>3. CASE Give
  <2>1. main.i \in Serial
    BY <1>0, <1>3 DEF Give, NumbersOnce, Serial
  <2>2. c' \in Seq(Serial)
    BY <1>3, <2>1 DEF Give, TypeOK
  <2>3. main' = [main EXCEPT !.pc = "loop", !.i = main.i + 1]
    BY <1>3 DEF Give
  <2>4. main' \in Main
    <3>1. main' = [pc |-> "loop", i |-> main.i + 1, quantity |-> main.quantity,
                   concurrency |-> main.concurrency]
      BY <1>m, <2>3
    <3>2. main.quantity \in 0 .. Quantity /\ main.i + 1 \in Nat
      BY <1>0
    <3>3. QED
      BY <1>m, <3>1, <3>2
  <2>5. QED
    BY <1>3, <2>2, <2>4 DEF Give, TypeOK
<1>4. ASSUME NEW k \in Worker, Collect(k)
      PROVE  TypeOK'
  <2>1. CASE main.pc = "select"
    <3>1. main' = [main EXCEPT !.concurrency = main.concurrency - 1, !.i = main.i + 1,
                               !.pc = "loop"]
      BY <1>4, <2>1 DEF Collect
    <3>2. main' \in Main
      <4>1. main' = [pc |-> "loop", i |-> main.i + 1, quantity |-> main.quantity,
                     concurrency |-> main.concurrency - 1]
        BY <1>m, <3>1
      <4>2. main.quantity \in 0 .. Quantity /\ main.i + 1 \in Nat /\ main.concurrency - 1 \in Int
        BY <1>m, <1>0
      <4>3. QED
        BY <4>1, <4>2
    <3>3. QED
      BY <1>4, <3>2, CollectFields DEF TypeOK
  <2>2. CASE main.pc = "collect"
    <3>1. main' = [main EXCEPT !.concurrency = main.concurrency - 1, !.i = main.i,
                               !.pc = main.pc]
      BY <1>4, <2>2 DEF Collect
    <3>2. main' \in Main
      <4>1. main' = [pc |-> "collect", i |-> main.i, quantity |-> main.quantity,
                     concurrency |-> main.concurrency - 1]
        BY <1>m, <2>2, <3>1
      <4>2. main.quantity \in 0 .. Quantity /\ main.i \in Nat /\ main.concurrency - 1 \in Int
        BY <1>m, <1>0
      <4>3. QED
        BY <4>1, <4>2
    <3>3. QED
      BY <1>4, <3>2, CollectFields DEF TypeOK
  <2>3. QED
    BY <1>4, <2>1, <2>2 DEF Collect
<1>5. CASE Collected \/ Exit \/ Waited \/ Cancel
  BY <1>5 DEF Collected, Exit, Waited, Cancel, TypeOK
<1>6. ASSUME NEW k \in Worker,
             Take(k) \/ Slot(k) \/ Add(k) \/ Message(k) \/ MessageFails(k)
      PROVE  TypeOK'
  <2>0. /\ c \in Seq(Serial) /\ (c # <<>> => Tail(c) \in Seq(Serial))
        /\ q \in Int /\ w \in Int
    BY DEF TypeOK
  <2>1. c' \in {c, Tail(c)} /\ (c' = Tail(c) => c # <<>> \/ c' = c)
        /\ q' \in {q, q + 1, q - 1} /\ w' \in {w, w + 1, w - 1}
    BY <1>6, WorkerFields
  <2>2. c' \in Seq(Serial) /\ q' \in Int /\ w' \in Int
    BY <2>0, <2>1
  <2>3. msg' \in [Serial -> {"none", "asked", "answered", "caught", "lost"}]
    BY <1>6, WorkerFields DEF TypeOK
  <2>4. QED
    BY <1>6, <2>2, <2>3, WorkerFields DEF TypeOK
<1>7. ASSUME NEW n \in Serial, EchoQuery(n) \/ EchoReply(n) \/ Lose(n)
      PROVE  TypeOK'
  BY <1>7 DEF EchoQuery, EchoReply, Lose, Release, TypeOK
<1>8. QED
  BY <1>1, <1>2, <1>3, <1>4, <1>5, <1>6, <1>7, Steps

-----------------------------------------------------------------------------
(* No number twice.                                                        *)

LEMMA TailOf ==
    ASSUME NEW S, NEW s \in Seq(S), s # <<>>
    PROVE  /\ Head(s) = s[1] /\ 1 \in 1 .. Len(s)
           /\ Len(Tail(s)) = Len(s) - 1
           /\ \A j \in 1 .. Len(Tail(s)) : j + 1 \in 1 .. Len(s) /\ Tail(s)[j] = s[j + 1]
  OBVIOUS

\* It is enough that the loop goes forward and no worker gets a number.
LEMMA NumbersPassed ==
    ASSUME NumbersOnce, UNCHANGED <<c, msg>>,
           main'.pc = "select" => main'.i < main'.quantity,
           \A n \in Serial : n < main.i => n < main'.i,
           \A j \in 1 .. Len(c) : c[j] \in Serial,
           \A l \in Worker : Holds(l)' => Holds(l) /\ worker'[l].n = worker[l].n
    PROVE  NumbersOnce'
<1>1. /\ \A n \in Serial : msg'[n] # "none" => n < main'.i
      /\ \A j \in 1 .. Len(c') : c'[j] < main'.i /\ msg'[c'[j]] = "none"
      /\ \A j, l \in 1 .. Len(c') : c'[j] = c'[l] => j = l
  BY DEF NumbersOnce
<1>2. ASSUME NEW k \in Worker, Holds(k)'
      PROVE  /\ worker'[k].n \in Serial /\ worker'[k].n < main'.i /\ msg'[worker'[k].n] = "none"
             /\ \A j \in 1 .. Len(c') : c'[j] # worker'[k].n
             /\ \A l \in Worker : Holds(l)' /\ worker'[l].n = worker'[k].n => l = k
  BY <1>2 DEF NumbersOnce
<1>3. QED
  BY <1>1, <1>2 DEF NumbersOnce

LEMMA NumbersOnceStep ==
    ASSUME TypeOK, NumbersOnce, [Next]_vars
    PROVE  NumbersOnce'
<1>0. /\ main.i \in Nat /\ main.quantity \in Nat /\ c \in Seq(Serial) /\ Len(c) \in Nat
      /\ \A k \in Worker : worker[k].n \in Nat
      /\ \A j \in 1 .. Len(c) : c[j] \in Serial
      /\ \A n \in Serial : n \in Nat
  BY MainFields, EchoAssumption DEF TypeOK, Serial
<1>1. CASE UNCHANGED vars
  BY <1>1 DEF vars, NumbersOnce, Holds
<1>2. CASE Turn
  <2>1. /\ UNCHANGED <<worker, c, msg>> /\ main'.i >= main.i /\ main'.i \in Nat
        /\ main'.pc = "select" => main'.i < main'.quantity
    BY <1>0, <1>2, MainFields DEF More
  <2>2. \A n \in Serial : n < main.i => n < main'.i
    BY <1>0, <2>1
  <2>3. QED
    BY <1>0, <2>1, <2>2, NumbersPassed DEF Holds
<1>3. CASE Give
  <2>1. /\ main.i \in Serial /\ UNCHANGED <<worker, msg>>
        /\ main'.pc = "loop" /\ main'.i = main.i + 1
        /\ c' = Append(c, main.i)
    BY <1>0, <1>3, MainFields DEF Give, NumbersOnce, Serial
  <2>2. /\ Len(c') = Len(c) + 1 /\ c'[Len(c) + 1] = main.i
        /\ \A j \in 1 .. Len(c) : c'[j] = c[j]
    BY <1>0, <2>1
  <2>3. msg[main.i] = "none"
    BY <1>0, <2>1 DEF NumbersOnce
  <2>4. \A j \in 1 .. Len(c') :
          \/ j \in 1 .. Len(c) /\ c'[j] = c[j]
          \/ j = Len(c) + 1 /\ c'[j] = main.i
    BY <1>0, <2>2
  <2>5. \A n \in Serial : n < main.i => n # main.i /\ n < main'.i
    BY <1>0, <2>1
  <2>6. /\ \A n \in Serial : msg'[n] # "none" => n < main'.i
        /\ \A j \in 1 .. Len(c') : c'[j] < main'.i /\ msg'[c'[j]] = "none"
    BY <1>0, <2>1, <2>3, <2>4, <2>5 DEF NumbersOnce
  <2>7. \A j, l \in 1 .. Len(c') : c'[j] = c'[l] => j = l
    BY <1>0, <2>4, <2>5 DEF NumbersOnce
  <2>8. ASSUME NEW k \in Worker, Holds(k)'
        PROVE  /\ worker'[k].n \in Serial /\ worker'[k].n < main'.i /\ msg'[worker'[k].n] = "none"
               /\ \A j \in 1 .. Len(c') : c'[j] # worker'[k].n
               /\ \A l \in Worker : Holds(l)' /\ worker'[l].n = worker'[k].n => l = k
    <3>1. Holds(k) /\ \A l \in Worker : Holds(l)' <=> Holds(l)
      BY <2>1, <2>8 DEF Holds
    <3>2. /\ worker[k].n \in Serial /\ worker[k].n < main.i /\ msg[worker[k].n] = "none"
          /\ \A j \in 1 .. Len(c) : c[j] # worker[k].n
          /\ \A l \in Worker : Holds(l) /\ worker[l].n = worker[k].n => l = k
      BY <3>1 DEF NumbersOnce
    <3>3. worker[k].n # main.i /\ worker[k].n < main'.i
      BY <2>5, <3>2
    <3>4. \A j \in 1 .. Len(c') : c'[j] # worker[k].n
      BY <2>4, <3>2, <3>3
    <3>5. QED
      BY <2>1, <3>1, <3>2, <3>3, <3>4
  <2>9. QED
    BY <2>1, <2>6, <2>7, <2>8 DEF NumbersOnce
<1>4. ASSUME NEW k \in Worker, Collect(k)
      PROVE  NumbersOnce'
  <2>1. main'.pc # "select" /\ main'.i >= main.i /\ main'.i \in Nat
    BY <1>0, <1>4, MainFields
  <2>2. UNCHANGED <<c, msg>> /\ \A l \in Worker : Holds(l)' => Holds(l) /\ worker'[l].n = worker[l].n
    BY <1>4, CollectFields DEF Holds
  <2>3. \A n \in Serial : n < main.i => n < main'.i
    BY <1>0, <2>1
  <2>4. QED
    BY <1>0, <2>1, <2>2, <2>3, NumbersPassed
<1>5. CASE Collected \/ Exit \/ Waited \/ Cancel
  <2>1. UNCHANGED <<worker, c, msg>> /\ main'.i = main.i
    BY <1>5, MainFields DEF Collected, Exit, Waited, Cancel
  <2>2. main'.pc = "select" => main' = main
    BY <1>5 DEF Collected, Exit, Waited, Cancel, TypeOK
  <2>3. QED
    BY <2>1, <2>2 DEF NumbersOnce, Holds
<1>6. ASSUME NEW k \in Worker,
             Take(k) \/ Slot(k) \/ Add(k) \/ Message(k) \/ MessageFails(k)
      PROVE  NumbersOnce'
  <2>0. main' = main /\ \A l \in Worker : l # k => worker'[l] = worker[l]
    BY <1>6, WorkerFields
  <2>1. CASE /\ worker[k].pc = "take" /\ worker'[k].pc = "slot" /\ c # <<>>
             /\ worker'[k].n = Head(c) /\ c' = Tail(c) /\ msg' = msg
    <3>1. /\ Head(c) = c[1] /\ 1 \in 1 .. Len(c)
          /\ Len(c') = Len(c) - 1
          /\ \A j \in 1 .. Len(c') : j + 1 \in 1 .. Len(c) /\ c'[j] = c[j + 1]
      BY <1>0, <2>1, TailOf
    <3>2. \A j \in 1 .. Len(c') : /\ c'[j] # c[1] /\ c'[j] < main.i /\ msg[c'[j]] = "none"
                                  /\ \A l \in 1 .. Len(c') : c'[j] = c'[l] => j = l
      <4> SUFFICES ASSUME NEW j \in 1 .. Len(c')
                   PROVE  /\ c'[j] # c[1] /\ c'[j] < main.i /\ msg[c'[j]] = "none"
                          /\ \A l \in 1 .. Len(c') : c'[j] = c'[l] => j = l
        OBVIOUS
      <4>1. j \in Nat /\ j + 1 # 1
        BY <1>0, <3>1
      <4>2. c'[j] # c[1]
        BY <3>1, <4>1 DEF NumbersOnce
      <4>3. c'[j] < main.i /\ msg[c'[j]] = "none"
        BY <3>1 DEF NumbersOnce
      <4>4. ASSUME NEW l \in 1 .. Len(c'), c'[j] = c'[l]
            PROVE  j = l
        <5>1. j + 1 = l + 1
          BY <3>1, <4>4 DEF NumbersOnce
        <5>2. QED
          BY <1>0, <3>1, <5>1
      <4>5. QED
        BY <4>2, <4>3, <4>4
    <3>3. \A l \in Worker : Holds(l) => /\ worker[l].n # c[1]
                                       /\ \A j \in 1 .. Len(c') : c'[j] # worker[l].n
      BY <3>1 DEF NumbersOnce
    <3>4. worker'[k].n = c[1] /\ c[1] \in Serial /\ c[1] < main.i /\ msg[c[1]] = "none"
      BY <1>0, <2>1, <3>1 DEF NumbersOnce
    <3>5. \A l \in Worker \ {k} : (Holds(l)' <=> Holds(l)) /\ worker'[l].n = worker[l].n
      BY <2>0 DEF Holds
    <3>6. ~Holds(k)
      BY <2>1 DEF Holds
    <3>7. \A l \in Worker : Holds(l)' =>
            /\ worker'[l].n \in Serial /\ worker'[l].n < main.i /\ msg[worker'[l].n] = "none"
            /\ \A j \in 1 .. Len(c') : c'[j] # worker'[l].n
            /\ \A m \in Worker : Holds(m)' /\ worker'[m].n = worker'[l].n => m = l
      BY <3>2, <3>3, <3>4, <3>5, <3>6 DEF NumbersOnce
    <3>8. QED
      BY <2>0, <2>1, <3>2, <3>7 DEF NumbersOnce
  <2>2. CASE c' = c /\ msg' = msg /\ (Holds(k)' => Holds(k) /\ worker'[k].n = worker[k].n)
    <3>1. \A l \in Worker : Holds(l)' => Holds(l) /\ worker'[l].n = worker[l].n
      BY <2>0, <2>2 DEF Holds
    <3>2. QED
      BY <2>0, <2>2, <3>1 DEF NumbersOnce
  <2>3. CASE c' = c /\ Holds(k) /\ ~Holds(k)' /\ msg' = [msg EXCEPT ![worker[k].n] = "asked"]
    <3>1. \A l \in Worker : Holds(l)' => /\ Holds(l) /\ worker'[l].n = worker[l].n
                                         /\ worker[l].n # worker[k].n
      BY <2>0, <2>3 DEF Holds, NumbersOnce
    <3>2. worker[k].n \in Serial /\ worker[k].n < main.i
          /\ \A j \in 1 .. Len(c) : c[j] # worker[k].n
      BY <2>3 DEF NumbersOnce
    <3>3. \A n \in Serial : n # worker[k].n => msg'[n] = msg[n]
      BY <2>3 DEF TypeOK
    <3>4. QED
      BY <1>0, <2>0, <2>3, <3>1, <3>2, <3>3 DEF NumbersOnce
  <2>4. QED
    BY <1>6, <2>1, <2>2, <2>3, WorkerFields DEF Holds
<1>7. ASSUME NEW n \in Serial, EchoQuery(n) \/ EchoReply(n) \/ Lose(n)
      PROVE  NumbersOnce'
  <2>1. UNCHANGED <<main, worker, c>>
    BY <1>7 DEF EchoQuery, EchoReply, Lose
  <2>2. \A m \in Serial : msg'[m] = "none" <=> msg[m] = "none"
    BY <1>7 DEF EchoQuery, EchoReply, Lose, TypeOK
  <2>3. QED
    BY <1>0, <2>1, <2>2 DEF NumbersOnce, Holds
<1>8. QED
  BY <1>1, <1>2, <1>3, <1>4, <1>5, <1>6, <1>7, Steps

-----------------------------------------------------------------------------
(* Slots.                                                                  *)

LEMMA SlotsMatchStep ==
    ASSUME TypeOK, NumbersOnce, SlotsMatch, [Next]_vars
    PROVE  SlotsMatch'
<1> DEFINE O == Cardinality(Open)
           A == Cardinality(At("add"))
           S == Cardinality(At("send"))
<1>0. /\ q \in Int /\ w \in Int /\ Pressure \in Nat
      /\ O \in Nat /\ A \in Nat /\ S \in Nat
      /\ q = O + A + S /\ w = O + S /\ q <= Pressure
      /\ \A a : IsFiniteSet(At(a))
  BY EchoAssumption, OpenFinite, AtFinite DEF TypeOK, SlotsMatch
<1>1. ASSUME NEW dO \in Int, NEW dA \in Int, NEW dS \in Int,
             O' = O + dO, A' = A + dA, S' = S + dS,
             q' = q + dO + dA + dS, w' = w + dO + dS,
             q' <= q \/ (q < Pressure /\ q' = q + 1)
      PROVE  SlotsMatch'
  <2>1. /\ q' = O' + A' + S' /\ w' = O' + S'
        /\ q' <= Pressure
    BY <1>0, <1>1
  <2>2. QED
    BY <2>1 DEF SlotsMatch
<1> HIDE DEF O, A, S
<1>2. ASSUME \A k \in Worker : worker'[k].pc \in {"add", "send"} \/ worker[k].pc \in {"add", "send"}
                                  => worker'[k].pc = worker[k].pc,
             UNCHANGED <<q, w>>,
             \A n \in Serial : msg'[n] \in {"asked", "answered", "lost"}
                                  <=> msg[n] \in {"asked", "answered", "lost"}
      PROVE  SlotsMatch'
  <2>1. At("add")' = At("add") /\ At("send")' = At("send")
    BY <1>2, WorkersStay
  <2>2. Open' = Open
    BY <1>2, MessagesStay
  <2>3. O' = O + 0 /\ A' = A + 0 /\ S' = S + 0
    BY <1>0, <2>1, <2>2 DEF O, A, S
  <2>4. QED
    BY <1>0, <1>1, <1>2, <2>3
<1>3. CASE UNCHANGED vars
  BY <1>2, <1>3 DEF vars
<1>4. CASE Turn \/ Give \/ Collected \/ Exit \/ Waited \/ Cancel
  BY <1>2, <1>4 DEF Turn, Give, Collected, Exit, Waited, Cancel
<1>5. ASSUME NEW k \in Worker, Collect(k)
      PROVE  SlotsMatch'
  BY <1>2, <1>5, CollectFields
<1>6. ASSUME NEW k \in Worker,
             Take(k) \/ Slot(k) \/ Add(k) \/ Message(k) \/ MessageFails(k)
      PROVE  SlotsMatch'
  <2>0. \A l \in Worker : l # k => worker'[l] = worker[l]
    BY <1>6, WorkerFields
  <2>1. CASE /\ worker[k].pc \in {"take"} /\ worker'[k].pc \in {"slot", "report"}
             /\ UNCHANGED <<q, w, msg>>
    BY <1>2, <2>0, <2>1
  <2>2. CASE /\ worker[k].pc = "slot" /\ worker'[k].pc = "add"
             /\ q < Pressure /\ q' = q + 1 /\ UNCHANGED <<w, msg>>
    <3>1. A' = A + 1
      BY <1>0, <2>0, <2>2, WorkerEnters DEF A
    <3>2. At("send")' = At("send") /\ Open' = Open
      BY <2>0, <2>2, WorkersStay, MessagesStay
    <3>3. O' = O + 0 /\ S' = S + 0
      BY <1>0, <3>2 DEF O, S
    <3>4. QED
      BY <1>0, <1>1, <2>2, <3>1, <3>3
  <2>3. CASE /\ worker[k].pc = "add" /\ worker'[k].pc = "send"
             /\ w' = w + 1 /\ UNCHANGED <<q, msg>>
    <3>1. A' = A - 1 /\ S' = S + 1
      BY <1>0, <2>0, <2>3, WorkerEnters, WorkerLeaves DEF A, S
    <3>2. Open' = Open
      BY <2>3, MessagesStay
    <3>3. O' = O + 0 /\ A' = A + (-1)
      BY <1>0, <3>1, <3>2 DEF O
    <3>4. QED
      BY <1>0, <1>1, <2>3, <3>1, <3>3
  <2>4. CASE /\ worker[k].pc = "send" /\ worker'[k].pc = "take"
             /\ msg' = [msg EXCEPT ![worker[k].n] = "asked"] /\ UNCHANGED <<q, w>>
    <3>1. S' = S - 1
      BY <1>0, <2>0, <2>4, WorkerLeaves DEF S
    <3>2. worker[k].n \in Serial /\ msg[worker[k].n] = "none"
      BY <2>4 DEF NumbersOnce, Holds
    <3>3. O' = O + 1
      BY <2>4, <3>2, MessageOpens DEF O
    <3>4. At("add")' = At("add")
      BY <2>0, <2>4, WorkersStay
    <3>5. A' = A + 0 /\ S' = S + (-1)
      BY <1>0, <3>1, <3>4 DEF A
    <3>6. QED
      BY <1>0, <1>1, <2>4, <3>3, <3>5
  <2>5. CASE /\ worker[k].pc = "send" /\ worker'[k].pc = "report"
             /\ q' = q - 1 /\ w' = w - 1 /\ UNCHANGED msg
    <3>1. S' = S - 1
      BY <1>0, <2>0, <2>5, WorkerLeaves DEF S
    <3>2. At("add")' = At("add") /\ Open' = Open
      BY <2>0, <2>5, WorkersStay, MessagesStay
    <3>3. O' = O + 0 /\ A' = A + 0 /\ S' = S + (-1)
      BY <1>0, <3>1, <3>2 DEF O, A
    <3>4. QED
      BY <1>0, <1>1, <2>5, <3>3
  <2>6. QED
    BY <1>6, <2>1, <2>2, <2>3, <2>4, <2>5, WorkerFields
<1>7. ASSUME NEW n \in Serial, EchoQuery(n) \/ Lose(n)
      PROVE  SlotsMatch'
  BY <1>2, <1>7 DEF EchoQuery, Lose, TypeOK
<1>8. ASSUME NEW n \in Serial, EchoReply(n)
      PROVE  SlotsMatch'
  <2>1. /\ msg[n] = "answered" /\ msg' = [msg EXCEPT ![n] = "caught"]
        /\ q' = q - 1 /\ w' = w - 1 /\ UNCHANGED worker
    BY <1>8 DEF EchoReply, Release
  <2>2. O' = O - 1
    BY <2>1, MessageCloses DEF O
  <2>3. At("add")' = At("add") /\ At("send")' = At("send")
    BY <2>1, WorkersStay
  <2>4. O' = O + (-1) /\ A' = A + 0 /\ S' = S + 0
    BY <1>0, <2>2, <2>3 DEF A, S
  <2>5. QED
    BY <1>0, <1>1, <2>1, <2>4
<1>9. QED
  BY <1>3, <1>4, <1>5, <1>6, <1>7, <1>8, Steps

LEMMA SlotsInit ==
    ASSUME Init
    PROVE  SlotsInv
<1>1. Cardinality(Worker) \in Int
  BY EchoAssumption, FS_CardinalityType
<1>2. TypeOK
  <2>1. /\ Cardinality(Worker) \in Int /\ 0 \in 0 .. Quantity
        /\ "loop" \in {"loop", "select", "collect", "wait", "ended", "exited", "panicked"}
    BY <1>1, EchoAssumption
  <2>2. main \in [pc : {"loop", "select", "collect", "wait", "ended", "exited", "panicked"},
                  i : Nat, quantity : 0 .. Quantity, concurrency : Int]
    <3>1. Quantity \in 0 .. Quantity
      BY EchoAssumption
    <3>2. QED
      BY <2>1, <3>1 DEF Init
  <2>3. worker \in [Worker -> [pc : {"take", "slot", "add", "send", "report", "gone"},
                               n : Nat, err : BOOLEAN]]
    BY DEF Init
  <2>4. c \in Seq(Serial)
    BY DEF Init
  <2>5. q = 0 /\ w = 0 /\ cancelled = FALSE
    BY DEF Init
  <2>6. msg \in [Serial -> {"none", "asked", "answered", "caught", "lost"}]
    BY DEF Init
  <2>7. QED
    <3>1. q \in Int /\ w \in Int
      BY <2>5
    <3>2. cancelled \in BOOLEAN
      BY <2>5
    <3>3. QED
      BY <2>2, <2>3, <2>4, <3>1, <3>2, <2>6 DEF TypeOK
<1>3. NumbersOnce
  <2>1. /\ main.pc = "loop" /\ Len(c) = 0
        /\ \A n \in Serial : msg[n] = "none"
        /\ \A k \in Worker : ~Holds(k)
    BY DEF Init, Holds
  <2>2. 1 .. Len(c) = {}
    BY <2>1
  <2>3. QED
    BY <2>1, <2>2 DEF NumbersOnce
<1>4. Open = {} /\ At("add") = {} /\ At("send") = {}
  BY DEF Init, Open, At
<1>5. SlotsMatch
  <2>1. q = 0 /\ w = 0 /\ Pressure \in Nat
    BY EchoAssumption DEF Init
  <2>2. Cardinality(Open) = 0 /\ Cardinality(At("add")) = 0 /\ Cardinality(At("send")) = 0
    BY <1>4, FS_EmptySet
  <2>3. QED
    BY <2>1, <2>2 DEF SlotsMatch
<1>6. QED
  BY <1>2, <1>3, <1>5 DEF SlotsInv

\* However many workers and messages there are, whatever fails, gets lost or is
\* cancelled: a slot of the queue belongs to one message, or to one worker that
\* is sending, and there are never more than the flag pressure allows
\* (echo.go:34-38, 50-60).
THEOREM Slots == Spec => []SlotsMatch
<1>1. Init => SlotsInv
  BY SlotsInit
<1>2. SlotsInv /\ [Next]_vars => SlotsInv'
  BY TypeOKStep, NumbersOnceStep, SlotsMatchStep DEF SlotsInv
<1>3. SlotsInv => SlotsMatch
  BY DEF SlotsInv
<1>4. QED
  BY <1>1, <1>2, <1>3, PTL DEF Spec

-----------------------------------------------------------------------------
(* What has come back when Echo returns.                                   *)

\* An end without a failure comes after the loop.
LEMMA EndsLastStep ==
    ASSUME TypeOK, EndsLast, [Next]_vars
    PROVE  EndsLast'
<1>1. ASSUME \A k \in Worker : worker'[k].pc \in {"report", "gone"} /\ ~worker'[k].err =>
                worker[k].pc \in {"report", "gone"} /\ ~worker[k].err,
             main'.pc \in {"loop", "select"} => main.pc \in {"loop", "select"},
             c = <<>> => c' = <<>> \/ main.pc \in {"loop", "select"}
      PROVE  EndsLast'
  BY <1>1 DEF EndsLast
<1>2. CASE UNCHANGED vars
  BY <1>1, <1>2 DEF vars
<1>3. CASE Turn \/ Give \/ Collected \/ Exit \/ Waited \/ Cancel
  <2>1. worker' = worker
    BY <1>3 DEF Turn, Give, Collected, Exit, Waited, Cancel
  <2>2. main'.pc \in {"loop", "select"} => main.pc \in {"loop", "select"}
    BY <1>3 DEF Turn, Give, Collected, Exit, Waited, Cancel, TypeOK
  <2>3. c' = c \/ main.pc = "select"
    BY <1>3 DEF Turn, Give, Collected, Exit, Waited, Cancel
  <2>4. QED
    BY <1>1, <2>1, <2>2, <2>3
<1>4. ASSUME NEW k \in Worker, Collect(k)
      PROVE  EndsLast'
  <2>1. main'.pc \in {"loop", "select"} => main.pc \in {"loop", "select"}
    BY <1>4, MainFields
  <2>2. \A l \in Worker : worker'[l].pc \in {"report", "gone"} /\ ~worker'[l].err =>
            worker[l].pc \in {"report", "gone"} /\ ~worker[l].err
    BY <1>4, CollectFields
  <2>3. QED
    BY <1>1, <1>4, <2>1, <2>2, CollectFields
<1>5. ASSUME NEW k \in Worker,
             Take(k) \/ Slot(k) \/ Add(k) \/ Message(k) \/ MessageFails(k)
      PROVE  EndsLast'
  <2>0. main' = main /\ \A l \in Worker : l # k => worker'[l] = worker[l]
    BY <1>5, WorkerFields
  <2>1. CASE worker'[k].pc = "report" /\ c = <<>> /\ main.pc = "collect" /\ c' = c
    BY <2>0, <2>1 DEF EndsLast
  <2>2. CASE (worker'[k].pc \notin {"report", "gone"} \/ worker'[k].err) /\ (c' = c \/ c # <<>>)
    BY <1>1, <2>0, <2>2
  <2>3. QED
    BY <1>5, <2>1, <2>2, WorkerFields
<1>6. ASSUME NEW n \in Serial, EchoQuery(n) \/ EchoReply(n) \/ Lose(n)
      PROVE  EndsLast'
  BY <1>1, <1>6 DEF EchoQuery, EchoReply, Lose
<1>7. QED
  BY <1>2, <1>3, <1>4, <1>5, <1>6, Steps

LEMMA GoneFinite ==
    /\ IsFiniteSet(Worker \ At("gone"))
    /\ Cardinality(Worker \ At("gone")) \in Nat
    /\ Cardinality(Worker \ At("gone")) = 0 <=> At("gone") = Worker
<1>1. IsFiniteSet(Worker \ At("gone"))
  BY EchoAssumption, FS_Subset
<1>2. Worker \ At("gone") = {} <=> At("gone") = Worker
  BY DEF At
<1>3. QED
  BY <1>1, <1>2, FS_CardinalityType, FS_EmptySet

\* The loop knows how many workers have not reported.
LEMMA WorkersCountedStep ==
    ASSUME TypeOK, WorkersCounted, [Next]_vars
    PROVE  WorkersCounted'
<1>1. ASSUME \A k \in Worker : worker'[k].pc = "gone" <=> worker[k].pc = "gone",
             main'.concurrency = main.concurrency,
             \/ main'.pc \in {"loop", "select", "collect"}
             \/ main.pc \notin {"loop", "select", "collect"}
             \/ main.concurrency = 0
      PROVE  WorkersCounted'
  <2>1. At("gone")' = At("gone")
    BY <1>1, WorkersStay
  <2>2. QED
    BY <1>1, <2>1, GoneFinite DEF WorkersCounted
<1>2. CASE UNCHANGED vars
  BY <1>1, <1>2 DEF vars
<1>3. CASE Turn \/ Give \/ Collected \/ Exit \/ Waited \/ Cancel
  <2>1. worker' = worker
    BY <1>3 DEF Turn, Give, Collected, Exit, Waited, Cancel
  <2>2. main'.concurrency = main.concurrency
    BY <1>3, MainFields DEF Cancel
  <2>3. \/ main'.pc \in {"loop", "select", "collect"}
        \/ main.pc \notin {"loop", "select", "collect"}
        \/ main.concurrency = 0
    BY <1>3, MainFields DEF Collected, Exit, Exits, Waited, Cancel
  <2>4. QED
    BY <1>1, <2>1, <2>2, <2>3
<1>4. ASSUME NEW k \in Worker, Collect(k)
      PROVE  WorkersCounted'
  <2>1. /\ main'.concurrency = main.concurrency - 1
        /\ main'.pc \in {"loop", "select", "collect"}
    BY <1>4, MainFields
  <2>2. (Worker \ At("gone"))' = (Worker \ At("gone")) \ {k} /\ k \in Worker \ At("gone")
    BY <1>4, CollectFields DEF At
  <2>3. Cardinality((Worker \ At("gone"))') = Cardinality(Worker \ At("gone")) - 1
    BY <2>2, GoneFinite, FS_RemoveElement
  <2>4. QED
    BY <2>1, <2>3 DEF WorkersCounted
<1>5. ASSUME NEW k \in Worker,
             Take(k) \/ Slot(k) \/ Add(k) \/ Message(k) \/ MessageFails(k)
      PROVE  WorkersCounted'
  <2>1. /\ main' = main /\ \A l \in Worker : l # k => worker'[l] = worker[l]
        /\ worker[k].pc # "gone" /\ worker'[k].pc # "gone"
    BY <1>5, WorkerFields
  <2>2. QED
    BY <1>1, <2>1
<1>6. ASSUME NEW n \in Serial, EchoQuery(n) \/ EchoReply(n) \/ Lose(n)
      PROVE  WorkersCounted'
  BY <1>1, <1>6 DEF EchoQuery, EchoReply, Lose
<1>7. QED
  BY <1>2, <1>3, <1>4, <1>5, <1>6, Steps

\* What went wrong stays so.
LEMMA CleanBefore ==
    ASSUME TypeOK, [Next]_vars, Clean'
    PROVE  Clean
<1>1. CASE UNCHANGED vars
  BY <1>1 DEF vars, Clean
<1>2. CASE Turn \/ Give \/ Collected \/ Exit \/ Waited \/ Cancel
  BY <1>2 DEF Clean, Turn, Give, Collected, Exit, Waited, Cancel
<1>3. ASSUME NEW k \in Worker, Collect(k)
      PROVE  Clean
  <2>1. cancelled' = cancelled /\ \A l \in Worker : worker'[l].err = worker[l].err
    BY <1>3, CollectFields
  <2>2. QED
    BY <2>1 DEF Clean
<1>4. ASSUME NEW k \in Worker,
             Take(k) \/ Slot(k) \/ Add(k) \/ Message(k) \/ MessageFails(k)
      PROVE  Clean
  <2>1. cancelled' = cancelled /\ \A l \in Worker : ~worker'[l].err => ~worker[l].err
    BY <1>4, WorkerFields
  <2>2. QED
    BY <2>1 DEF Clean
<1>5. ASSUME NEW n \in Serial, EchoQuery(n) \/ EchoReply(n) \/ Lose(n)
      PROVE  Clean
  BY <1>5 DEF EchoQuery, EchoReply, Lose, Clean
<1>6. QED
  BY <1>1, <1>2, <1>3, <1>4, <1>5, Steps

\* A number that was given to a worker, sent or answered is not forgotten on the way.
LEMMA SomewhereStep ==
    ASSUME TypeOK, [Next]_vars, Clean', NEW n \in Serial, Somewhere(n)
    PROVE  Somewhere(n)'
<1>0. /\ c \in Seq(Serial) /\ Len(c) \in Nat
      /\ msg \in [Serial -> {"none", "asked", "answered", "caught", "lost"}]
  BY DEF TypeOK
<1>1. ASSUME UNCHANGED <<worker, c>>, msg'[n] = "none" => msg[n] = "none"
      PROVE  Somewhere(n)'
  BY <1>1 DEF Somewhere, Holds
<1>2. CASE UNCHANGED vars
  BY <1>1, <1>2 DEF vars
<1>3. CASE Turn \/ Collected \/ Exit \/ Waited \/ Cancel
  BY <1>1, <1>3 DEF Turn, Collected, Exit, Waited, Cancel
<1>4. CASE Give
  <2>1. /\ UNCHANGED <<worker, msg>> /\ Len(c') = Len(c) + 1
        /\ \A j \in 1 .. Len(c) : j \in 1 .. Len(c') /\ c'[j] = c[j]
    <3>1. c' = Append(c, main.i) /\ UNCHANGED <<worker, msg>>
      BY <1>4 DEF Give
    <3>2. QED
      BY <1>0, <3>1
  <2>2. QED
    BY <2>1 DEF Somewhere, Holds
<1>5. ASSUME NEW k \in Worker, Collect(k)
      PROVE  Somewhere(n)'
  <2>1. /\ UNCHANGED <<c, msg>>
        /\ \A l \in Worker : Holds(l) => worker'[l] = worker[l]
    BY <1>5, CollectFields DEF Holds
  <2>2. QED
    BY <2>1 DEF Somewhere, Holds
<1>6. ASSUME NEW k \in Worker,
             Take(k) \/ Slot(k) \/ Add(k) \/ Message(k) \/ MessageFails(k)
      PROVE  Somewhere(n)'
  <2>0. \A l \in Worker : l # k => worker'[l] = worker[l]
    BY <1>6, WorkerFields
  <2>1. CASE /\ worker[k].pc = "take" /\ worker'[k].pc = "slot" /\ c # <<>>
             /\ worker'[k].n = Head(c) /\ c' = Tail(c) /\ msg' = msg
    <3>1. ~Holds(k) /\ Holds(k)'
      BY <2>1 DEF Holds
    <3>2. \A l \in Worker : Holds(l) => Holds(l)' /\ worker'[l].n = worker[l].n
      BY <2>0, <3>1 DEF Holds
    <3>3. Head(c) = c[1] /\ Len(c') = Len(c) - 1
          /\ \A j \in 1 .. Len(c') : c'[j] = c[j + 1]
      BY <1>0, <2>1, TailOf
    <3>4. ASSUME NEW j \in 1 .. Len(c), c[j] = n
          PROVE  Somewhere(n)'
      <4>1. CASE j = 1
        BY <2>1, <3>1, <3>3, <3>4, <4>1 DEF Somewhere
      <4>2. CASE j # 1
        <5>1. j - 1 \in 1 .. Len(c') /\ c'[j - 1] = c[j]
          <6>1. j - 1 \in 1 .. Len(c') /\ (j - 1) + 1 = j
            BY <1>0, <3>3, <4>2
          <6>2. c'[j - 1] = c[(j - 1) + 1]
            BY <3>3, <6>1
          <6>3. QED
            BY <6>1, <6>2
        <5>2. QED
          BY <3>4, <5>1 DEF Somewhere
      <4>3. QED
        BY <4>1, <4>2
    <3>5. QED
      BY <2>1, <3>2, <3>4 DEF Somewhere
  <2>2. CASE c' = c /\ msg' = msg /\ (Holds(k) => Holds(k)' /\ worker'[k].n = worker[k].n)
    <3>1. \A l \in Worker : Holds(l) => Holds(l)' /\ worker'[l].n = worker[l].n
      BY <2>0, <2>2 DEF Holds
    <3>2. QED
      BY <2>2, <3>1 DEF Somewhere
  <2>3. CASE c' = c /\ worker[k].pc = "send" /\ msg' = [msg EXCEPT ![worker[k].n] = "asked"]
    <3>1. worker[k].n # n => \A l \in Worker : l # k /\ Holds(l) => Holds(l)' /\ worker'[l].n = worker[l].n
      BY <2>0 DEF Holds
    <3>2. worker[k].n = n => msg'[n] # "none"
      BY <1>0, <2>3
    <3>3. msg[n] # "none" => msg'[n] # "none"
      BY <1>0, <2>3
    <3>4. QED
      BY <2>3, <3>1, <3>2, <3>3 DEF Somewhere
  <2>4. CASE worker'[k].err
    BY <2>4 DEF Clean
  <2>5. QED
    BY <1>6, <2>1, <2>2, <2>3, <2>4, WorkerFields DEF Holds
<1>7. ASSUME NEW m \in Serial, EchoQuery(m) \/ EchoReply(m) \/ Lose(m)
      PROVE  Somewhere(n)'
  <2>1. UNCHANGED <<worker, c>> /\ (msg'[n] = "none" => msg[n] = "none")
    BY <1>0, <1>7 DEF EchoQuery, EchoReply, Lose
  <2>2. QED
    BY <1>1, <2>1
<1>8. QED
  BY <1>2, <1>3, <1>4, <1>5, <1>6, <1>7, Steps

LEMMA NumbersKeptStep ==
    ASSUME EchoInv, [Next]_vars
    PROVE  NumbersKept'
<1>0. /\ TypeOK /\ EndsLast /\ NumbersKept
      /\ main.concurrency = Cardinality(Worker \ At("gone"))
  BY DEF EchoInv, SlotsInv, WorkersCounted
<1>1. /\ main.i \in Nat /\ main.quantity \in Nat /\ c \in Seq(Serial) /\ Len(c) \in Nat
      /\ \A n \in Serial : n \in Nat
  BY <1>0, MainFields, EchoAssumption DEF TypeOK, Serial
<1>2. ASSUME Clean'
      PROVE  /\ Clean
             /\ \A n \in Serial : n < main.i => Somewhere(n)'
             /\ Worker # {} => /\ main.pc \notin {"loop", "select"} => main.i >= main.quantity
                               /\ main.pc \in {"loop", "select"} => main.concurrency # 0
  <2>1. Clean
    BY <1>0, <1>2, CleanBefore
  <2>2. \A n \in Serial : n < main.i => Somewhere(n)'
    BY <1>0, <1>2, <2>1, SomewhereStep DEF NumbersKept
  <2>3. main.pc \in {"loop", "select"} => At("gone") = {}
    BY <1>0, <2>1 DEF EndsLast, Clean, At
  <2>4. QED
    BY <1>0, <2>1, <2>2, <2>3, GoneFinite DEF NumbersKept
\* Enough for the steps that leave the loop alone.
<1>3. ASSUME main' = main, cancelled' = cancelled, main.pc # "ended" \/ w' = w
      PROVE  NumbersKept'
  <2>1. /\ ~cancelled' => main'.quantity = Quantity
        /\ main'.pc = "ended" => w' = 0
    BY <1>0, <1>3 DEF NumbersKept
  <2>2. Clean' => \A n \in Serial : n < main'.i => Somewhere(n)'
    BY <1>2, <1>3
  <2>3. Clean' /\ Worker # {} /\ main'.pc \notin {"loop", "select"} => main'.i >= main'.quantity
    BY <1>2, <1>3
  <2>4. QED
    BY <2>1, <2>2, <2>3 DEF NumbersKept
<1>4. CASE UNCHANGED vars
  BY <1>3, <1>4 DEF vars
<1>5. CASE Turn
  <2>1. /\ main.pc = "loop" /\ main'.pc # "ended" /\ cancelled' = cancelled
        /\ ~cancelled => main'.i = main.i /\ main'.quantity = main.quantity
        /\ ~cancelled /\ main'.pc \notin {"loop", "select"} => ~More
    BY <1>0, <1>5, MainFields
  <2>2. Clean' => ~cancelled
    BY <1>2 DEF Clean
  <2>3. Clean' => \A n \in Serial : n < main'.i => Somewhere(n)'
    BY <1>2, <2>1, <2>2
  <2>4. ASSUME Clean', Worker # {}, main'.pc \notin {"loop", "select"}
        PROVE  main'.i >= main'.quantity
    <3>1. ~More /\ main'.i = main.i /\ main'.quantity = main.quantity
      BY <2>1, <2>2, <2>4
    <3>2. main.concurrency > 0
      BY <1>0, <1>2, <2>1, <2>4, GoneFinite
    <3>3. QED
      BY <1>1, <3>1, <3>2 DEF More
  <2>5. QED
    BY <1>0, <2>1, <2>3, <2>4 DEF NumbersKept
<1>6. CASE Give
  <2>1. /\ main'.pc = "loop" /\ main'.i = main.i + 1 /\ main'.quantity = main.quantity
        /\ cancelled' = cancelled /\ c' = Append(c, main.i)
    BY <1>0, <1>6, MainFields DEF Give
  <2>2. Len(c) + 1 \in 1 .. Len(c') /\ c'[Len(c) + 1] = main.i
    BY <1>1, <2>1
  <2>3. \A n \in Serial : n < main'.i => n < main.i \/ n = main.i
    BY <1>1, <2>1
  <2>4. Clean' => \A n \in Serial : n < main'.i => Somewhere(n)'
    BY <1>2, <2>2, <2>3 DEF Somewhere
  <2>5. QED
    BY <1>0, <2>1, <2>4 DEF NumbersKept
<1>7. ASSUME NEW k \in Worker, Collect(k)
      PROVE  NumbersKept'
  <2>1. /\ worker[k].pc = "report" /\ main'.quantity = main.quantity
        /\ UNCHANGED <<cancelled>>
        /\ \/ main.pc = "select" /\ main'.pc = "loop"
           \/ main.pc = "collect" /\ main'.pc = "collect" /\ main'.i = main.i
    BY <1>0, <1>7, MainFields, CollectFields
  <2>2. Clean' => main.pc = "collect"
    BY <1>0, <1>2, <2>1 DEF EndsLast, Clean
  <2>3. Clean' => \A n \in Serial : n < main'.i => Somewhere(n)'
    BY <1>2, <2>1, <2>2
  <2>4. Clean' /\ Worker # {} /\ main'.pc \notin {"loop", "select"} => main'.i >= main'.quantity
    BY <1>2, <2>1, <2>2
  <2>5. QED
    BY <1>0, <2>1, <2>3, <2>4 DEF NumbersKept
<1>8. CASE Collected \/ Exit \/ Waited
  <2>1. /\ main'.i = main.i /\ main'.quantity = main.quantity /\ cancelled' = cancelled
        /\ main.pc \notin {"loop", "select"}
    BY <1>0, <1>8, MainFields DEF Collected, Exit, Exits, Waited
  <2>2. main'.pc = "ended" => w' = 0
    BY <1>0, <1>8 DEF Collected, Exit, Waited, TypeOK
  <2>3. Clean' => \A n \in Serial : n < main'.i => Somewhere(n)'
    BY <1>2, <2>1
  <2>4. Clean' /\ Worker # {} => main'.i >= main'.quantity
    BY <1>2, <2>1
  <2>5. QED
    BY <1>0, <2>1, <2>2, <2>3, <2>4 DEF NumbersKept
<1>9. CASE Cancel
  BY <1>0, <1>9 DEF Cancel, NumbersKept, Clean
<1>10. CASE /\ main.pc # "ended" /\ UNCHANGED <<main, cancelled>>
  BY <1>3, <1>10
<1>11. ASSUME NEW k \in Worker,
              Take(k) \/ Slot(k) \/ Add(k) \/ Message(k) \/ MessageFails(k)
       PROVE  UNCHANGED <<main, cancelled>>
  BY <1>0, <1>11, WorkerFields
<1>12. ASSUME NEW n \in Serial, EchoQuery(n) \/ EchoReply(n) \/ Lose(n)
       PROVE  UNCHANGED <<main, cancelled>>
  BY <1>12 DEF EchoQuery, EchoReply, Lose
<1>13. QED
  BY <1>4, <1>5, <1>6, <1>7, <1>8, <1>9, <1>10, <1>11, <1>12, Steps DEF Alive

LEMMA EchoInit ==
    ASSUME Init
    PROVE  EchoInv
<1>1. TypeOK /\ main.pc = "loop" /\ main.i = 0 /\ main.quantity = Quantity
      /\ main.concurrency = Cardinality(Worker)
      /\ \A k \in Worker : worker[k].pc = "take"
  BY SlotsInit DEF Init, SlotsInv
<1>2. EndsLast
  BY <1>1 DEF EndsLast
<1>3. Worker \ At("gone") = Worker
  BY <1>1 DEF At
<1>4. WorkersCounted
  BY <1>1, <1>3 DEF WorkersCounted
<1>5. \A n \in Serial : ~(n < main.i)
  BY <1>1, EchoAssumption DEF Serial
<1>6. NumbersKept
  BY <1>1, <1>5 DEF NumbersKept
<1>7. QED
  BY <1>2, <1>4, <1>6, SlotsInit DEF EchoInv

\* Nothing on its way, nothing in the channel, nothing with a worker: then every
\* number the loop has passed is back.
LEMMA Back ==
    ASSUME Worker # {}, EchoInv
    PROVE  AllCameBack
<1> SUFFICES ASSUME main.pc = "ended"
             PROVE  AllCameBack
  BY DEF AllCameBack
<1>0. /\ TypeOK /\ SlotsMatch /\ EndsLast /\ WorkersCounted /\ NumbersKept
      /\ Quantity \in Nat
  BY EchoAssumption DEF EchoInv, SlotsInv
<1>1. Open = {}
  <2>1. Cardinality(Open) = 0
    BY <1>0, OpenFinite, AtFinite DEF SlotsMatch, NumbersKept
  <2>2. QED
    BY <2>1, OpenFinite, FS_EmptySet
<1>2. \A n \in Serial : msg[n] \in {"none", "caught"}
  BY <1>0, <1>1 DEF Open, TypeOK
<1>3. ASSUME Clean
      PROVE  \A n \in Serial : msg[n] = "caught"
  <2>1. \A k \in Worker : worker[k].pc = "gone"
    BY <1>0 DEF WorkersCounted, At
  <2>2. c = <<>>
    BY <1>0, <1>3, <2>1 DEF EndsLast, Clean
  <2>3. 1 .. Len(c) = {}
    BY <2>2
  <2>4. \A n \in Serial : Somewhere(n) => msg[n] = "caught"
    BY <1>2, <2>1, <2>3 DEF Somewhere, Holds
  <2>5. main.i >= main.quantity /\ main.quantity = Quantity /\ main.i \in Nat
    BY <1>0, <1>3, MainFields DEF NumbersKept, Clean
  <2>6. \A n \in Serial : n < main.i
    BY <1>0, <2>5 DEF Serial
  <2>7. QED
    BY <1>0, <1>3, <2>4, <2>6 DEF NumbersKept
<1>4. QED
  BY <1>2, <1>3 DEF AllCameBack, Clean

\* With a worker at all, Echo returns only when no message is on its way, and
\* then every number was answered, unless it was cancelled or a worker failed
\* (echo.go:82-97).  Without one (concurrency 0) it returns at once.
THEOREM CameBack == Worker # {} => (Spec => []AllCameBack)
<1> SUFFICES ASSUME Worker # {}
             PROVE  Spec => []AllCameBack
  OBVIOUS
<1>1. Init => EchoInv
  BY EchoInit
<1>2. EchoInv /\ [Next]_vars => EchoInv'
  <2>1. ASSUME EchoInv, [Next]_vars
        PROVE  EchoInv'
    <3>1. TypeOK /\ NumbersOnce /\ SlotsMatch /\ EndsLast /\ WorkersCounted
      BY <2>1 DEF EchoInv, SlotsInv
    <3>2. SlotsInv'
      BY <2>1, <3>1, TypeOKStep, NumbersOnceStep, SlotsMatchStep DEF SlotsInv
    <3>3. EndsLast' /\ WorkersCounted' /\ NumbersKept'
      BY <2>1, <3>1, EndsLastStep, WorkersCountedStep, NumbersKeptStep
    <3>4. QED
      BY <3>2, <3>3 DEF EchoInv
  <2>2. QED
    BY <2>1
<1>3. EchoInv => AllCameBack
  BY Back
<1>4. QED
  BY <1>1, <1>2, <1>3, PTL DEF Spec

=============================================================================
