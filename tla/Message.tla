-------------------------------- MODULE Message --------------------------------
(***************************************************************************)
(* The addresses of a message (broker/message/message.go, builder.go): who *)
(* sent it, whom it is for, and the way back.  What it says is left out.   *)
(***************************************************************************)
EXTENDS Sequences, SequencesExt

CONSTANTS
    Id,        \* identifiers of messages: an answer keeps the one it answers
    Subject    \* names that services listen on

Type == {"Query", "Request", "Broadcast", "Answer", "Failure"}

Message ==
    [id : Id, type : Type, from : Subject, to : Subject, ret : Seq(Subject)]

NewMessage(id, type, from, to) ==
    [id |-> id, type |-> type, from |-> from, to |-> to, ret |-> <<>>]

\* The bit Answer is set in the numbers of these types.
IsAnswer(m) == m.type \in {"Answer", "Failure"}

WithError(m) == [m EXCEPT !.type = "Failure"]

\* A failure stays one.
Answer(m) ==
    [m EXCEPT !.type = IF @ = "Failure" THEN @ ELSE "Answer",
              !.from = m.to,
              !.to = m.from]

\* Slip: the sender of what is passed on is forgotten.
ForwardForgets(m, to) ==
    [m EXCEPT !.type = "Query", !.from = m.to, !.to = to]

\* What is passed on is a Query, whatever it was, and remembers its sender.
Forward(m, to) ==
    [m EXCEPT !.type = "Query",
              !.from = m.to,
              !.to = to,
              !.ret = Append(@, m.from)]

\* Only for a message with a way back.
Backward(m) ==
    [m EXCEPT !.from = m.to, !.to = Last(m.ret), !.ret = Front(m.ret)]

===============================================================================
