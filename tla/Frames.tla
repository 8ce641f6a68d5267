-------------------------------- MODULE Frames ---------------------------------
(***************************************************************************)
(* How a message is put on the wire and taken off it: Encode and Decode of *)
(* broker/message/message.go with the middleware of service/middleware.go. *)
(* A frame is a JSON array: the envelope, one part per middleware of the   *)
(* sender, the body.  The envelope names the middleware (use); the parts   *)
(* have no names: Decode tells them by their places.                       *)
(***************************************************************************)
EXTENDS Message, FiniteSets

CONSTANTS
    User,        \* whom Authorize lets a message speak for
    Algorithm,   \* hashes of Signature
    None         \* nobody ("" in Authorize), no algorithm

Authorize == [name |-> "!authorize", algorithm |-> None]
Signature(a) == [name |-> "!signature", algorithm |-> a]
Optional == [name |-> "optional", algorithm |-> None]

Middleware == {Authorize, Optional} \cup {Signature(a) : a \in Algorithm}

\* MandatoryMiddlewarePrefix.
Mandatory(w) == w.name \in {"!authorize", "!signature"}

NamesOf(ws) == {w.name : w \in ToSet(ws)}

\* Slip: the user of the context is not looked up.
EncodePartDefault(w, user) ==
    [name |-> w.name, value |-> IF w.name = "!signature" THEN w.algorithm ELSE None]

\* What w writes: the user of the context, or its algorithm.
EncodePart(w, user) ==
    [name |-> w.name,
     value |-> CASE w.name = "!authorize" -> user
                 [] w.name = "!signature" -> w.algorithm
                 [] OTHER -> None]

\* Answers and failures carry no middleware.  The header is a hash of all that
\* was written, by the algorithm of the signature.
Encode(ws, user, m) ==
    LET use == IF IsAnswer(m) THEN <<>> ELSE ws IN
    [msg |-> m,
     use |-> NamesOf(use),
     parts |-> [k \in DOMAIN use |-> EncodePart(use[k], user)],
     digest |-> {w.algorithm : w \in {x \in ToSet(use) : x.name = "!signature"}}]

\* The middleware of the receiver that the sender used, too ...
Expected(ws, f) == {k \in DOMAIN ws : ws[k].name \in f.use}

\* ... is given the parts in its own order.
Part(ws, f, k) == f.parts[Cardinality({j \in Expected(ws, f) : j <= k})]

\* Slip: middleware is mandatory only for those who use it.
MandatoryMissingNever(ws, f) == FALSE

MandatoryMissing(ws, f) ==
    /\ ~IsAnswer(f.msg)
    /\ \E w \in ToSet(ws) : Mandatory(w) /\ w.name \notin f.use

\* A part of another middleware is valid JSON and leaves w as it was.
DecodeFails(w, p, f) ==
    /\ w.name = "!signature"
    /\ \/ p.name = w.name /\ p.value # w.algorithm
       \/ w.algorithm \notin f.digest

\* Decode: one part for each expected middleware, then the body, and no more.
\* (No frame is shorter: a stack has no name twice.)
Accepts(ws, f) ==
    /\ ~MandatoryMissing(ws, f)
    /\ Len(f.parts) = Cardinality(Expected(ws, f))
    /\ \A k \in Expected(ws, f) : ~DecodeFails(ws[k], Part(ws, f, k), f)

\* The user in the context that Decode returns.
UserIn(ws, f) ==
    LET ks == {k \in Expected(ws, f) :
                    ws[k] = Authorize /\ Part(ws, f, k).name = ws[k].name}
    IN IF ks = {} THEN None ELSE Part(ws, f, CHOOSE k \in ks : TRUE).value

===============================================================================
