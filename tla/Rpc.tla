--------------------------------- MODULE Rpc ----------------------------------
(***************************************************************************)
(* What a request over the broker promises: it is served at most once, and *)
(* succeeds only with the result it was served.  It may fail for any       *)
(* reason, and be served after its caller gave up.                         *)
(***************************************************************************)
CONSTANTS Id, None

VARIABLES
    call,      \* call[i]: "idle", "called", "ok" or "failed"
    result     \* result[i]: "Answer" or "Failure" once served

vars == <<call, result>>

Init ==
    /\ call = [i \in Id |-> "idle"]
    /\ result = [i \in Id |-> None]

Call(i) ==
    /\ call[i] = "idle"
    /\ call' = [call EXCEPT ![i] = "called"]
    /\ UNCHANGED result

Serve(i) ==
    /\ call[i] # "idle"
    /\ result[i] = None
    /\ \E r \in {"Answer", "Failure"} : result' = [result EXCEPT ![i] = r]
    /\ UNCHANGED call

Succeed(i) ==
    /\ call[i] = "called"
    /\ result[i] = "Answer"
    /\ call' = [call EXCEPT ![i] = "ok"]
    /\ UNCHANGED result

\* A process that dies fails all its calls at once.
Fail ==
    /\ \E I \in SUBSET {i \in Id : call[i] = "called"} :
        call' = [i \in Id |-> IF i \in I THEN "failed" ELSE call[i]]
    /\ UNCHANGED result

Next == Fail \/ \E i \in Id : Call(i) \/ Serve(i) \/ Succeed(i)

Spec == Init /\ [][Next]_vars

===============================================================================
