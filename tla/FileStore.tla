------------------------------ MODULE FileStore -------------------------------
(***************************************************************************)
(* What nocopy promises to its clients: a map from paths to uploads.  A    *)
(* PUT replaces its file at one instant and at most once, a DELETE removes *)
(* a file at one instant, and a GET answers with the upload the file had   *)
(* at one instant; each may fail visibly instead.  Nothing else ever       *)
(* changes a file: no deduplication, no clean-up, no failure.              *)
(***************************************************************************)
CONSTANTS
    Path,       \* names of files
    Bodies,     \* what can be uploaded
    PutReq,     \* writers
    DelReq,     \* removers
    GetReq,     \* readers
    None        \* there is no such file

VARIABLES
    file,       \* file[q]: the upload stored under path q
    writer,     \* writer[p]: its phase, and what it uploads where
    remover,    \* remover[d]: how far it is, or what it answered
    reader      \* reader[g]: its phase, what it is to return and what it returned

vars == <<file, writer, remover, reader>>

Writer == [phase : {"idle", "writing", "ok", "failed"},
           path : Path \cup {None}, body : Bodies \cup {None}]

Reader == [phase : {"idle", "reading", "ok", "missing", "broken"},
           want : Bodies \cup {None}, got : Bodies \cup {None}]

TypeOK ==
    /\ file \in [Path -> Bodies \cup {None}]
    /\ writer \in [PutReq -> Writer]
    /\ remover \in [DelReq -> {"idle", "ok", "missing", "failed"}]
    /\ reader \in [GetReq -> Reader]

Init ==
    /\ file = [q \in Path |-> None]
    /\ writer = [p \in PutReq |-> [phase |-> "idle", path |-> None, body |-> None]]
    /\ remover = [d \in DelReq |-> "idle"]
    /\ reader = [g \in GetReq |-> [phase |-> "idle", want |-> None, got |-> None]]

WriteBegin(p, q, s) ==
    /\ writer[p].phase = "idle"
    /\ writer' = [writer EXCEPT ![p] = [phase |-> "writing", path |-> q, body |-> s]]
    /\ UNCHANGED <<file, remover, reader>>

\* The answer may get lost on its way.
Write(p) ==
    /\ writer[p].phase = "writing"
    /\ file' = [file EXCEPT ![writer[p].path] = writer[p].body]
    /\ \E r \in {"ok", "failed"} : writer' = [writer EXCEPT ![p].phase = r]
    /\ UNCHANGED <<remover, reader>>

Remove(d, q) ==
    /\ remover[d] = "idle"
    /\ file' = [file EXCEPT ![q] = None]
    /\ \E r \in {IF file[q] = None THEN "missing" ELSE "ok", "failed"} :
        remover' = [remover EXCEPT ![d] = r]
    /\ UNCHANGED <<writer, reader>>

RemoveFail(d) ==
    /\ remover[d] = "idle"
    /\ remover' = [remover EXCEPT ![d] = "failed"]
    /\ UNCHANGED <<file, writer, reader>>

ReadBegin(g, q) ==
    /\ reader[g].phase = "idle"
    /\ reader' = [reader EXCEPT ![g] =
            [phase |-> IF file[q] = None THEN "missing" ELSE "reading",
             want |-> file[q], got |-> None]]
    /\ UNCHANGED <<file, writer, remover>>

ReadEnd(g) ==
    /\ reader[g].phase = "reading"
    /\ reader' = [reader EXCEPT ![g].phase = "ok", ![g].got = reader[g].want]
    /\ UNCHANGED <<file, writer, remover>>

\* Writers and readers fail, all those of a service together when it stops.  An
\* answer to a reader is cut short, never wrong; a writer that fails after it
\* was answered has still written.
Fail ==
    /\ \E P \in SUBSET PutReq :
        writer' = [p \in PutReq |->
                    IF p \in P THEN [writer[p] EXCEPT !.phase = "failed"] ELSE writer[p]]
    /\ \E G \in SUBSET {g \in GetReq : reader[g].phase \in {"idle", "reading"}} :
        reader' = [g \in GetReq |->
                    IF g \in G THEN [reader[g] EXCEPT !.phase = "broken"] ELSE reader[g]]
    /\ UNCHANGED <<file, remover>>

Next ==
    \/ \E p \in PutReq :
        Write(p) \/ \E q \in Path, s \in Bodies : WriteBegin(p, q, s)
    \/ \E d \in DelReq : RemoveFail(d) \/ \E q \in Path : Remove(d, q)
    \/ \E g \in GetReq : ReadEnd(g) \/ \E q \in Path : ReadBegin(g, q)
    \/ Fail

Spec == Init /\ [][Next]_vars

=============================================================================
