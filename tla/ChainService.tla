----------------------------- MODULE ChainService -----------------------------
(***************************************************************************)
(* The chain service, Chain.File of service/file.go: it deduplicates the   *)
(* blocks of a new chain and breaks the chain the new one replaced.  Every *)
(* "file" message runs in a goroutine of its own, concurrently with the    *)
(* others and with the HTTP handlers; a step is one call to the repository *)
(* or to the object store.                                                 *)
(***************************************************************************)
EXTENDS BlockService

VARIABLE job    \* job[p]: the handler of the message about chain p

\* A handler at the i-th block of its message, or with objects left to sweep.
JobAt(pc, i, left) ==
    [pc |-> pc, i |-> i, similar |-> {}, new |-> <<>>, left |-> left]

JobIdle == JobAt("idle", 0, {})

JobPC == {"idle", "lookup", "compare", "link", "purge", "break", "sweep", "done", "failed"}

Row == [id : BlockId, refer : Nat, rank : Nat]

Job == [pc : JobPC, i : 0 .. MaxBlocks, similar : SUBSET Row,
        new : BlockId \cup {<<>>}, left : SUBSET BlockId]

ChainTypeOK == job \in [PutReq -> Job]

ChainInit == job = [p \in PutReq |-> JobIdle]

\* The block of the message the loop is at, and the rest of the message.
Own(p) == <<p, job[p].i>>
Old(p) == put[p].old

\* Slips: one turn too many, and a replaced chain that is left alone.
AfterBlockPastEnd(p) ==
    IF job[p].i <= put[p].n
    THEN JobAt("lookup", job[p].i + 1, {})
    ELSE JobAt(IF Old(p) = None THEN "done" ELSE "break", 0, {})

AfterBlockNoBreak(p) ==
    IF job[p].i < put[p].n
    THEN JobAt("lookup", job[p].i + 1, {})
    ELSE JobAt("done", 0, {})

\* What follows the last turn of the loop; a chain that replaced none has only
\* itself (or itself and uuid.Nil, which block_delete knows nothing of).
AfterBlock(p) ==
    IF job[p].i < put[p].n
    THEN JobAt("lookup", job[p].i + 1, {})
    ELSE JobAt(IF Old(p) = None THEN "done" ELSE "break", 0, {})

\* The candidate is dropped; without another one the loop goes on.
WithSimilar(p, s) ==
    IF s = {} THEN AfterBlock(p)
    ELSE [job[p] EXCEPT !.pc = "compare", !.similar = s, !.new = <<>>]

-----------------------------------------------------------------------------
(* The message is handed over by the proxy, in no particular order.        *)
FileQuery(p) ==
    /\ p \in mail
    /\ mail' = mail \ {p}
    /\ job' = [job EXCEPT ![p] = JobAt("lookup", 1, {})]
    /\ UNCHANGED <<dbVars, objects, put, del, get>>

\* Slip: the own block is tried as well.
SimilarOrOwn(p) == BlockSelect(Digest[put[p].body[job[p].i]])

\* The rows to try: those listed before the own block, or all of them when the
\* own block is not listed.
Similar(p) ==
    {r \in BlockSelect(Digest[put[p].body[job[p].i]]) :
        /\ r.id # Own(p)
        /\ Exists(Own(p)) => Before(r, [refer |-> blocks[Own(p)].refer,
                                        rank |-> blocks[Own(p)].rank])}

Lookup(p) ==
    /\ job[p].pc = "lookup"
    /\ job' = [job EXCEPT ![p] = WithSimilar(p, Similar(p))]
    /\ UNCHANGED <<dbVars, objects, serviceVars>>

\* Repository.Lookup or the Load of the own block fails.
LookupError(p) ==
    /\ "error" \in Faults
    /\ job[p].pc = "lookup"
    /\ job' = [job EXCEPT ![p] = AfterBlock(p)]
    /\ UNCHANGED <<dbVars, objects, serviceVars>>

\* The next of the candidates, in the order of the list.
First(s) == {r \in s : \A t \in s \ {r} : Before(r, t)}

\* io.Compare of the two objects; an object that is not there makes a read
\* fail, and Compare answers false to that.
\* Slip: the hash is trusted.
SameHash(a, b) == Stored(a) /\ Stored(b)

Same(a, b) == Stored(a) /\ Stored(b) /\ objects[a] = objects[b]

\* Slip: one candidate that differs ends the search.
CompareOne(p) ==
    /\ job[p].pc = "compare"
    /\ \E r \in First(job[p].similar) :
        \/ /\ Same(Own(p), r.id)
           /\ job' = [job EXCEPT ![p] =
                   [@ EXCEPT !.pc = "link", !.new = r.id,
                          !.similar = job[p].similar \ {r}]]
        \/ /\ ~Same(Own(p), r.id)
           /\ job' = [job EXCEPT ![p] = AfterBlock(p)]
    /\ UNCHANGED <<dbVars, objects, serviceVars>>

Compare(p) ==
    /\ job[p].pc = "compare"
    /\ \E r \in First(job[p].similar) :
        LET rest == job[p].similar \ {r} IN
        \/ /\ Same(Own(p), r.id)
           /\ job' = [job EXCEPT ![p] =
                   [@ EXCEPT !.pc = "link", !.new = r.id, !.similar = rest]]
        \/ /\ ~Same(Own(p), r.id) \/ "error" \in Faults
           /\ job' = [job EXCEPT ![p] = WithSimilar(p, rest)]
    /\ UNCHANGED <<dbVars, objects, serviceVars>>

\* Repository.Link, which may find the candidate, or the link, gone.
Link(p) ==
    /\ job[p].pc = "link"
    /\ CanRelink(p, Own(p), job[p].new)
    /\ BlockUpdate(p, Own(p), job[p].new)
    /\ job' = [job EXCEPT ![p] =
            [@ EXCEPT !.pc = "purge", !.new = <<>>, !.similar = {}]]
    /\ UNCHANGED <<files, now, objects, serviceVars>>

\* Slip: the object is purged although Link failed.
LinkFailsPurge(p) ==
    /\ job[p].pc = "link"
    /\ ~CanRelink(p, Own(p), job[p].new)
    /\ job' = [job EXCEPT ![p].pc = "purge"]
    /\ UNCHANGED <<dbVars, objects, serviceVars>>

LinkFails(p) ==
    /\ job[p].pc = "link"
    /\ "error" \in Faults \/ ~CanRelink(p, Own(p), job[p].new)
    /\ job' = [job EXCEPT ![p] = WithSimilar(p, job[p].similar)]
    /\ UNCHANGED <<dbVars, objects, serviceVars>>

\* The transaction commits and the answer is lost: the loop goes on.
LinkUnanswered(p) ==
    /\ "reply" \in Faults
    /\ job[p].pc = "link"
    /\ CanRelink(p, Own(p), job[p].new)
    /\ BlockUpdate(p, Own(p), job[p].new)
    /\ job' = [job EXCEPT ![p] = WithSimilar(p, job[p].similar)]
    /\ UNCHANGED <<files, now, objects, serviceVars>>

\* Storage.Purge of the own block, whatever became of its row.
PurgeOwn(p) ==
    /\ job[p].pc = "purge"
    /\ \/ Purge(Own(p))
       \/ "error" \in Faults /\ UNCHANGED objects
    /\ job' = [job EXCEPT ![p] = AfterBlock(p)]
    /\ UNCHANGED <<dbVars, serviceVars>>

\* Repository.Break of the chain that was replaced; without its answer nobody
\* purges what it freed.
Break(p) ==
    /\ job[p].pc = "break"
    /\ CanDelete(Old(p), {})
    /\ BlockDelete(Old(p))
    /\ LET left == Ids(Deleted(Old(p))) IN
        \/ job' = [job EXCEPT ![p] =
                JobAt(IF left = {} THEN "done" ELSE "sweep", 0, left)]
        \/ "reply" \in Faults /\ job' = [job EXCEPT ![p] = JobAt("failed", 0, {})]
    /\ UNCHANGED <<files, now, objects, serviceVars>>

\* block_update locks a row of blocks and then links, block_delete links and
\* then blocks: both at work on one chain may wait for one another, as may two
\* block_delete of chains that share two blocks, and the server aborts one.
\* (For Link to be the victim is for it to come second and fail.)
Linking(c) ==
    job[c].pc = "link" /\ LinksTo(c, Own(c)) # {} /\ LinksTo(c, job[c].new) # {}

Shared(c, d) == {b \in BlockId : LinksTo(c, b) # {} /\ LinksTo(d, b) # {}}

\* Chain c is to be broken by a handler or by one of the DELETEs ds.
Dying(c, ds) ==
    \/ \E p \in PutReq : job[p].pc = "break" /\ Old(p) = c
    \/ \E d \in ds, q \in Path : del[d].pc = "idle" /\ files[q].chain = c

Deadlocks(c, ds) ==
    /\ c # None
    /\ \/ Linking(c)
       \/ \E d \in PutReq \ {c} : Dying(d, ds) /\ Cardinality(Shared(c, d)) > 1

\* The handler returns the error; nobody tries again.
BreakFails(p) ==
    /\ job[p].pc = "break"
    /\ "error" \in Faults \/ ~CanDelete(Old(p), {}) \/ Deadlocks(Old(p), DelReq)
    /\ job' = [job EXCEPT ![p] = JobAt("failed", 0, {})]
    /\ UNCHANGED <<dbVars, objects, serviceVars>>

Sweep(p) ==
    /\ job[p].pc = "sweep"
    /\ \E b \in job[p].left :
        LET left == job[p].left \ {b} IN
        /\ \/ Purge(b)
           \/ "error" \in Faults /\ UNCHANGED objects
        /\ job' = [job EXCEPT ![p] =
                [@ EXCEPT !.left = left, !.pc = IF left = {} THEN "done" ELSE "sweep"]]
    /\ UNCHANGED <<dbVars, serviceVars>>

\* DELETE is the victim: 500, and the file is still there.
DeleteDeadlock(d) ==
    /\ del[d].pc = "idle"
    /\ \E q \in Path :
        LET c == files[q].chain IN
        /\ Deadlocks(c, DelReq \ {d})
        /\ del' = [del EXCEPT ![d] =
                [@ EXCEPT !.pc = "done", !.chain = c, !.status = "InternalError"]]
    /\ UNCHANGED <<dbVars, objects, put, get, mail, job>>

-----------------------------------------------------------------------------
Running(p) == job[p].pc \notin {"idle", "done", "failed"}

\* The process stops in the middle of its jobs; NATS redelivers nothing.
ChainCrash ==
    /\ "crash" \in Faults
    /\ \E p \in PutReq : Running(p)
    /\ job' = [p \in PutReq |->
            IF Running(p) THEN JobAt("failed", 0, {}) ELSE job[p]]
    /\ UNCHANGED <<dbVars, objects, serviceVars>>

\* A message nobody receives: no proxy or no chain service is subscribed, or
\* the connection drops it.
Lose(p) ==
    /\ "lost" \in Faults
    /\ p \in mail
    /\ mail' = mail \ {p}
    /\ UNCHANGED <<dbVars, objects, put, del, get, job>>

\* What the handler does once it has the message.
HandlerStep(p) == \/ Lookup(p) \/ Compare(p)
                  \/ Link(p) \/ LinkFails(p) \/ PurgeOwn(p)
                  \/ Break(p) \/ BreakFails(p) \/ Sweep(p)

JobStep(p) == FileQuery(p) \/ HandlerStep(p)

=============================================================================
