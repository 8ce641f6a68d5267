-------------------------------- MODULE NoCopy --------------------------------
(***************************************************************************)
(* The whole store: block services answering clients, the "file" messages, *)
(* and the chain service working behind them on the same database and the  *)
(* same objects.                                                           *)
(***************************************************************************)
EXTENDS ChainService

vars == <<dbVars, objects, serviceVars, job>>

Init ==
    /\ RepositoryInit
    /\ StorageInit(BlockId)
    /\ ServiceInit
    /\ ChainInit

PutAction(p) ==
    /\ PutFile(p) \/ PutStep(p) \/ PutError(p)
    /\ UNCHANGED job

DelAction(d) ==
    /\ \/ DeleteNothing(d) \/ DeleteFile(d) \/ DeleteUnanswered(d)
       \/ DeleteFails(d) \/ DeleteDeadlock(d) \/ DelStep(d)
    /\ UNCHANGED job

GetAction(g) ==
    /\ GetList(g) \/ GetStep(g)
    /\ UNCHANGED job

JobAction(p) ==
    JobStep(p) \/ LookupError(p) \/ LinkUnanswered(p) \/ Lose(p)

Crash == ChainCrash \/ (BlockCrash /\ UNCHANGED job)

AtRest ==
    /\ ServiceSettled
    /\ \A p \in PutReq : ~Running(p)

\* Every request has been answered and every message handled: the end.
Rest == AtRest /\ UNCHANGED vars

Next ==
    \/ \E p \in PutReq : PutAction(p) \/ JobAction(p)
    \/ \E d \in DelReq : DelAction(d)
    \/ \E g \in GetReq : GetAction(g)
    \/ Crash
    \/ Rest

Spec == Init /\ [][Next]_vars

\* A goroutine that can take a step does.  Clients need not ask, NATS need not
\* deliver, and nothing makes a failure happen.
Fairness ==
    /\ \A p \in PutReq : WF_vars(PutStep(p) /\ UNCHANGED job)
    /\ \A d \in DelReq : WF_vars(DelStep(d) /\ UNCHANGED job)
    /\ \A g \in GetReq : WF_vars(GetStep(g) /\ UNCHANGED job)
    /\ \A p \in PutReq : WF_vars(HandlerStep(p))

FairSpec == Spec /\ Fairness

-----------------------------------------------------------------------------
(* Types *)

\* Every variable has the shape its declaration says.
TypeOK ==
    /\ RepositoryTypeOK
    /\ StorageTypeOK(BlockId)
    /\ ServiceTypeOK
    /\ ChainTypeOK

-----------------------------------------------------------------------------
(* Safety *)

\* The upload a chain's links lead to.
Assembled(c) == [k \in DOMAIN links[c] |-> Origin(links[c][k])]

Linked(b) == \E c \in PutReq : LinksTo(c, b) # {}

\* Deduplication changes which blocks a chain is made of, never what they spell:
\* a chain that has links has one per block of its upload, and the k-th leads
\* to a block that was stored with the k-th content, although Lookup trusts
\* hashes that may collide and Compare and Link happen in different steps
\* (Chain.File, block_insert, block_update, block_delete).
ChainContent ==
    \A c \in PutReq : links[c] # <<>> => Assembled(c) = put[c].body

\* No block a chain is linked to has lost its object: Chain.File and Delete
\* purge only what no file needs any more.
NoLoss == \A b \in BlockId : Linked(b) => Stored(b)

\* Every file that was answered 201 and not replaced or deleted since can be
\* read: the objects of its blocks are in the store (README.md uploads files
\* and reads them back).
FilesReadable ==
    \A q \in Path : \A k \in DOMAIN FileSelect(q) : Stored(FileSelect(q)[k])

\* blocks.refer counts the links: block_insert, block_update and block_delete
\* keep it exact, so a row disappears exactly with its last link.
RefersExact ==
    \A b \in BlockId :
        blocks[b].refer = Cardinality({l \in PutReq \X (1 .. MaxBlocks) :
                                          l[2] \in LinksTo(l[1], b)})

Current(c) == \E q \in Path : files[q].chain = c

\* When nothing is running any more the store holds the blocks of the current
\* files and nothing else, but for what failed PUTs left: replaced chains are
\* broken, duplicates and freed blocks purged (put.go, Chain.File, Delete).
NothingLeftBehind ==
    AtRest =>
        \A b \in BlockId :
            Stored(b) <=> \/ \E c \in PutReq : Current(c) /\ LinksTo(c, b) # {}
                          \/ put[b[1]].pc = "failed" /\ b[2] <= put[b[1]].n

\* When nothing is running any more the rows and the objects agree: the store
\* holds the linked blocks and what failed PUTs left, whichever transaction the
\* server aborted in a deadlock of block_update with block_delete.
StoreMatchesRows ==
    AtRest =>
        \A b \in BlockId :
            Stored(b) <=> \/ Linked(b)
                          \/ put[b[1]].pc = "failed" /\ b[2] <= put[b[1]].n

\* Deduplication is complete: at rest no two blocks hold the same content.
DedupComplete ==
    AtRest =>
        \A a, b \in BlockId : Exists(a) /\ Exists(b) /\ Same(a, b) => a = b

\* DELETE answers 404 only when there was no file with content to delete:
\* delete.go:15 takes an empty list of block_delete for "not found", and a
\* current chain always has links to list, however many rows outlive them.
NotFoundMeansAbsent == \A d \in DelReq : del[d].status = "NotFound" => del[d].chain = None

\* The foreign keys never forbid to break a replaced chain: it is current for no
\* path, and a row that its links would count down to zero is linked by nobody
\* else, however the handlers moved links meanwhile (block_delete; only a
\* deadlock makes Break fail, while calls do not).
BreakAllowed == \A p \in PutReq : job[p].pc = "break" => CanDelete(Old(p), {})

\* A GET fails only when the file it is reading was replaced or removed since
\* it got the list of its blocks; deduplication alone never disturbs a reader.
ReadersUndisturbed ==
    \A g \in GetReq :
        get[g].pc = "broken" => files[get[g].path].chain # get[g].chain

-----------------------------------------------------------------------------
(* Why a client sees a map of files: an inductive invariant.               *)

\* Where a PUT is in its upload; what it has stored never changes again.
PutShape ==
    \A p \in PutReq :
        /\ put[p].n <= Len(put[p].body)
        /\ put[p].pc = "idle" => put[p].n = 0
        /\ put[p].pc = "store" => put[p].n < Len(put[p].body)
        /\ put[p].pc \in {"update", "tx", "message", "done"} =>
                put[p].body # <<>> /\ put[p].n = Len(put[p].body)

Uploaded(b) == b[2] <= put[b[1]].n

\* An object holds what was uploaded under its id.
ObjectsFaithful ==
    \A b \in BlockId : Stored(b) => Uploaded(b) /\ objects[b] = Origin(b)

\* A linked chain was committed, and spells its upload.
Committed(p) == put[p].pc \in {"message", "done", "failed"}

ChainsFaithful ==
    \A c \in PutReq : links[c] # <<>> =>
        /\ Committed(c)
        /\ put[c].body # <<>>
        /\ DOMAIN links[c] = 1 .. Len(put[c].body)
        /\ \A k \in DOMAIN links[c] :
            /\ Uploaded(links[c][k])
            /\ Origin(links[c][k]) = put[c].body[k]

\* A current chain is a linked one: the foreign keys forbid to break it.
CurrentLinked ==
    \A q \in Path : files[q].chain # None => links[files[q].chain] # <<>>

\* A handler works on the blocks of an upload that is complete, and the block
\* it is about to link instead of its own holds the same.
AtBlock(p) == job[p].pc \in {"lookup", "compare", "link", "purge"}

JobsFaithful ==
    \A p \in PutReq :
        /\ p \in mail \/ AtBlock(p) \/ job[p].pc = "break" => put[p].pc = "done"
        /\ AtBlock(p) => job[p].i \in 1 .. put[p].n
        /\ job[p].pc = "break" => Old(p) # None
        /\ job[p].pc = "link" =>
                /\ job[p].new \in BlockId
                /\ Uploaded(job[p].new)
                /\ Origin(job[p].new) = Origin(Own(p))

\* A row was inserted by a PUT of its path, and a PUT that has yet to write its
\* file knows the row by the id of such a PUT.
RowsNamed ==
    /\ \A q \in Path : files[q].id # None =>
            put[files[q].id].pc # "idle" /\ put[files[q].id].path = q
    /\ \A p \in PutReq : put[p].pc \in {"store", "update", "tx"} =>
            /\ put[p].fid # None
            /\ put[put[p].fid].pc # "idle"
            /\ put[put[p].fid].path = put[p].path

\* A reader's list names uploaded blocks, and it has written the first of them.
ReadersFaithful ==
    \A g \in GetReq :
        /\ \A k \in DOMAIN get[g].list : Uploaded(get[g].list[k])
        /\ Len(get[g].out) <= Len(get[g].list)
        /\ \A k \in 1 .. Len(get[g].out) : get[g].out[k] = Origin(get[g].list[k])
        /\ get[g].pc = "idle" => get[g].list = <<>>
        /\ get[g].pc = "missing" => get[g].list = <<>>
        /\ get[g].pc = "read" => Len(get[g].out) < Len(get[g].list)
        /\ get[g].pc = "ok" => Len(get[g].out) = Len(get[g].list)

IInv ==
    /\ TypeOK
    /\ PutShape
    /\ ObjectsFaithful
    /\ ChainsFaithful
    /\ CurrentLinked
    /\ JobsFaithful
    /\ ReadersFaithful
    /\ RowsNamed

-----------------------------------------------------------------------------
(* Liveness *)

\* The blocks of a file that was overwritten are given back: a handler that has
\* its message, however many of its blocks it gives up, comes to the chain that
\* was replaced and breaks it, or answers that it could not.  (Nothing makes NATS
\* deliver the message, and a Break that fails, as the victim of a deadlock say,
\* is not tried again: file.go:115-118.)
ReplacedIsBroken ==
    \A p, c \in PutReq :
        Running(p) /\ Old(p) = c ~> links[c] = <<>> \/ job[p].pc = "failed"

-----------------------------------------------------------------------------
(* Implementation of FileStore *)

FileOf(q) == IF files[q].chain = None THEN None ELSE Assembled(files[q].chain)

Wanted(g) == IF get[g].list = <<>> THEN None
             ELSE [k \in DOMAIN get[g].list |-> Origin(get[g].list[k])]

ReaderOf(g) ==
    [phase |-> IF get[g].pc = "read" THEN "reading" ELSE get[g].pc,
     want |-> Wanted(g),
     got |-> IF get[g].pc = "ok" THEN get[g].out ELSE None]

\* A PUT whose row was written is "ok" even before its handler ends.
WriterPhase(p) ==
    CASE put[p].pc \in {"idle", "failed"} -> put[p].pc
      [] put[p].pc \in {"store", "update", "tx"} -> "writing"
      [] OTHER -> "ok"

WriterOf(p) ==
    [phase |-> WriterPhase(p),
     path |-> put[p].path,
     body |-> IF put[p].body = <<>> THEN None ELSE put[p].body]

Answered == [NoContent |-> "ok", NotFound |-> "missing", InternalError |-> "failed"]

\* The answer is settled when the rows are gone, the objects are purged after.
RemoverOf(d) == IF del[d].pc = "idle" THEN "idle" ELSE Answered[del[d].status]

Files == INSTANCE FileStore WITH
    file <- [q \in Path |-> FileOf(q)],
    writer <- [p \in PutReq |-> WriterOf(p)],
    remover <- [d \in DelReq |-> RemoverOf(d)],
    reader <- [g \in GetReq |-> ReaderOf(g)]

\* Clients cannot tell nocopy from a plain map of files: every step of the
\* handlers and of the chain service is a step of FileStore or changes nothing
\* a client can see.
IsFileStore == Files!Spec

=============================================================================
