----------------------------- MODULE BlockService -----------------------------
(***************************************************************************)
(* The HTTP handlers of the block service: service/put.go, service/get.go  *)
(* and service/delete.go.  Each request is a process of its own (net/http  *)
(* runs a goroutine per request); a step is one call to the repository, to *)
(* the object store or to the broker, because handlers share no memory and *)
(* interleave only at these calls.                                         *)
(***************************************************************************)
EXTENDS Repository, Storage

CONSTANTS
    DelReq,     \* DELETE requests
    GetReq,     \* GET requests
    Bodies,     \* uploads, as the sequence of the blocks they are cut into
    Short,      \* the contents shorter than Block.Size
    Digest,     \* the hash and size of a content
    MaxOpen,    \* connections of the pool (max_open of the URL, 12 by default)
    Faults      \* which failures happen

ASSUME DigestAssumption == Digest \in [Content -> Hash]
ASSUME ShortAssumption == Short \subseteq Content
\* put.go:33: a block shorter than Block.Size, possibly empty, ends the upload.
ASSUME BodiesAssumption ==
    /\ Bodies \subseteq Seq(Content)
    /\ \A s \in Bodies : /\ Len(s) \in 1 .. MaxBlocks
                         /\ \A k \in 1 .. Len(s) : s[k] \in Short <=> k = Len(s)
    /\ None \notin Bodies
ASSUME SwitchesAssumption ==
    /\ MaxOpen \in Nat \ {0}
    /\ Faults \subseteq {"error", "reply", "lost", "crash"}

VARIABLES
    put,    \* put[p]: a PUT: its locals, and body, the upload it was sent
    del,    \* del[d]: a DELETE: the chain it found, the blocks left to purge
    get,    \* get[g]: a GET: its block list, and what it has written so far
    mail    \* the chain ids of the "file" messages on their way

serviceVars == <<put, del, get, mail>>

NoRank == [k \in 1 .. MaxBlocks |-> 0]

PutIdle == [pc |-> "idle", path |-> None, fid |-> None, body |-> <<>>, n |-> 0,
            rank |-> NoRank, old |-> None]
DelIdle == [pc |-> "idle", chain |-> None, status |-> "none", left |-> {}]
GetIdle == [pc |-> "idle", path |-> None, chain |-> None, list |-> <<>>, out |-> <<>>]

PutPC == {"idle", "store", "update", "tx", "message", "done", "failed"}
GetPC == {"idle", "read", "ok", "missing", "broken"}

Put == [pc : PutPC, path : Path \cup {None}, fid : PutReq \cup {None},
        body : Bodies \cup {<<>>}, n : 0 .. MaxBlocks,
        rank : [1 .. MaxBlocks -> Nat], old : PutReq \cup {None}]
Delete == [pc : {"idle", "purge", "done"}, chain : PutReq \cup {None},
           status : {"none", "NoContent", "NotFound", "InternalError"}, left : SUBSET BlockId]
Get == [pc : GetPC, path : Path \cup {None}, chain : PutReq \cup {None},
        list : Seq(BlockId), out : Seq(Content)]

ServiceTypeOK ==
    /\ put \in [PutReq -> Put]
    /\ del \in [DelReq -> Delete]
    /\ get \in [GetReq -> Get]
    /\ mail \subseteq PutReq

ServiceInit ==
    /\ put = [p \in PutReq |-> PutIdle]
    /\ del = [d \in DelReq |-> DelIdle]
    /\ get = [g \in GetReq |-> GetIdle]
    /\ mail = {}

\* What block b was stored with: nothing but objects[b] survives of it in the
\* program, the upload is kept here to say what the program should preserve.
Origin(b) == put[b[1]].body[b[2]]

-----------------------------------------------------------------------------
(* PUT                                                                     *)

\* Repository.Put: the row of the file, before the first byte is stored.
PutFile(p) ==
    /\ put[p].pc = "idle"
    /\ \E q \in Path, s \in Bodies :
        /\ FileInsert(q, p)
        /\ put' = [put EXCEPT ![p] =
                [@ EXCEPT !.pc = "store", !.path = q, !.fid = FileId(q, p), !.body = s]]
    /\ UNCHANGED <<links, blocks, now, objects, del, get, mail>>

\* One turn of the loop: the next block under a fresh id, until a short one.
PutStore(p) ==
    /\ put[p].pc = "store"
    /\ LET k == put[p].n + 1
           x == put[p].body[k]
       IN /\ Store(<<p, k>>, x)
          /\ put' = [put EXCEPT ![p] =
                  [@ EXCEPT !.n = k,
                            !.pc = IF x \in Short THEN "update" ELSE "store"]]
    /\ UNCHANGED <<dbVars, del, get, mail>>

\* Repository.Update: the statement starts on a free connection and now() is
\* fixed, before it is known in which order such statements commit.
PutBegin(p) ==
    /\ put[p].pc = "update"
    /\ Cardinality({r \in PutReq : put[r].pc = "tx"}) < MaxOpen
    /\ DrawRanks
    /\ \E r \in RankDraws :
        put' = [put EXCEPT ![p] = [@ EXCEPT !.pc = "tx", !.rank = r]]
    /\ UNCHANGED <<files, links, blocks, objects, del, get, mail>>

Hashes(p) == [k \in 1 .. put[p].n |-> Digest[put[p].body[k]]]

\* The commit of block_insert; with "reply", its answer is lost and the client
\* gets 500 for a file that was replaced.
PutCommit(p) ==
    /\ put[p].pc = "tx"
    /\ \E q \in FilesWithId(put[p].fid) :
        /\ BlockInsert(q, p, Hashes(p), put[p].rank)
        /\ \E pc \in {"message"} \cup (IF "reply" \in Faults THEN {"failed"} ELSE {}) :
            put' = [put EXCEPT ![p] =
                    [@ EXCEPT !.pc = pc, !.rank = NoRank,
                              !.old = files[q].chain]]
    /\ UNCHANGED <<now, objects, del, get, mail>>

\* 'not found': the file was deleted since Repository.Put.  The handler
\* answers 500 and leaves its objects in the store.
PutNotFound(p) ==
    /\ put[p].pc = "tx"
    /\ FilesWithId(put[p].fid) = {}
    /\ put' = [put EXCEPT ![p] = [@ EXCEPT !.pc = "failed", !.rank = NoRank]]
    /\ UNCHANGED <<dbVars, objects, del, get, mail>>

\* 201 has been written; now the chain service is told, at most once.
PutMessage(p) ==
    /\ put[p].pc = "message"
    /\ put' = [put EXCEPT ![p].pc = "done"]
    /\ mail' = mail \cup {p}
    /\ UNCHANGED <<dbVars, objects, del, get>>

\* A call fails without effect: the client hangs up, the store or the
\* database reports an error, or (at "message") the broker does.
PutError(p) ==
    /\ "error" \in Faults
    /\ put[p].pc \in {"idle", "store", "update", "tx", "message"}
    /\ put' = [put EXCEPT ![p] = [@ EXCEPT !.pc = "failed", !.rank = NoRank]]
    /\ UNCHANGED <<dbVars, objects, del, get, mail>>

-----------------------------------------------------------------------------
(* DELETE                                                                  *)

\* len(blocks) == 0 of the list that file_delete returned.
DeleteStatus(list) == IF list = <<>> THEN "NotFound" ELSE "NoContent"

\* file_delete of a path with no row, or with a row no PUT has completed: there
\* is no chain for block_delete, and no link.
DeleteNothing(d) ==
    /\ del[d].pc = "idle"
    /\ \E q \in Path :
        /\ files[q].chain = None
        /\ FileRemove(q)
    /\ del' = [del EXCEPT ![d] = [@ EXCEPT !.pc = "done", !.status = DeleteStatus(<<>>)]]
    /\ UNCHANGED <<links, blocks, now, objects, put, get, mail>>

DeleteFile(d) ==
    /\ del[d].pc = "idle"
    /\ \E q \in Path :
        LET c == files[q].chain
            list == Deleted(c)
        IN /\ c # None
           /\ CanDelete(c, {q})
           /\ FileRemove(q)
           /\ BlockDelete(c)
           /\ del' = [del EXCEPT ![d] =
                   [pc |-> IF Ids(list) = {} THEN "done" ELSE "purge", chain |-> c,
                    status |-> DeleteStatus(list), left |-> Ids(list)]]
    /\ UNCHANGED <<now, objects, put, get, mail>>

\* It commits and its answer is lost: 500, and nobody purges what it freed.
DeleteUnanswered(d) ==
    /\ "reply" \in Faults
    /\ del[d].pc = "idle"
    /\ \E q \in Path :
        LET c == files[q].chain IN
        /\ c # None
        /\ CanDelete(c, {q})
        /\ FileRemove(q)
        /\ BlockDelete(c)
        /\ del' = [del EXCEPT ![d] =
                [@ EXCEPT !.pc = "done", !.chain = c, !.status = "InternalError"]]
    /\ UNCHANGED <<now, objects, put, get, mail>>

\* An exception of the transaction, here a foreign key, answers 500.
DeleteFails(d) ==
    /\ del[d].pc = "idle"
    /\ \E q \in Path :
        LET c == files[q].chain IN
        /\ "error" \in Faults \/ (c # None /\ ~CanDelete(c, {q}))
        /\ del' = [del EXCEPT ![d] =
                [@ EXCEPT !.pc = "done", !.chain = c, !.status = "InternalError"]]
    /\ UNCHANGED <<dbVars, objects, put, get, mail>>

\* The rows are gone; their objects are removed one by one.  An error is
\* logged and the object stays for ever.
DeletePurge(d) ==
    /\ del[d].pc = "purge"
    /\ \E b \in del[d].left :
        LET left == del[d].left \ {b} IN
        /\ \/ Purge(b)
           \/ "error" \in Faults /\ UNCHANGED objects
        /\ del' = [del EXCEPT ![d] =
                [@ EXCEPT !.left = left, !.pc = IF left = {} THEN "done" ELSE "purge"]]
    /\ UNCHANGED <<dbVars, put, get, mail>>

-----------------------------------------------------------------------------
(* GET of a whole file                                                     *)

GetList(g) ==
    /\ get[g].pc = "idle"
    /\ \E q \in Path :
        get' = [get EXCEPT ![g] =
                [pc |-> IF FileSelect(q) = <<>> THEN "missing" ELSE "read",
                 path |-> q, chain |-> files[q].chain,
                 list |-> FileSelect(q), out |-> <<>>]]
    /\ UNCHANGED <<dbVars, objects, put, del, mail>>

NextRead(g) == get[g].list[Len(get[g].out) + 1]

GetBlock(g) ==
    /\ get[g].pc = "read"
    /\ Stored(NextRead(g))
    /\ LET out == Append(get[g].out, objects[NextRead(g)]) IN
        get' = [get EXCEPT ![g] =
                [@ EXCEPT !.out = out,
                          !.pc = IF Len(out) = Len(get[g].list) THEN "ok" ELSE "read"]]
    /\ UNCHANGED <<dbVars, objects, put, del, mail>>

\* The list cannot be had: 500.  Or the status line and the length are on the
\* wire already, and a block that cannot be read ends the answer short.
GetBroken(g) ==
    /\ \/ get[g].pc \in {"idle", "read"} /\ "error" \in Faults
       \/ get[g].pc = "read" /\ ~Stored(NextRead(g))
    /\ get' = [get EXCEPT ![g].pc = "broken"]
    /\ UNCHANGED <<dbVars, objects, put, del, mail>>

-----------------------------------------------------------------------------
\* The process stops: its transactions are rolled back and nothing it still
\* had to do is ever done, by it or by a later process.
BlockCrash ==
    /\ "crash" \in Faults
    /\ put' = [p \in PutReq |->
            IF put[p].pc \in {"store", "update", "tx", "message"}
            THEN [put[p] EXCEPT !.pc = "failed", !.rank = NoRank] ELSE put[p]]
    /\ del' = [d \in DelReq |->
            IF del[d].pc = "purge" THEN [del[d] EXCEPT !.pc = "done", !.left = {}]
            ELSE del[d]]
    /\ get' = [g \in GetReq |->
            IF get[g].pc = "read" THEN [get[g] EXCEPT !.pc = "broken"] ELSE get[g]]
    /\ put' # put \/ del' # del \/ get' # get
    /\ UNCHANGED <<dbVars, objects, mail>>

PutStep(p) == \/ PutStore(p) \/ PutBegin(p) \/ PutCommit(p)
              \/ PutNotFound(p) \/ PutMessage(p)
DelStep(d) == DeletePurge(d)
GetStep(g) == GetBlock(g) \/ GetBroken(g)

ServiceSettled ==
    /\ \A p \in PutReq : put[p].pc \in {"done", "failed"}
    /\ \A d \in DelReq : del[d].pc = "done"
    /\ \A g \in GetReq : get[g].pc \in {"ok", "missing", "broken"}
    /\ mail = {}

=============================================================================
