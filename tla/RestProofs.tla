------------------------------ MODULE RestProofs ------------------------------
(***************************************************************************)
(* What is left when nothing runs any more: the rows and the objects       *)
(* agree, and no two rows hold the same, for every set of requests, paths, *)
(* uploads and hashes, while PUTs commit one at a time.                    *)
(***************************************************************************)
EXTENDS DedupProofs

-----------------------------------------------------------------------------
(* How the record of a DELETE changes.                                     *)

LEMMA DeleteMoves ==
    ASSUME IInv, [Next]_vars, NEW d \in DelReq
    PROVE  \/ del'[d] = del[d]
           \/ /\ del[d].pc = "idle" /\ del'[d].pc = "done"
              /\ del'[d].left = del[d].left
              /\ "reply" \in Faults \/ UNCHANGED <<links, blocks>>
           \/ BlockCrash /\ "crash" \in Faults
           \/ /\ DeleteFile(d) /\ del[d].pc = "idle"
              /\ \E c \in PutReq :
                    /\ BlockDelete(c)
                    /\ del'[d].left = Freed(c)
              /\ del'[d].pc = IF del'[d].left = {} THEN "done" ELSE "purge"
           \/ /\ DeletePurge(d) /\ del[d].pc = "purge"
              /\ \E b \in del[d].left :
                    /\ del'[d].left = del[d].left \ {b}
                    /\ \A x \in BlockId : x # b => objects'[x] = objects[x]
                    /\ "error" \notin Faults => ~Stored(b)'
                    /\ del'[d].pc = IF del'[d].left = {} THEN "done" ELSE "purge"
<1>0. TypeOK /\ del \in [DelReq -> Delete] /\ del[d] \in Delete
  BY DEF IInv, TypeOK, ServiceTypeOK
<1>1. ASSUME NEW e \in DelReq, e # d,
             \/ DeleteNothing(e) \/ DeleteFile(e) \/ DeleteUnanswered(e)
             \/ DeleteFails(e) \/ DeleteDeadlock(e) \/ DeletePurge(e)
      PROVE  del'[d] = del[d]
  BY <1>0, <1>1 DEF DeleteNothing, DeleteFile, DeleteUnanswered, DeleteFails,
     DeleteDeadlock, DeletePurge
<1>2. CASE DeleteNothing(d)
  <2>1. /\ del' = [del EXCEPT ![d] = [@ EXCEPT !.pc = "done", !.status = DeleteStatus(<<>>)]]
        /\ del[d].pc = "idle" /\ UNCHANGED <<links, blocks>>
    BY <1>2 DEF DeleteNothing
  <2>2. QED
    BY <1>0, <2>1 DEF Delete
<1>3. CASE DeleteUnanswered(d) \/ DeleteFails(d) \/ DeleteDeadlock(d)
  <2>1. PICK q \in Path :
          del' = [del EXCEPT ![d] =
              [@ EXCEPT !.pc = "done", !.chain = files[q].chain, !.status = "InternalError"]]
    BY <1>3 DEF DeleteUnanswered, DeleteFails, DeleteDeadlock
  <2>2. del[d].pc = "idle" /\ ("reply" \in Faults \/ UNCHANGED <<links, blocks>>)
    BY <1>3 DEF DeleteUnanswered, DeleteFails, DeleteDeadlock, dbVars
  <2>3. QED
    BY <1>0, <2>1, <2>2 DEF Delete
<1>4. CASE DeleteFile(d)
  <2>1. PICK q \in Path :
          /\ files[q].chain # None /\ BlockDelete(files[q].chain)
          /\ del' = [del EXCEPT ![d] =
                [pc |-> IF Freed(files[q].chain) = {} THEN "done" ELSE "purge",
                 chain |-> files[q].chain,
                 status |-> DeleteStatus(Deleted(files[q].chain)),
                 left |-> Freed(files[q].chain)]]
    BY <1>4, IdsOfDeleted DEF DeleteFile
  <2>2. /\ del'[d].left = Freed(files[q].chain)
        /\ del'[d].pc = IF del'[d].left = {} THEN "done" ELSE "purge"
    BY <1>0, <2>1
  <2>3. QED
    BY <1>0, <1>4, <2>1, <2>2, CurrentType DEF DeleteFile
<1>5. CASE DeletePurge(d)
  <2>1. PICK b \in del[d].left :
          /\ Purge(b) \/ ("error" \in Faults /\ UNCHANGED objects)
          /\ del' = [del EXCEPT ![d] = [@ EXCEPT !.left = del[d].left \ {b},
                      !.pc = IF del[d].left \ {b} = {} THEN "done" ELSE "purge"]]
    BY <1>5 DEF DeletePurge
  <2>2. objects \in [BlockId -> Content \cup {NoObject}] /\ b \in BlockId
    BY <1>0 DEF IInv, TypeOK, StorageTypeOK, Delete
  <2>3. /\ \A x \in BlockId : x # b => objects'[x] = objects[x]
        /\ "error" \notin Faults => ~Stored(b)'
    BY <2>1, <2>2 DEF Purge, Stored
  <2>4. /\ del'[d].left = del[d].left \ {b}
        /\ del'[d].pc = IF del'[d].left = {} THEN "done" ELSE "purge"
    BY <1>0, <2>1 DEF Delete
  <2>5. QED
    BY <1>5, <2>3, <2>4 DEF DeletePurge
<1>6. CASE BlockCrash
  BY <1>6 DEF BlockCrash
<1>7. QED
  BY <1>1, <1>2, <1>3, <1>4, <1>5, <1>6, DeletesChange

-----------------------------------------------------------------------------
(* Who purges what.                                                        *)

\* An object disappears by the hand of somebody who was about to purge it.
LEMMA PurgedByPurger ==
    ASSUME IInv, [Next]_vars, NEW b \in BlockId, Stored(b), ~Stored(b)'
    PROVE  Purging(b)
<1>0. objects \in [BlockId -> Content \cup {NoObject}] /\ TypeOK /\ PutShape
  BY DEF IInv, TypeOK, StorageTypeOK
<1>1. ASSUME NEW p \in PutReq, PutStore(p)
      PROVE  FALSE
  <2>1. put[p] \in Put /\ put[p].n < Len(put[p].body) /\ put[p].n \in Nat
    BY <1>0, <1>1, PutFields DEF PutStore, PutShape, TypeOK, ServiceTypeOK
  <2>2. put[p].body \in Bodies /\ put[p].n + 1 \in 1 .. Len(put[p].body)
    BY <2>1, PutFields, BodyShape
  <2>3. put[p].body[put[p].n + 1] \in Content
    BY <2>2, BodyShape
  <2>4. QED
    BY <1>0, <1>1, <2>3, NoObjectAssumption DEF PutStore, Store, Stored
<1>2. ASSUME NEW a, Purge(a)
      PROVE  a = b
  BY <1>0, <1>2 DEF Purge, Stored
<1>3. objects' # objects
  BY DEF Stored
<1>4. ASSUME NEW p \in PutReq, PurgeOwn(p)
      PROVE  Purging(b)
  <2>1. Own(p) = b /\ job[p].pc = "purge" /\ b[1] = p
    BY <1>2, <1>3, <1>4 DEF PurgeOwn, Own
  <2>2. QED
    BY <2>1 DEF Purging
<1>5. ASSUME NEW p \in PutReq, Sweep(p)
      PROVE  Purging(b)
  BY <1>2, <1>3, <1>5 DEF Sweep, Purging
<1>6. ASSUME NEW d \in DelReq, DeletePurge(d)
      PROVE  Purging(b)
  BY <1>2, <1>3, <1>6 DEF DeletePurge, Purging
<1>7. QED
  BY <1>1, <1>3, <1>4, <1>5, <1>6, ObjectsChange

\* Whoever is about to purge a block stops only when the object is gone.
LEMMA PurgingEnds ==
    ASSUME IInv, MessageFirst, NothingForgotten, Steady, [Next]_vars,
           NEW b \in BlockId, Purging(b), Stored(b)'
    PROVE  Purging(b)'
<1>0. /\ TypeOK /\ job \in [PutReq -> Job] /\ b[1] \in PutReq
      /\ objects \in [BlockId -> Content \cup {NoObject}]
      /\ Faults \cap {"error", "reply", "crash"} = {}
  BY RowType DEF IInv, TypeOK, ChainTypeOK, StorageTypeOK, Steady
<1>1. CASE job[b[1]].pc = "purge" /\ Own(b[1]) = b
  <2> DEFINE p == b[1]
  <2>1. ~PurgeOwn(p)
    BY <1>0, <1>1 DEF PurgeOwn, Purge, Stored
  <2>2. ~ChainCrash
    BY <1>0 DEF ChainCrash
  <2>3. ~FileQuery(p)
    BY <1>0, <1>1 DEF FileQuery, MessageFirst
  <2>4. job'[p] = job[p]
    BY <1>0, <1>1, <2>1, <2>2, <2>3, JobMoves
  <2>5. QED
    BY <1>1, <2>4 DEF Purging, Own
<1>2. ASSUME NEW p \in PutReq, b \in job[p].left
      PROVE  Purging(b)'
  <2>1. job[p].pc = "sweep"
    BY <1>2 DEF NothingForgotten
  <2>2. ~ChainCrash
    BY <1>0 DEF ChainCrash
  <2>3. ~FileQuery(p)
    BY <2>1 DEF FileQuery, MessageFirst
  <2>4. job'[p] = job[p] \/ \E x \in job[p].left : /\ job'[p].left = job[p].left \ {x}
                                                     /\ ~Stored(x)'
    BY <1>0, <2>1, <2>2, <2>3, JobMoves
  <2>5. b \in job'[p].left
    BY <1>2, <2>4
  <2>6. QED
    BY <2>5 DEF Purging
<1>3. ASSUME NEW d \in DelReq, b \in del[d].left
      PROVE  Purging(b)'
  <2>1. del[d].pc = "purge"
    BY <1>3 DEF NothingForgotten
  <2>2. del'[d] = del[d] \/ \E x \in del[d].left : /\ del'[d].left = del[d].left \ {x}
                                                     /\ ~Stored(x)'
    BY <1>0, <2>1, DeleteMoves
  <2>3. b \in del'[d].left
    BY <1>3, <2>2
  <2>4. QED
    BY <2>3 DEF Purging
<1>4. QED
  BY <1>1, <1>2, <1>3 DEF Purging

LEMMA MessageFirstStep == IInv /\ MessageFirst /\ [Next]_vars => MessageFirst'
<1> SUFFICES ASSUME IInv, MessageFirst, [Next]_vars, NEW p \in PutReq,
                    put'[p].pc # "done" \/ p \in mail'
             PROVE  job'[p].pc = "idle"
  BY DEF MessageFirst
<1>0. TypeOK /\ PutShape
  BY DEF IInv
<1>1. put[p].pc # "done" \/ p \in mail
  <2>1. CASE put'[p].pc # "done"
    BY <1>0, <2>1, PutSteady
  <2>2. ASSUME NEW r \in PutReq, PutMessage(r), p \in mail'
        PROVE  put[p].pc # "done" \/ p \in mail
    BY <2>2 DEF PutMessage
  <2>3. ASSUME NEW r \in PutReq, FileQuery(r) \/ Lose(r), p \in mail'
        PROVE  p \in mail
    BY <2>3 DEF FileQuery, Lose
  <2>4. QED
    BY <2>1, <2>2, <2>3, MailChanges
<1>2. job[p].pc = "idle"
  BY <1>1 DEF MessageFirst
<1>3. ~FileQuery(p)
  <2>1. ASSUME FileQuery(p)
        PROVE  FALSE
    <3>1. put[p].pc = "done" /\ put' = put /\ p \notin mail'
      BY <2>1 DEF FileQuery, IInv, JobsFaithful
    <3>2. QED
      BY <3>1
  <2>2. QED
    BY <2>1
<1>4. CASE ChainCrash
  BY <1>0, <1>2, <1>4 DEF ChainCrash, Running, TypeOK, ChainTypeOK
<1>5. QED
  BY <1>2, <1>3, <1>4, JobMoves

LEMMA FreedExisted ==
    ASSUME IInv, SerialInv, NEW c \in PutReq, NEW b \in Freed(c)
    PROVE  b \in BlockId /\ Exists(b)
  BY DEF Freed, Linked, SerialInv, RowsFaithful

LEMMA PurgeMoves ==
    ASSUME IInv, [Next]_vars, NEW p \in PutReq, job'[p].pc = "purge"
    PROVE  job'[p] = job[p] \/ Link(p)
<1>1. ASSUME NEW s, WithSimilar(p, s).pc = "purge", AtBlock(p)
      PROVE  FALSE
  BY <1>1, WithSimilarFields, AfterBlockFields DEF WithSimilar
<1>2. QED
  BY <1>1, JobMoves, AfterBlockFields DEF AtBlock

\* Who begins to purge a block has just taken its row.
LEMMA PurgingBegins ==
    ASSUME IInv, SerialInv, [Next]_vars, NEW b \in BlockId, Purging(b)'
    PROVE  Purging(b) \/ Exists(b)
<1>0. TypeOK /\ job \in [PutReq -> Job] /\ del \in [DelReq -> Delete] /\ b[1] \in PutReq
  BY RowType DEF IInv, TypeOK, ChainTypeOK, ServiceTypeOK
<1>1. CASE job'[b[1]].pc = "purge" /\ Own(b[1])' = b
  <2> DEFINE p == b[1]
  <2>1. CASE job'[p] = job[p]
    BY <1>1, <2>1 DEF Purging, Own
  <2>2. CASE Link(p)
    <3>1. CanRelink(p, Own(p), job[p].new) /\ job[p].pc = "link"
      BY <2>2 DEF Link
    <3>2. job' = [job EXCEPT ![p] = [@ EXCEPT !.pc = "purge", !.new = <<>>, !.similar = {}]]
      BY <2>2 DEF Link
    <3>3. job'[p].i = job[p].i
      BY <1>0, <3>2 DEF Job
    <3>4. Own(p) = b
      BY <1>1, <3>3 DEF Own
    <3>5. QED
      BY <1>0, <3>1, <3>4, Relinks
  <2>3. QED
    BY <1>0, <1>1, <2>1, <2>2, PurgeMoves
<1>2. ASSUME NEW p \in PutReq, b \in job'[p].left
      PROVE  Purging(b) \/ Exists(b)
  <2>1. ASSUME NEW s, job'[p] = WithSimilar(p, s), AtBlock(p)
        PROVE  b \in job[p].left
    BY <1>2, <2>1, WithSimilarFields, AfterBlockFields DEF WithSimilar
  <2>2. \A s : AtBlock(p) /\ job'[p] = WithSimilar(p, s) => b \in job[p].left
    BY <2>1
  <2>3. ~(AtBlock(p) /\ job'[p] = AfterBlock(p))
    BY <1>2, AfterBlockFields
  <2>4. CASE b \in job[p].left
    BY <2>4 DEF Purging
  <2>5. CASE job[p].pc = "break" /\ job'[p].left \subseteq Freed(Old(p))
    BY <1>2, <2>5, BrokenType, FreedExisted
  <2>6. QED
    BY <1>2, <2>2, <2>3, <2>4, <2>5, JobMoves DEF AtBlock
<1>3. ASSUME NEW d \in DelReq, b \in del'[d].left
      PROVE  Purging(b) \/ Exists(b)
  <2>1. CASE b \in del[d].left
    BY <2>1 DEF Purging
  <2>2. CASE BlockCrash
    <3>1. del'[d] = IF del[d].pc = "purge" THEN [del[d] EXCEPT !.pc = "done", !.left = {}]
                    ELSE del[d]
      BY <2>2 DEF BlockCrash
    <3>2. b \in del[d].left
      BY <1>0, <1>3, <3>1 DEF Delete
    <3>3. QED
      BY <2>1, <3>2
  <2>3. ASSUME NEW c \in PutReq, del'[d].left = Freed(c)
        PROVE  Exists(b)
    BY <1>3, <2>3, FreedExisted
  <2>4. QED
    BY <1>3, <2>1, <2>2, <2>3, DeleteMoves
<1>4. QED
  BY <1>1, <1>2, <1>3 DEF Purging

\* Who takes a row begins to purge the object.
LEMMA TakenIsPurged ==
    ASSUME IInv, SerialInv, Steady, [Next]_vars, NEW b \in BlockId, Exists(b), ~Exists(b)'
    PROVE  Purging(b)'
<1>0. /\ TypeOK /\ PutShape /\ job \in [PutReq -> Job] /\ del \in [DelReq -> Delete]
      /\ "reply" \notin Faults
  BY DEF IInv, TypeOK, ChainTypeOK, ServiceTypeOK, Steady
<1>1. CASE UNCHANGED <<links, blocks>>
  BY <1>1 DEF Exists
<1>2. ASSUME NEW p \in PutReq, PutCommit(p)
      PROVE  FALSE
  <2>1. PICK q \in Path : BlockInsert(q, p, Hashes(p), put[p].rank)
    BY <1>2 DEF PutCommit, FilesWithId
  <2>2. put[p].pc = "tx" /\ ~Committed(p)
    BY <1>2 DEF PutCommit, Committed
  <2>3. b[1] # p
    BY <2>2 DEF SerialInv, RowsFaithful
  <2>4. blocks'[b] = blocks[b]
    BY <1>0, <2>1, <2>2, <2>3, InsertRow
  <2>5. QED
    BY <2>4 DEF Exists
<1>3. ASSUME NEW p \in PutReq, Link(p)
      PROVE  Purging(b)'
  <2>1. /\ CanRelink(p, Own(p), job[p].new) /\ BlockUpdate(p, Own(p), job[p].new)
        /\ job[p].pc = "link"
        /\ job' = [job EXCEPT ![p] = [@ EXCEPT !.pc = "purge", !.new = <<>>, !.similar = {}]]
    BY <1>3 DEF Link
  <2>2. b = Own(p)
    BY <1>0, <2>1, LinkType, UpdateRow DEF Exists
  <2>3. b[1] = p /\ Own(p)' = Own(p) /\ job'[p].pc = "purge"
    BY <1>0, <2>1, <2>2 DEF Own, Job
  <2>4. QED
    BY <2>2, <2>3 DEF Purging
<1>4. ASSUME NEW p \in PutReq, Break(p)
      PROVE  Purging(b)'
  <2>1. /\ BlockDelete(Old(p)) /\ job[p].pc = "break" /\ Old(p) \in PutReq
        /\ job' = [job EXCEPT ![p] =
                JobAt(IF Freed(Old(p)) = {} THEN "done" ELSE "sweep", 0, Freed(Old(p)))]
    BY <1>0, <1>4, BrokenType, IdsOfDeleted DEF Break
  <2>2. b \in Freed(Old(p))
    BY <1>0, <2>1, DeleteRow
  <2>3. job'[p].left = Freed(Old(p))
    BY <1>0, <2>1 DEF JobAt
  <2>4. QED
    BY <2>2, <2>3 DEF Purging
<1>5. ASSUME NEW d \in DelReq, DeleteFile(d)
      PROVE  Purging(b)'
  <2>1. PICK q \in Path :
          /\ files[q].chain # None /\ BlockDelete(files[q].chain)
          /\ del' = [del EXCEPT ![d] =
                [pc |-> IF Freed(files[q].chain) = {} THEN "done" ELSE "purge",
                 chain |-> files[q].chain,
                 status |-> DeleteStatus(Deleted(files[q].chain)),
                 left |-> Freed(files[q].chain)]]
    BY <1>5, IdsOfDeleted DEF DeleteFile
  <2>2. b \in Freed(files[q].chain)
    BY <1>0, <2>1, CurrentType, DeleteRow
  <2>3. del'[d].left = Freed(files[q].chain)
    BY <1>0, <2>1
  <2>4. QED
    BY <2>2, <2>3 DEF Purging
<1>6. QED
  BY <1>0, <1>1, <1>2, <1>3, <1>4, <1>5, TablesChange DEF LinkUnanswered, DeleteUnanswered

-----------------------------------------------------------------------------
(* Nothing forgotten.                                                      *)

LEMMA AcceptedStays ==
    ASSUME IInv, Steady, [Next]_vars, NEW p \in PutReq
    PROVE  /\ Accepted(p) => Accepted(p)'
           /\ Accepted(p)' => Accepted(p) \/ PutCommit(p)
<1>1. TypeOK /\ Faults \cap {"error", "reply", "crash"} = {}
  BY DEF IInv, Steady
<1>2. ~PutError(p) /\ ~BlockCrash /\ (PutNotFound(p) => put[p].pc = "tx")
  BY <1>1 DEF PutError, BlockCrash, PutNotFound
<1>3. QED
  BY <1>1, <1>2, PutMoves DEF Accepted

LEMMA NothingForgottenStep ==
    ASSUME IInv, IInv', SerialInv, MessageFirst, NothingForgotten, Serial, Steady, [Next]_vars
    PROVE  NothingForgotten'
<1>0. /\ TypeOK /\ PutShape /\ PutShape' /\ ObjectsFaithful'
      /\ Faults \cap {"error", "reply", "crash"} = {}
  BY DEF IInv, Steady
<1>1. ASSUME NEW p \in PutReq, job'[p].pc # "sweep"
      PROVE  job'[p].left = {}
  <2>1. ASSUME NEW s, job'[p] = WithSimilar(p, s), AtBlock(p)
        PROVE  job'[p].left = {}
    BY <2>1, WithSimilarFields, AfterBlockFields DEF WithSimilar, NothingForgotten, AtBlock
  <2>2. \A s : AtBlock(p) /\ job'[p] = WithSimilar(p, s) => job'[p].left = {}
    BY <2>1
  <2>3. AtBlock(p) /\ job'[p] = AfterBlock(p) => job'[p].left = {}
    BY AfterBlockFields
  <2>4. QED
    BY <1>1, <2>2, <2>3, JobMoves DEF NothingForgotten, AtBlock
<1>2. ASSUME NEW d \in DelReq, del'[d].pc # "purge"
      PROVE  del'[d].left = {}
  BY <1>0, <1>2, DeleteMoves DEF NothingForgotten
<1>3. ASSUME NEW b \in BlockId, Exists(b)' \/ Purging(b)'
      PROVE  Accepted(b[1])'
  <2>1. b[1] \in PutReq
    BY <1>0, RowType
  <2>2. CASE Exists(b) \/ Purging(b)
    BY <2>1, <2>2, AcceptedStays DEF NothingForgotten
  <2>3. CASE InTx(b[1]) /\ Committed(b[1])' /\ Exists(b)' /\ ~Exists(b)
    <3>1. blocks' # blocks
      BY <2>3 DEF Exists
    <3>2. ~PutNotFound(b[1]) /\ ~PutError(b[1]) /\ ~BlockCrash
      BY <3>1 DEF PutNotFound, PutError, BlockCrash, dbVars
    <3>3. put[b[1]].pc = "tx" /\ put'[b[1]].pc \in {"message", "done", "failed"}
      BY <2>3 DEF InTx, Committed
    <3>4. put'[b[1]].pc = "message"
      BY <1>0, <2>1, <3>2, <3>3, PutMoves
    <3>5. QED
      BY <3>4 DEF Accepted
  <2>4. QED
    BY <1>3, <2>2, <2>3, RowChange, PurgingBegins
<1>4. ASSUME NEW b \in BlockId, Stored(b)', Accepted(b[1])'
      PROVE  Exists(b)' \/ Purging(b)'
  <2>1. b[1] \in PutReq
    BY <1>0, RowType
  <2>2. CASE PutCommit(b[1])
    <3>1. PICK q \in Path : BlockInsert(q, b[1], Hashes(b[1]), put[b[1]].rank)
      BY <2>2 DEF PutCommit, FilesWithId
    <3>2. put[b[1]].pc = "tx" /\ put'[b[1]].n = put[b[1]].n
      BY <2>1, <2>2, PutMoves DEF PutCommit, IInv
    <3>3. Uploaded(b)
      BY <1>0, <1>4, <3>2 DEF ObjectsFaithful, Uploaded
    <3>4. blocks'[b] = [hash |-> Digest[Origin(b)], refer |-> 1, rank |-> put[b[1]].rank[b[2]]]
      BY <1>0, <2>1, <3>1, <3>2, <3>3, InsertRow
    <3>5. QED
      BY <3>4 DEF Exists
  <2>3. CASE Accepted(b[1])
    <3>1. Stored(b)
      <4>1. CASE objects' = objects
        BY <1>4, <4>1 DEF Stored
      <4>2. ASSUME NEW p \in PutReq, PutStore(p)
            PROVE  Stored(b)
        BY <1>0, <1>4, <2>3, <4>2 DEF PutStore, Store, Stored, Accepted, TypeOK, StorageTypeOK
      <4>3. ASSUME NEW a, Purge(a)
            PROVE  Stored(b)
        BY <1>0, <1>4, <4>3 DEF Purge, Stored, TypeOK, StorageTypeOK
      <4>4. QED
        BY <4>1, <4>2, <4>3, ObjectsChange DEF PurgeOwn, Sweep, DeletePurge
    <3>2. Exists(b) \/ Purging(b)
      BY <2>3, <3>1 DEF NothingForgotten
    <3>3. QED
      BY <1>4, <3>2, TakenIsPurged, PurgingEnds
  <2>4. QED
    BY <1>0, <1>4, <2>1, <2>2, <2>3, AcceptedStays
<1>5. ASSUME NEW p \in PutReq, ~Accepted(p)', NEW k \in 1 .. put'[p].n
      PROVE  Stored(<<p, k>>)'
  <2>1. put'[p].n \in Nat /\ put'[p].n <= MaxBlocks /\ put[p].n \in Nat
    BY PutFields DEF IInv, TypeOK, ServiceTypeOK
  <2>2. <<p, k>> \in BlockId /\ <<p, k>>[1] = p
    BY <2>1, MaxBlocksAssumption DEF BlockId
  <2>3. ~Accepted(p)
    BY <1>5, AcceptedStays
  <2>4. CASE put'[p].pc \in {"store", "update", "tx"}
    BY <1>5, <2>4, NextSerialInv DEF SerialInv, UploadsStored
  <2>5. CASE k \in 1 .. put[p].n
    <3>1. Stored(<<p, k>>) /\ ~Purging(<<p, k>>)
      BY <2>2, <2>3, <2>5 DEF NothingForgotten
    <3>2. QED
      BY <2>2, <3>1, PurgedByPurger
  <2>6. CASE put'[p].pc \notin {"store", "update", "tx"}
    <3>1. put'[p].n = put[p].n \/ k \notin 1 .. put'[p].n
      BY <1>0, <1>5, <2>6, PutMoves
    <3>2. QED
      BY <1>5, <2>5, <3>1
  <2>7. QED
    BY <2>4, <2>6
<1>6. QED
  BY <1>1, <1>2, <1>3, <1>4, <1>5 DEF NothingForgotten

LEMMA InitNothingForgotten == Init => MessageFirst /\ NothingForgotten
<1> SUFFICES ASSUME Init PROVE MessageFirst /\ NothingForgotten
  OBVIOUS
<1>1. /\ put = [p \in PutReq |-> PutIdle] /\ job = [p \in PutReq |-> JobIdle]
      /\ del = [d \in DelReq |-> DelIdle] /\ blocks = [b \in BlockId |-> NoRow]
  BY DEF Init, ServiceInit, ChainInit, RepositoryInit
<1>2. \A p \in PutReq : /\ put[p].n = 0 /\ put[p].pc = "idle"
                        /\ job[p].left = {} /\ job[p].pc = "idle"
  BY <1>1 DEF PutIdle, JobIdle, JobAt
<1>3. \A d \in DelReq : del[d].left = {}
  BY <1>1 DEF DelIdle
<1>4. \A b \in BlockId : b[1] \in PutReq /\ ~Exists(b)
  BY <1>1 DEF Exists, NoRow, BlockId
<1>5. MessageFirst
  BY <1>2 DEF MessageFirst
<1>6. NothingForgotten
  BY <1>2, <1>3, <1>4 DEF NothingForgotten, Purging, Accepted
<1>7. QED
  BY <1>5, <1>6

LEMMA RowIsLinked ==
    ASSUME PlacesCounted, NEW b \in BlockId
    PROVE  Exists(b) => Linked(b)
<1>1. CASE Places(b) = {}
  BY <1>1, FS_EmptySet DEF PlacesCounted, Exists
<1>2. CASE Places(b) # {}
  BY <1>2 DEF Places, Linked
<1>3. QED
  BY <1>1, <1>2

LEMMA RestMatches ==
    ASSUME IInv, SerialInv, PlacesCounted, NothingForgotten
    PROVE  StoreMatchesRows
<1> SUFFICES ASSUME AtRest, NEW b \in BlockId
             PROVE  Stored(b) <=> \/ Linked(b)
                                  \/ put[b[1]].pc = "failed" /\ b[2] <= put[b[1]].n
  BY DEF StoreMatchesRows
<1>1. b[1] \in PutReq /\ b[2] \in 1 .. MaxBlocks /\ b = <<b[1], b[2]>>
      /\ put[b[1]].n \in Nat /\ MaxBlocks \in Nat
  BY RowType, PutFields, MaxBlocksAssumption DEF IInv, TypeOK, ServiceTypeOK
<1>2. put[b[1]].pc \in {"done", "failed"}
  BY <1>1 DEF AtRest, ServiceSettled
<1>3. ~Purging(b)
  <2>1. \A p \in PutReq : job[p].pc \in {"idle", "done", "failed"}
    BY DEF AtRest, Running
  <2>2. \A d \in DelReq : del[d].pc = "done"
    BY DEF AtRest, ServiceSettled
  <2>3. QED
    BY <1>1, <2>1, <2>2 DEF Purging, NothingForgotten
<1>4. ASSUME Stored(b), put[b[1]].pc # "failed"
      PROVE  Linked(b)
  BY <1>2, <1>3, <1>4, RowIsLinked DEF NothingForgotten, Accepted
<1>5. ASSUME Stored(b)
      PROVE  b[2] <= put[b[1]].n
  BY <1>5 DEF IInv, ObjectsFaithful, Uploaded
<1>6. ASSUME Linked(b)
      PROVE  Stored(b)
  BY <1>6 DEF SerialInv, RowsFaithful
<1>7. ASSUME put[b[1]].pc = "failed", b[2] <= put[b[1]].n
      PROVE  Stored(b)
  <2>1. b[2] \in 1 .. put[b[1]].n
    BY <1>1, <1>7
  <2>2. ~Accepted(b[1])
    BY <1>7 DEF Accepted
  <2>3. QED
    BY <1>1, <2>1, <2>2 DEF NothingForgotten
<1>8. QED
  BY <1>4, <1>5, <1>6, <1>7

\* Nobody forgets an object: while answers are not lost and nobody stops, who
\* takes a row purges the object, and only then.
THEOREM Remembered == Serial /\ Steady => (Spec => []NothingForgotten)
<1> SUFFICES ASSUME Serial, Steady PROVE Spec => []NothingForgotten
  OBVIOUS
<1>1. Init => MessageFirst /\ NothingForgotten
  BY InitNothingForgotten
<1>2. /\ IInv /\ IInv' /\ SerialInv /\ MessageFirst /\ NothingForgotten /\ [Next]_vars
      => MessageFirst' /\ NothingForgotten'
  BY MessageFirstStep, NothingForgottenStep
<1>3. QED
  BY <1>1, <1>2, Faithful, SerialFaithful, PTL DEF Spec

\* When nothing is running any more the rows and the objects agree, whoever the
\* server made the victim of a deadlock of block_update with block_delete.
THEOREM RowsMatchObjects == Serial /\ Steady => (Spec => []StoreMatchesRows)
<1> SUFFICES ASSUME Serial, Steady PROVE Spec => []StoreMatchesRows
  OBVIOUS
<1>1. IInv /\ SerialInv /\ PlacesCounted /\ NothingForgotten => StoreMatchesRows
  BY RestMatches
<1>2. QED
  BY <1>1, Faithful, SerialFaithful, Counted, Remembered, PTL

-----------------------------------------------------------------------------
(* No two rows hold the same.                                              *)

\* Two rows that hold the same now did so before, unless the younger is new.
LEMMA TwinsStay ==
    ASSUME IInv, SerialInv, [Next]_vars, NEW a \in BlockId, NEW b \in BlockId,
           Exists(b), Exists(a)', Exists(b)', Alike(a, b)', Older(a, b)'
    PROVE  Exists(a) /\ Alike(a, b) /\ Older(a, b)
<1>1. Committed(b[1]) /\ Uploaded(b) /\ ~InTx(b[1])
  BY DEF SerialInv, RowsFaithful, InTx, Committed
<1>2. blocks'[b].rank = blocks[b].rank
  BY <1>1, RowChange
<1>3. CASE Exists(a) /\ blocks'[a].rank = blocks[a].rank
  BY <1>1, <1>2, <1>3, AlikeSteady DEF SerialInv, RowsFaithful, Older
<1>4. CASE InTx(a[1]) /\ blocks'[a].rank = put[a[1]].rank[a[2]]
  <2>1. blocks[b].rank < put[a[1]].rank[a[2]]
    BY <1>4, RowType DEF SerialInv, RanksOrdered, IInv
  <2>2. blocks[b].rank \in Nat /\ put[a[1]].rank[a[2]] \in Nat
    BY RowType DEF IInv, TypeOK, ServiceTypeOK, Put
  <2>3. QED
    BY <1>2, <1>4, <2>1, <2>2 DEF Older
<1>5. QED
  BY <1>3, <1>4, RowChange

\* The younger of two rows that hold the same is linked by its own chain only.
LEMMA YoungerIsOwn ==
    ASSUME IInv, SerialInv, PlacesCounted, NEW a \in BlockId, NEW b \in BlockId,
           Exists(a), Exists(b), Alike(a, b), Older(a, b)
    PROVE  LinksTo(b[1], b) # {} /\ \A c \in PutReq \ {b[1]} : LinksTo(c, b) = {}
<1>1. ~Oldest(b)
  BY DEF Oldest
<1>2. \A c \in PutReq \ {b[1]} : LinksTo(c, b) = {}
  BY <1>1 DEF SerialInv, SharedIsOldest
<1>3. Linked(b)
  BY RowIsLinked
<1>4. QED
  BY <1>2, <1>3 DEF Linked

\* Objects of rows that hold the same are the same to Compare.
LEMMA AlikeIsSame ==
    ASSUME IInv, SerialInv, NEW a \in BlockId, NEW b \in BlockId,
           Exists(a), Exists(b)
    PROVE  Alike(a, b) <=> Same(a, b)
  BY DEF SerialInv, RowsFaithful, IInv, ObjectsFaithful, Alike, Same

\* While an older row that holds the same is there the handler at the own block
\* does not run out of candidates.
LEMMA CandidatesLeft ==
    ASSUME IInv, SerialInv, MessageFirst, PlacesCounted, Steady, [Next]_vars,
           NEW p \in PutReq, AtBlock(p), job[p].pc # "purge",
           NEW a \in BlockId, Exists(a), Exists(Own(p)), Alike(a, Own(p)), Older(a, Own(p)),
           blocks'[Own(p)].refer > 0
    PROVE  AtBlock(p)' /\ job'[p].pc # "purge" /\ job'[p].i = job[p].i
<1> DEFINE o == Own(p)
<1>0. o \in BlockId /\ Uploaded(o) /\ o[1] = p
  BY OwnType DEF Own
<1>1. HasOwn(p) /\ \A c \in PutReq \ {p} : LinksTo(c, o) = {}
  BY <1>0, YoungerIsOwn DEF HasOwn
<1>2. ASSUME NEW s, s # {}, job'[p] = WithSimilar(p, s)
      PROVE  job'[p].pc = "compare" /\ job'[p].i = job[p].i
  BY <1>2, WithSimilarFields
<1>3. CASE job'[p] = job[p]
  BY <1>3 DEF AtBlock
<1>4. CASE Lookup(p) /\ job'[p] = WithSimilar(p, Similar(p)) /\ job[p].pc = "lookup"
  <2>1. Similar(p) # {}
    BY <1>1, <1>4, LookupLists
  <2>2. QED
    BY <1>2, <1>4, <2>1 DEF AtBlock
<1>5. ASSUME NEW r \in First(job[p].similar), job[p].pc = "compare",
             ~Same(o, r.id), job'[p] = WithSimilar(p, job[p].similar \ {r})
      PROVE  job'[p].pc = "compare" /\ job'[p].i = job[p].i
  <2>1. PICK t \in job[p].similar : t.id = a
    BY <1>1, <1>5 DEF SerialInv, CandidatesOrdered, NoneMissed
  <2>2. Same(o, a)
    BY <1>0, AlikeIsSame DEF Alike
  <2>3. t # r
    BY <1>5, <2>1, <2>2
  <2>4. QED
    BY <1>2, <1>5, <2>1, <2>3
<1>6. CASE job[p].pc = "link" /\ Link(p)
  <2>1. CanRelink(p, o, job[p].new) /\ BlockUpdate(p, o, job[p].new)
    BY <1>6 DEF Link
  <2>2. ~(blocks'[o].refer > 0)
    BY <1>0, <1>6, <2>1, Relinks, LinkType, UpdateRow DEF DropsOld, IInv, Exists
  <2>3. QED
    BY <2>2
<1>7. CASE job[p].pc = "link" /\ LinkFails(p) /\ job'[p] = WithSimilar(p, job[p].similar)
  <2>1. ~CanRelink(p, o, job[p].new)
    BY <1>7 DEF LinkFails, Steady
  <2>2. ~Exists(job[p].new)
    BY <1>1, <2>1 DEF CanRelink, HasOwn, ForeignKeyHolds
  <2>3. \E t \in job[p].similar : t.id = a
    BY <1>1, <1>7, <2>2 DEF SerialInv, CandidatesOrdered, NoneMissed
  <2>4. QED
    BY <1>2, <1>7, <2>3 DEF AtBlock
<1>8. /\ ~FileQuery(p) /\ ~LookupError(p) /\ ~LinkUnanswered(p) /\ ~ChainCrash
      /\ "error" \notin Faults
  BY DEF LookupError, LinkUnanswered, ChainCrash, Steady, FileQuery, MessageFirst, AtBlock
<1>9. QED
  BY <1>3, <1>4, <1>5, <1>6, <1>7, <1>8, JobMoves DEF AtBlock

LEMMA PendingStays ==
    ASSUME IInv, SerialInv, MessageFirst, PlacesCounted, Faults = {}, [Next]_vars,
           NEW a \in BlockId, NEW b \in BlockId,
           Exists(a), Exists(b), Exists(b)', Alike(a, b), Older(a, b), Pending(b)
    PROVE  Pending(b)'
<1>0. /\ TypeOK /\ PutShape /\ Steady /\ b[1] \in PutReq /\ b[2] \in 1 .. MaxBlocks
      /\ b = <<b[1], b[2]>> /\ MaxBlocks \in Nat
  BY RowType, MaxBlocksAssumption DEF IInv, Steady
<1> SUFFICES ASSUME NEW p \in PutReq, p = b[1]
             PROVE  Pending(b)'
  BY <1>0
<1>1. Pending(b)' <=> \/ put'[p].pc = "message" \/ p \in mail'
                      \/ AtBlock(p)' /\ job'[p].i < b[2]
                      \/ AtBlock(p)' /\ job'[p].i = b[2] /\ job'[p].pc # "purge"
  BY DEF Pending, AtBlock
<1>2. CASE put[p].pc = "message"
  <2>1. put'[p] = put[p] \/ PutMessage(p)
    BY <1>0, <1>2, PutMoves DEF PutError, BlockCrash, PutNotFound
  <2>2. QED
    BY <1>1, <1>2, <2>1 DEF PutMessage
<1>3. CASE p \in mail
  <2>1. \/ p \in mail' \/ FileQuery(p)
    BY <1>3, MailChanges DEF FileQuery, Lose, PutMessage
  <2>2. CASE FileQuery(p)
    <3>1. job'[p].i = 1 /\ job'[p].pc = "lookup"
      BY <1>0, <2>2 DEF FileQuery, JobAt, TypeOK, ChainTypeOK
    <3>2. QED
      BY <1>0, <1>1, <3>1 DEF AtBlock
  <2>3. QED
    BY <1>1, <2>1, <2>2
<1>4. CASE AtBlock(p) /\ job[p].i < b[2]
  <2>1. b[2] <= put[p].n /\ put[p].n \in Nat /\ job[p].i \in Nat
    BY <1>0, PutFields DEF SerialInv, RowsFaithful, Uploaded, TypeOK, ServiceTypeOK, ChainTypeOK, Job
  <2>2. AfterBlock(p).pc = "lookup" /\ AfterBlock(p).i = job[p].i + 1
    BY <1>0, <1>4, <2>1, AfterBlockFields
  <2>3. ASSUME NEW s, job'[p] = WithSimilar(p, s)
        PROVE  \/ job'[p] = AfterBlock(p)
               \/ job'[p].pc = "compare" /\ job'[p].i = job[p].i
    BY <2>3, WithSimilarFields DEF WithSimilar
  <2>4. ~ChainCrash /\ ~FileQuery(p)
    BY <1>0, <1>4 DEF ChainCrash, FileQuery, MessageFirst, AtBlock
  <2>5. \/ job'[p] = AfterBlock(p)
        \/ AtBlock(p)' /\ job'[p].i = job[p].i
    BY <1>4, <2>3, <2>4, JobMoves DEF AtBlock
  <2>6. QED
    BY <1>0, <1>1, <1>4, <2>1, <2>2, <2>5 DEF AtBlock
<1>5. CASE AtBlock(p) /\ job[p].i = b[2] /\ job[p].pc # "purge"
  <2>1. Own(p) = b
    BY <1>0, <1>5 DEF Own
  <2>2. AtBlock(p)' /\ job'[p].pc # "purge" /\ job'[p].i = job[p].i
    BY <1>0, <1>5, <2>1, CandidatesLeft DEF Exists
  <2>3. QED
    BY <1>1, <1>5, <2>2
<1>6. QED
  BY <1>2, <1>3, <1>4, <1>5 DEF Pending

LEMMA TwinsPendingStep ==
    ASSUME IInv, SerialInv, MessageFirst, PlacesCounted, TwinsPending, Faults = {}, [Next]_vars
    PROVE  TwinsPending'
<1> SUFFICES ASSUME NEW a \in BlockId, NEW b \in BlockId,
                    Exists(a)', Exists(b)', Alike(a, b)', Older(a, b)'
             PROVE  Pending(b)'
  BY DEF TwinsPending
<1>0. TypeOK /\ b[1] \in PutReq
  BY RowType DEF IInv
<1>1. CASE Exists(b)
  <2>1. Exists(a) /\ Alike(a, b) /\ Older(a, b)
    BY <1>1, TwinsStay
  <2>2. Pending(b)
    BY <1>1, <2>1 DEF TwinsPending
  <2>3. QED
    BY <1>1, <2>1, <2>2, PendingStays
<1>2. CASE ~Exists(b)
  <2>1. put[b[1]].pc = "tx" /\ put'[b[1]].pc \in {"message", "done", "failed"}
    BY <1>2, RowChange DEF InTx, Committed
  <2>2. blocks' # blocks
    BY <1>2 DEF Exists
  <2>3. ~PutNotFound(b[1]) /\ ~PutError(b[1]) /\ ~BlockCrash
    BY <2>2 DEF PutNotFound, PutError, BlockCrash, dbVars
  <2>4. put'[b[1]].pc = "message"
    BY <1>0, <2>1, <2>3, PutMoves
  <2>5. QED
    BY <2>4 DEF Pending
<1>3. QED
  BY <1>1, <1>2

LEMMA RestIsComplete ==
    ASSUME IInv, SerialInv, TwinsPending
    PROVE  DedupComplete
<1> SUFFICES ASSUME AtRest, NEW a \in BlockId, NEW b \in BlockId,
                    Exists(a), Exists(b), Same(a, b), a # b
             PROVE  FALSE
  BY DEF DedupComplete
<1>1. Alike(a, b) /\ Alike(b, a)
  BY AlikeIsSame DEF Alike
<1>2. blocks[a].rank # blocks[b].rank /\ blocks[a].rank \in Nat /\ blocks[b].rank \in Nat
  BY RowType DEF SerialInv, RanksOrdered, IInv
<1>3. \A x \in BlockId : ~Pending(x)
  <2> SUFFICES ASSUME NEW x \in BlockId PROVE ~Pending(x)
    OBVIOUS
  <2>1. x[1] \in PutReq
    BY RowType DEF IInv
  <2>2. put[x[1]].pc \in {"done", "failed"} /\ mail = {} /\ job[x[1]].pc \in {"idle", "done", "failed"}
    BY <2>1 DEF AtRest, ServiceSettled, Running
  <2>3. QED
    BY <2>2 DEF Pending, AtBlock
<1>4. ~Older(a, b) /\ ~Older(b, a)
  BY <1>1, <1>3 DEF TwinsPending
<1>5. QED
  BY <1>2, <1>4 DEF Older

\* Deduplication is complete: when every call and every message arrives and PUTs
\* commit one at a time, at rest no two rows hold the same content.
THEOREM Complete == Serial /\ Faults = {} => (Spec => []DedupComplete)
<1> SUFFICES ASSUME Serial, Faults = {} PROVE Spec => []DedupComplete
  OBVIOUS
<1>1. Init => MessageFirst /\ TwinsPending
  <2>1. ASSUME Init, NEW b \in BlockId
        PROVE  ~Exists(b)
    BY <2>1 DEF Init, RepositoryInit, NoRow, Exists
  <2>2. QED
    BY <2>1, InitNothingForgotten DEF TwinsPending
<1>2. IInv /\ MessageFirst /\ [Next]_vars => MessageFirst'
  BY MessageFirstStep
<1>3. /\ IInv /\ SerialInv /\ MessageFirst /\ PlacesCounted /\ TwinsPending /\ [Next]_vars
      => TwinsPending'
  BY TwinsPendingStep
<1>4. IInv /\ SerialInv /\ TwinsPending => DedupComplete
  BY RestIsComplete
<1>5. QED
  BY <1>1, <1>2, <1>3, <1>4, Faithful, SerialFaithful, Counted, PTL DEF Spec

-----------------------------------------------------------------------------
(* Every replaced chain is broken.                                         *)

\* Which chain a PUT replaced is settled by its commit.
LEMMA OldSettled ==
    ASSUME TypeOK, [Next]_vars, NEW p \in PutReq
    PROVE  \/ PutCommit(p)
           \/ put'[p].old = put[p].old
<1>0. put \in [PutReq -> Put] /\ put[p] \in Put
  BY DEF TypeOK, ServiceTypeOK
<1>1. CASE put'[p] = put[p]
  BY <1>1
<1>2. CASE PutFile(p)
  <2>1. PICK q \in Path, s \in Bodies :
            put' = [put EXCEPT ![p] =
                        [@ EXCEPT !.pc = "store", !.path = q, !.fid = FileId(q, p),
                                 !.body = s]]
    BY <1>2 DEF PutFile
  <2>2. put'[p].old = put[p].old
    BY <1>0, <2>1 DEF Put
  <2>3. QED
    BY <2>2
<1>3. CASE PutStore(p) \/ PutMessage(p)
  BY <1>0, <1>3 DEF PutStore, PutMessage, Put
<1>4. CASE PutBegin(p)
  <2>1. PICK k \in RankDraws : put' = [put EXCEPT ![p] = [@ EXCEPT !.pc = "tx", !.rank = k]]
    BY <1>4 DEF PutBegin
  <2>2. put'[p].old = put[p].old
    BY <1>0, <2>1 DEF Put
  <2>3. QED
    BY <2>2
<1>5. CASE PutNotFound(p) \/ PutError(p)
  BY <1>0, <1>5 DEF PutNotFound, PutError, Put
<1>6. CASE BlockCrash
  <2>1. put'[p] = IF put[p].pc \in {"store", "update", "tx", "message"}
                  THEN [put[p] EXCEPT !.pc = "failed", !.rank = NoRank] ELSE put[p]
    BY <1>6 DEF BlockCrash
  <2>2. put'[p].old = put[p].old
    BY <1>0, <2>1 DEF Put
  <2>3. QED
    BY <2>2
<1>7. QED
  BY <1>1, <1>2, <1>3, <1>4, <1>5, <1>6, PutMoves

\* What happens to the chain of a path.
LEMMA CurrentMoves ==
    ASSUME IInv, [Next]_vars
    PROVE  \/ \A q \in Path : files'[q].chain = files[q].chain
           \/ \E p \in PutReq, q \in Path :
                  /\ PutCommit(p)
                  /\ put'[p].old = files[q].chain
                  /\ files'[q].chain = p
                  /\ \A r \in Path \ {q} : files'[r].chain = files[r].chain
           \/ \E q \in Path :
                  /\ UNCHANGED put
                  /\ files[q].chain # None => links'[files[q].chain] = <<>>
                  /\ files'[q].chain = None
                  /\ \A r \in Path \ {q} : files'[r].chain = files[r].chain
<1>0. /\ files \in [Path -> FileRow] /\ TypeOK
      /\ \A q \in Path : files[q] \in FileRow
      /\ links \in [PutReq -> Seq(BlockId)]
      /\ put \in [PutReq -> Put] /\ \A p \in PutReq : put[p] \in Put
  BY DEF IInv, TypeOK, RepositoryTypeOK, ServiceTypeOK
<1>1. ASSUME NEW p \in PutReq, PutFile(p)
      PROVE  \A q \in Path : files'[q].chain = files[q].chain
  BY <1>0, <1>1 DEF PutFile, FileInsert, FileRow
<1>2. ASSUME NEW p \in PutReq, PutCommit(p)
      PROVE  \E q \in Path :
                /\ put'[p].old = files[q].chain
                /\ files'[q].chain = p
                /\ \A r \in Path \ {q} : files'[r].chain = files[r].chain
  <2>1. PICK q \in Path, pc \in {"message", "failed"} :
          /\ BlockInsert(q, p, Hashes(p), put[p].rank)
          /\ put' = [put EXCEPT ![p] = [@ EXCEPT !.pc = pc, !.rank = NoRank,
                                                 !.old = files[q].chain]]
    BY <1>2 DEF PutCommit, FilesWithId
  <2>2. put'[p].old = files[q].chain
    BY <1>0, <2>1 DEF Put
  <2>3. files' = [files EXCEPT ![q].chain = p]
    BY <2>1 DEF BlockInsert
  <2>4. /\ files'[q].chain = p
        /\ \A r \in Path \ {q} : files'[r].chain = files[r].chain
    BY <1>0, <2>3 DEF FileRow
  <2>5. QED
    BY <2>2, <2>4
<1>3. ASSUME NEW d \in DelReq, DeleteNothing(d) \/ DeleteFile(d) \/ DeleteUnanswered(d)
      PROVE  \E q \in Path :
                /\ UNCHANGED put
                /\ files[q].chain # None => links'[files[q].chain] = <<>>
                /\ files'[q].chain = None
                /\ \A r \in Path \ {q} : files'[r].chain = files[r].chain
  <2>1. PICK q \in Path : /\ FileRemove(q) /\ UNCHANGED put
                          /\ files[q].chain # None => BlockDelete(files[q].chain)
    BY <1>3 DEF DeleteNothing, DeleteFile, DeleteUnanswered
  <2>2. files[q].chain # None => links'[files[q].chain] = <<>>
    BY <1>0, <2>1, CurrentType DEF BlockDelete
  <2>3. QED
    BY <1>0, <2>1, <2>2 DEF FileRemove
<1>4. QED
  BY <1>1, <1>2, <1>3, FilesChange

\* The rows of a replaced chain can be deleted: nobody else is counted in them.
LEMMA OldCanBeDeleted ==
    ASSUME IInv, PlacesCounted, ReplacedOnce, NEW p \in PutReq, Old(p) \in PutReq
    PROVE  CanDelete(Old(p), {})
<1> DEFINE c == Old(p)
<1>1. ASSUME NEW b \in Freed(c), NEW d \in PutReq \ {c}
      PROVE  LinksTo(d, b) = {}
  <2>1. b \in BlockId /\ blocks[b].refer <= Cardinality(LinksTo(c, b))
    BY <1>1 DEF Freed
  <2>2. IsFiniteSet(LinksTo(c, b))
    BY LinksToFinite DEF IInv
  <2>3. /\ IsFiniteSet({c} \X LinksTo(c, b))
        /\ Cardinality({c} \X LinksTo(c, b)) = Cardinality(LinksTo(c, b))
    BY <2>2, PlacesOf
  <2>4. {c} \X LinksTo(c, b) \subseteq Places(b)
    BY LinksToBounded DEF Places
  <2>5. IsFiniteSet(Places(b)) /\ Cardinality(Places(b)) = blocks[b].refer
    BY <2>1 DEF PlacesCounted
  <2>6. /\ Cardinality({c} \X LinksTo(c, b)) \in Nat /\ Cardinality(Places(b)) \in Nat
        /\ Cardinality({c} \X LinksTo(c, b)) <= Cardinality(Places(b))
        /\ Cardinality({c} \X LinksTo(c, b)) = Cardinality(Places(b)) =>
               {c} \X LinksTo(c, b) = Places(b)
    BY <2>3, <2>4, <2>5, FS_Subset, FS_CardinalityType
  <2>7. {c} \X LinksTo(c, b) = Places(b)
    BY <2>1, <2>3, <2>5, <2>6
  <2>8. ASSUME NEW k \in LinksTo(d, b)
        PROVE  FALSE
    <3>1. <<d, k>> \in Places(b)
      BY <2>8, LinksToBounded DEF Places
    <3>2. QED
      BY <1>1, <2>7, <3>1
  <2>9. QED
    BY <2>8
<1>2. \A q \in Path : files[q].chain # c
  BY NoneAssumption DEF ReplacedOnce, Current
<1>3. QED
  BY <1>1, <1>2 DEF CanDelete, ForeignKeyHolds

\* Whoever is to break a chain is, until the chain has no links.
LEMMA BreakingStays ==
    ASSUME IInv, MessageFirst, PlacesCounted, ReplacedPending, Faults = {}, [Next]_vars,
           NoVictim, NEW p \in PutReq, Old(p) \in PutReq, Breaking(p),
           links'[Old(p)] # <<>>
    PROVE  Breaking(p)' /\ Old(p)' = Old(p)
<1>0. /\ TypeOK /\ "error" \notin Faults /\ "lost" \notin Faults /\ "crash" \notin Faults
      /\ Old(p) # None
  BY NoneAssumption DEF IInv
<1>1. Old(p)' = Old(p)
  <2>1. ~PutCommit(p)
    BY DEF PutCommit, Breaking, IInv, JobsFaithful
  <2>2. QED
    BY <1>0, <2>1, OldSettled DEF Old
<1>2. CASE put[p].pc = "message"
  <2>1. put'[p] = put[p] \/ PutMessage(p)
    BY <1>0, <1>2, PutMoves DEF PutError, BlockCrash, PutNotFound
  <2>2. QED
    BY <1>1, <1>2, <2>1 DEF PutMessage, Breaking
<1>3. CASE p \in mail
  <2>1. p \in mail' \/ FileQuery(p)
    BY <1>0, <1>3, MailChanges DEF FileQuery, Lose, PutMessage
  <2>2. FileQuery(p) => AtBlock(p)'
    BY <1>0 DEF FileQuery, JobAt, TypeOK, ChainTypeOK, AtBlock
  <2>3. QED
    BY <1>1, <2>1, <2>2 DEF Breaking
<1>4. CASE AtBlock(p)
  <2>1. AfterBlock(p).pc \in {"lookup", "break"}
    <3>1. CASE job[p].i < put[p].n
      BY <1>4, <3>1, AfterBlockFields
    <3>2. CASE ~(job[p].i < put[p].n)
      BY <1>0, <3>2 DEF AfterBlock, JobAt
    <3>3. QED
      BY <3>1, <3>2
  <2>2. ASSUME NEW s, job'[p] = WithSimilar(p, s)
        PROVE  job'[p].pc \in {"lookup", "break", "compare"}
    BY <2>1, <2>2, WithSimilarFields DEF WithSimilar
  <2>3. ~ChainCrash
    BY <1>0 DEF ChainCrash
  <2>4. job'[p].pc \in {"lookup", "compare", "link", "purge", "break"}
    BY <1>4, <2>1, <2>2, <2>3, JobMoves DEF AtBlock
  <2>5. QED
    BY <1>1, <2>4 DEF Breaking, AtBlock
<1>5. CASE job[p].pc = "break"
  <2>1. ~Break(p)
    <3>1. Break(p) => links'[Old(p)] = <<>>
      BY <1>0 DEF Break, BlockDelete, TypeOK, RepositoryTypeOK
    <3>2. QED
      BY <3>1
  <2>2. ~BreakFails(p)
    BY <1>0, OldCanBeDeleted DEF BreakFails, NoVictim, ReplacedPending
  <2>3. ~ChainCrash /\ ~FileQuery(p)
    BY <1>0, <1>5 DEF ChainCrash, FileQuery, MessageFirst
  <2>4. job'[p] = job[p]
    BY <1>5, <2>1, <2>2, <2>3, JobMoves
  <2>5. QED
    BY <1>1, <1>5, <2>4 DEF Breaking
<1>6. QED
  BY <1>2, <1>3, <1>4, <1>5 DEF Breaking

LEMMA LinksMoves ==
    ASSUME IInv, [Next]_vars, NEW c \in PutReq, links'[c] # <<>>
    PROVE  links[c] # <<>> \/ PutCommit(c)
<1>0. TypeOK /\ links \in [PutReq -> Seq(BlockId)]
  BY DEF IInv, TypeOK, RepositoryTypeOK
<1>1. ASSUME NEW p \in PutReq, Link(p) \/ LinkUnanswered(p)
      PROVE  links[c] # <<>>
  <2>1. LinksTo(p, Own(p)) # {}
    BY <1>1 DEF Link, LinkUnanswered, CanRelink
  <2>2. links[p] # <<>>
    BY <2>1 DEF LinksTo
  <2>3. c # p => links'[c] = links[c]
    BY <1>0, <1>1 DEF Link, LinkUnanswered, BlockUpdate
  <2>4. QED
    BY <2>2, <2>3
<1>2. ASSUME NEW d \in PutReq, BlockDelete(d)
      PROVE  links[c] # <<>>
  BY <1>0, <1>2 DEF BlockDelete
<1>3. ASSUME NEW p \in PutReq, Break(p)
      PROVE  links[c] # <<>>
  <2>1. Old(p) \in PutReq
    BY <1>3, BrokenType DEF Break
  <2>2. QED
    BY <1>2, <1>3, <2>1 DEF Break
<1>4. ASSUME NEW d \in DelReq, DeleteFile(d) \/ DeleteUnanswered(d)
      PROVE  links[c] # <<>>
  <2>1. PICK q \in Path : files[q].chain # None /\ BlockDelete(files[q].chain)
    BY <1>4 DEF DeleteFile, DeleteUnanswered
  <2>2. QED
    BY <1>0, <1>2, <2>1, CurrentType
<1>5. ASSUME NEW p \in PutReq, PutCommit(p), p # c
      PROVE  links[c] # <<>>
  <2>1. PICK q \in Path : BlockInsert(q, p, Hashes(p), put[p].rank)
    BY <1>5 DEF PutCommit, FilesWithId
  <2>2. QED
    BY <1>0, <1>5, <2>1 DEF BlockInsert
<1>6. QED
  BY <1>1, <1>3, <1>4, <1>5, TablesChange

\* What is committed was replaced by nobody and is current nowhere before.
LEMMA CommitsFresh ==
    ASSUME IInv, ReplacedOnce, NEW p \in PutReq, PutCommit(p)
    PROVE  /\ ~Committed(p) /\ ~Current(p)
           /\ \A r \in PutReq : Old(r) # p
<1>1. ~Committed(p)
  BY DEF PutCommit, Committed
<1>2. links[p] = <<>>
  BY <1>1 DEF IInv, ChainsFaithful
<1>3. ~Current(p)
  BY <1>2, NoneAssumption DEF IInv, CurrentLinked, Current
<1>4. QED
  BY <1>1, <1>3, NoneAssumption DEF ReplacedOnce

LEMMA ReplacedOnceStep ==
    ASSUME IInv, ReplacedOnce, [Next]_vars
    PROVE  ReplacedOnce'
<1>0. /\ TypeOK /\ put \in [PutReq -> Put]
      /\ \A q \in Path : files[q].chain \in PutReq \cup {None}
      /\ \A p \in PutReq : p # None /\ put[p] \in Put
      /\ \A p \in PutReq : Old(p) \in PutReq \cup {None}
  BY PutFields, NoneAssumption DEF IInv, TypeOK, RepositoryTypeOK, FileRow, ServiceTypeOK, Old
<1>1. \A c \in PutReq : Committed(c) => Committed(c)'
  BY <1>0, PutMoves DEF Committed
<1>2. ASSUME NEW p \in PutReq, NEW q \in Path, PutCommit(p),
             put'[p].old = files[q].chain, files'[q].chain = p,
             \A r \in Path \ {q} : files'[r].chain = files[r].chain
      PROVE  ReplacedOnce'
  <2>1. /\ \A r \in Path : files[r].chain # p
        /\ \A r \in PutReq : Old(r) # p
        /\ Old(p)' = files[q].chain
    BY <1>2, CommitsFresh DEF Old, Current
  <2>2. \A r \in PutReq \ {p} : Old(r)' = Old(r)
    <3>1. \A r \in PutReq \ {p} : put'[r] = put[r]
      BY <1>0, <1>2 DEF PutCommit
    <3>2. QED
      BY <3>1 DEF Old
  <2>3. files[q].chain # None => Committed(files[q].chain)
    BY <1>0 DEF IInv, CurrentLinked, ChainsFaithful
  <2>4. \A r, s \in Path : files'[r].chain # None /\ files'[r].chain = files'[s].chain => r = s
    BY <1>2, <2>1 DEF ReplacedOnce
  <2>5. ASSUME NEW r \in PutReq, Old(r)' # None
        PROVE  Committed(Old(r)') /\ \A s \in Path : files'[s].chain # Old(r)'
    <3>1. CASE r = p
      BY <1>2, <2>1, <2>3, <2>5, <3>1 DEF ReplacedOnce
    <3>2. CASE r # p
      <4>1. Old(r) # None /\ Old(r)' = Old(r) /\ Old(r) # p
        BY <2>1, <2>2, <2>5, <3>2
      <4>2. Committed(Old(r)) /\ \A s \in Path : files[s].chain # Old(r)
        BY <4>1 DEF ReplacedOnce, Current
      <4>3. QED
        BY <1>2, <4>1, <4>2
    <3>3. QED
      BY <3>1, <3>2
  <2>6. ASSUME NEW r \in PutReq, Old(r)' # None
        PROVE  Committed(Old(r))' /\ ~Current(Old(r))'
    <3>1. PICK c \in PutReq : c = Old(r)'
      BY <1>0, <2>1, <2>2, <2>6
    <3>2. Committed(c) /\ \A s \in Path : files'[s].chain # c
      BY <2>5, <2>6, <3>1
    <3>3. Committed(c)' /\ ~Current(c)'
      BY <1>1, <3>2 DEF Current
    <3>4. QED
      BY <3>1, <3>3 DEF Committed, Current
  <2>7. QED
    BY <2>4, <2>6 DEF ReplacedOnce
\* Without a commit nobody replaces anything.
<1>3. ASSUME \A q \in Path : files'[q].chain # None => files'[q].chain = files[q].chain,
             \A p \in PutReq : ~PutCommit(p)
      PROVE  ReplacedOnce'
  <2>1. \A r \in PutReq : Old(r)' = Old(r)
    BY <1>0, <1>3, OldSettled DEF Old
  <2>2. \A r, s \in Path : files'[r].chain # None /\ files'[r].chain = files'[s].chain => r = s
    BY <1>3 DEF ReplacedOnce
  <2>3. ASSUME NEW r \in PutReq, Old(r)' # None
        PROVE  Committed(Old(r))' /\ ~Current(Old(r))'
    <3>1. PICK c \in PutReq : c = Old(r)' /\ c = Old(r)
      BY <1>0, <2>1, <2>3
    <3>2. Committed(c) /\ \A s \in Path : files[s].chain # c
      BY <1>0, <3>1 DEF ReplacedOnce, Current
    <3>3. Committed(c)' /\ ~Current(c)'
      BY <1>0, <1>1, <1>3, <3>2 DEF Current
    <3>4. QED
      BY <3>1, <3>3 DEF Committed, Current
  <2>4. QED
    BY <2>2, <2>3 DEF ReplacedOnce
<1>4. ASSUME NEW p \in PutReq, PutCommit(p)
      PROVE  put' # put /\ \E q \in Path : files'[q].chain = p /\ files[q].chain # p
  <2>1. PICK q \in Path : BlockInsert(q, p, Hashes(p), put[p].rank)
    BY <1>4 DEF PutCommit, FilesWithId
  <2>2. files'[q].chain = p
    BY <1>0, <2>1 DEF BlockInsert, TypeOK, RepositoryTypeOK, FileRow
  <2>3. put[p].pc = "tx" /\ put'[p].pc # "tx"
    BY <1>0, <1>4 DEF PutCommit, Put
  <2>4. QED
    BY <1>4, <2>2, <2>3, CommitsFresh DEF Current
<1>5. QED
  BY <1>2, <1>3, <1>4, CurrentMoves

LEMMA ReplacedPendingStep ==
    ASSUME IInv, MessageFirst, PlacesCounted, ReplacedPending, Faults = {},
           [Next]_vars, [NoVictim]_vars
    PROVE  ReplacedPending'
<1>0. /\ TypeOK /\ put \in [PutReq -> Put] /\ ReplacedOnce
      /\ \A q \in Path : files[q].chain \in PutReq \cup {None}
      /\ \A p \in PutReq : p # None
  BY NoneAssumption DEF IInv, TypeOK, RepositoryTypeOK, FileRow, ServiceTypeOK, ReplacedPending
<1>1. NoVictim
  <2>1. ASSUME UNCHANGED vars, NEW p \in PutReq, BreakFails(p)
        PROVE  FALSE
    <3>1. job[p].pc = "break" /\ job'[p].pc = "failed" /\ job' = job
      BY <1>0, <2>1 DEF BreakFails, JobAt, vars, TypeOK, ChainTypeOK
    <3>2. QED
      BY <3>1
  <2>2. QED
    BY <2>1 DEF NoVictim
\* A chain that was committed now has become current.
<1>2. ASSUME NEW c \in PutReq, PutCommit(c)
      PROVE  Current(c)'
  <2>1. PICK q \in Path : BlockInsert(q, c, Hashes(c), put[c].rank)
    BY <1>2 DEF PutCommit, FilesWithId
  <2>2. QED
    BY <1>0, <2>1 DEF BlockInsert, TypeOK, RepositoryTypeOK, FileRow, Current
\* Who was to break a chain that is not current still is.
<1>3. ASSUME NEW c \in PutReq, links[c] # <<>>, links'[c] # <<>>, ~Current(c)
      PROVE  \E r \in PutReq : Old(r)' = c /\ Breaking(r)'
  <2>1. PICK r \in PutReq : Old(r) = c /\ Breaking(r)
    BY <1>3 DEF ReplacedPending
  <2>2. QED
    BY <1>0, <1>1, <1>3, <2>1, BreakingStays
\* Who replaces a current chain is to break it.
<1>4. ASSUME NEW c \in PutReq, links[c] # <<>>, links'[c] # <<>>, NEW q \in Path,
             files[q].chain = c, files'[q].chain # c
      PROVE  \E r \in PutReq : Old(r)' = c /\ Breaking(r)'
  <2>1. \A r \in Path \ {q} : files[r].chain # c
    BY <1>0, <1>4 DEF ReplacedOnce
  <2>2. PICK p \in PutReq : PutCommit(p) /\ put'[p].old = c
    BY <1>0, <1>4, <2>1, CurrentMoves
  <2>3. put'[p].pc = "message"
    BY <1>0, <2>2 DEF PutCommit, Put
  <2>4. QED
    BY <2>2, <2>3 DEF Old, Breaking
<1>5. ASSUME NEW c \in PutReq, links'[c] # <<>>
      PROVE  Current(c)' \/ \E r \in PutReq : Old(r)' = c /\ Breaking(r)'
  <2>1. CASE links[c] # <<>>
    <3>1. CASE Current(c)
      BY <1>4, <1>5, <2>1, <3>1 DEF Current
    <3>2. QED
      BY <1>3, <1>5, <2>1, <3>1
  <2>2. QED
    BY <1>2, <1>5, <2>1, LinksMoves
<1>6. QED
  BY <1>0, <1>5, ReplacedOnceStep DEF ReplacedPending

\* At rest nobody is left to break a chain, so every linked one is current.
LEMMA RestIsCurrent ==
    ASSUME IInv, ReplacedPending, StoreMatchesRows
    PROVE  NothingLeftBehind
<1> SUFFICES ASSUME AtRest, NEW b \in BlockId
             PROVE  Linked(b) <=> \E c \in PutReq : Current(c) /\ LinksTo(c, b) # {}
  BY DEF NothingLeftBehind, StoreMatchesRows
<1>1. \A p \in PutReq : ~Breaking(p)
  BY DEF AtRest, ServiceSettled, Running, Breaking, AtBlock
<1>2. \A c \in PutReq : LinksTo(c, b) # {} => links[c] # <<>>
  BY DEF LinksTo
<1>3. QED
  BY <1>1, <1>2 DEF ReplacedPending, Linked

LEMMA InitReplaced == Init => ReplacedPending
<1> SUFFICES ASSUME Init PROVE ReplacedPending
  OBVIOUS
<1> QED
  BY DEF Init, RepositoryInit, ServiceInit, ReplacedPending, ReplacedOnce, PutIdle, Old

\* While PUTs commit one at a time and calls do not fail, the foreign keys never
\* forbid to break a chain that was replaced: it is nobody's current chain, and
\* nobody else is counted in the rows that go with it.
THEOREM NeverForbidden == Serial => (Spec => []BreakAllowed)
<1> SUFFICES ASSUME Serial PROVE Spec => []BreakAllowed
  OBVIOUS
<1>1. Init => ReplacedOnce
  BY InitReplaced DEF ReplacedPending
<1>2. IInv /\ ReplacedOnce /\ [Next]_vars => ReplacedOnce'
  BY ReplacedOnceStep
<1>3. IInv /\ PlacesCounted /\ ReplacedOnce => BreakAllowed
  BY OldCanBeDeleted, BrokenType DEF BreakAllowed
<1>4. QED
  BY <1>1, <1>2, <1>3, Faithful, Counted, PTL DEF Spec

\* When calls do not fail, no message is lost, PUTs commit one at a time and the
\* server aborts no Break for a deadlock, the store holds at rest what the current
\* files need, and what failed PUTs left.
THEOREM Tidy ==
    Serial /\ Faults = {} => (Spec /\ [][NoVictim]_vars => []NothingLeftBehind)
<1> SUFFICES ASSUME Serial, Faults = {}
             PROVE  Spec /\ [][NoVictim]_vars => []NothingLeftBehind
  OBVIOUS
<1>1. Init => MessageFirst /\ ReplacedPending
  BY InitReplaced, InitNothingForgotten
<1>2. IInv /\ MessageFirst /\ [Next]_vars => MessageFirst'
  BY MessageFirstStep
<1>3. IInv /\ MessageFirst /\ PlacesCounted /\ ReplacedPending /\ [Next]_vars /\ [NoVictim]_vars
      => ReplacedPending'
  BY ReplacedPendingStep
<1>4. IInv /\ ReplacedPending /\ StoreMatchesRows => NothingLeftBehind
  BY RestIsCurrent
<1>5. Serial /\ Steady
  BY DEF Steady
<1>6. Spec => []StoreMatchesRows
  BY <1>5, RowsMatchObjects
<1>7. QED
  BY <1>1, <1>2, <1>3, <1>4, <1>6, Faithful, Counted, PTL DEF Spec

\* Chains of one block deadlock with nobody: nothing of theirs can be locked in two
\* orders.
LEMMA ShortNeverDeadlock ==
    ASSUME IInv, SerialInv, MaxBlocks = 1, NEW c \in PutReq \cup {None}, NEW ds
    PROVE  ~Deadlocks(c, ds)
<1>1. ASSUME NEW d \in PutReq, NEW b, LinksTo(d, b) # {}
      PROVE  b = links[d][1]
  BY <1>1, LinksToBounded DEF LinksTo
<1>2. ASSUME NEW d \in PutReq, Linking(d)
      PROVE  FALSE
  <2>1. job[d].new = Own(d) /\ HasOwn(d) /\ job[d].pc = "link"
    BY <1>1, <1>2 DEF Linking, HasOwn
  <2>2. Own(d) \in BlockId
    BY <2>1, LinkType
  <2>3. Exists(Own(d))
    BY <2>1, <2>2 DEF SerialInv, RowsFaithful, Linked, HasOwn
  <2>4. Older(Own(d), Own(d))
    BY <2>1, <2>3 DEF SerialInv, CandidatesOrdered, NewFirst
  <2>5. QED
    BY <2>2, <2>4, RowType DEF Older, IInv
<1>3. ASSUME NEW d \in PutReq, NEW e \in PutReq
      PROVE  ~(Cardinality(Shared(d, e)) > 1)
  <2>1. Shared(d, e) \subseteq {links[d][1]}
    BY <1>1 DEF Shared
  <2>2. IsFiniteSet({links[d][1]}) /\ Cardinality({links[d][1]}) = 1
    BY FS_Singleton
  <2>3. Cardinality(Shared(d, e)) <= 1
    BY <2>1, <2>2, FS_Subset
  <2>4. Cardinality(Shared(d, e)) \in Nat
    BY <2>1, <2>2, FS_Subset, FS_CardinalityType
  <2>5. QED
    BY <2>3, <2>4
<1>4. QED
  BY <1>2, <1>3 DEF Deadlocks

\* Files of one block leave nothing behind, whatever the server aborts.
THEOREM TidyShort ==
    Serial /\ Faults = {} /\ MaxBlocks = 1 => (Spec => []NothingLeftBehind)
<1> SUFFICES ASSUME Serial, Faults = {}, MaxBlocks = 1
             PROVE  Spec => []NothingLeftBehind
  OBVIOUS
<1>1. IInv /\ SerialInv => NoVictim
  BY ShortNeverDeadlock, PutFields DEF NoVictim, Old, IInv, TypeOK, ServiceTypeOK
<1>2. Spec /\ [][NoVictim]_vars => []NothingLeftBehind
  BY Tidy
<1>3. QED
  BY <1>1, <1>2, Faithful, SerialFaithful, PTL

=============================================================================
