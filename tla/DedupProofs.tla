------------------------------ MODULE DedupProofs ------------------------------
(***************************************************************************)
(* Deduplication loses nothing and forgets nothing, for every set of       *)
(* requests, paths, uploads and hashes, while PUTs commit one at a time    *)
(* and calls do not fail (Serial).                                         *)
(***************************************************************************)
EXTENDS Dedup, NoCopyProofs

-----------------------------------------------------------------------------
(* How the record of a PUT changes.                                        *)

LEMMA PutMoves ==
    ASSUME TypeOK, [Next]_vars, NEW p \in PutReq
    PROVE  \/ put'[p] = put[p]
           \/ /\ PutFile(p) /\ put[p].pc = "idle" /\ put'[p].pc = "store"
              /\ put'[p].n = put[p].n
           \/ /\ PutStore(p) /\ put[p].pc = "store" /\ put'[p].pc \in {"store", "update"}
              /\ put'[p].n = put[p].n + 1
           \/ /\ PutBegin(p) /\ put[p].pc = "update" /\ put'[p].pc = "tx"
              /\ put'[p].n = put[p].n
           \/ /\ PutCommit(p) /\ put[p].pc = "tx"
              /\ put'[p].pc \in {"message"} \cup (IF "reply" \in Faults THEN {"failed"} ELSE {})
              /\ put'[p].n = put[p].n
           \/ /\ PutMessage(p) /\ put[p].pc = "message" /\ put'[p].pc = "done"
              /\ put'[p].n = put[p].n
           \/ /\ PutNotFound(p) \/ PutError(p) \/ BlockCrash
              /\ put[p].pc \notin {"done", "failed"} /\ put'[p].pc = "failed"
              /\ put'[p].n = put[p].n
<1>0. put \in [PutReq -> Put] /\ put[p] \in Put
  BY DEF TypeOK, ServiceTypeOK
<1>1. ASSUME NEW r \in PutReq, r # p,
             \/ PutFile(r) \/ PutStore(r) \/ PutBegin(r) \/ PutCommit(r)
             \/ PutNotFound(r) \/ PutMessage(r) \/ PutError(r)
      PROVE  put'[p] = put[p]
  BY <1>0, <1>1 DEF PutFile, PutStore, PutBegin, PutCommit, PutNotFound, PutMessage, PutError
<1>2. CASE PutFile(p)
  <2>1. PICK q \in Path, s \in Bodies :
            put' = [put EXCEPT ![p] =
                        [@ EXCEPT !.pc = "store", !.path = q, !.fid = FileId(q, p),
                                 !.body = s]]
    BY <1>2 DEF PutFile
  <2>2. QED
    BY <1>0, <1>2, <2>1 DEF Put, PutFile
<1>3. CASE PutStore(p)
  BY <1>0, <1>3 DEF PutStore, Put
<1>4. CASE PutBegin(p)
  <2>1. PICK k \in RankDraws : put' = [put EXCEPT ![p] = [@ EXCEPT !.pc = "tx", !.rank = k]]
    BY <1>4 DEF PutBegin
  <2>2. QED
    BY <1>0, <1>4, <2>1 DEF Put, PutBegin
<1>5. CASE PutCommit(p)
  <2>1. PICK q \in Path, pc \in {"message"} \cup (IF "reply" \in Faults THEN {"failed"} ELSE {}) :
            put' = [put EXCEPT ![p] = [@ EXCEPT !.pc = pc, !.rank = NoRank,
                                                !.old = files[q].chain]]
    BY <1>5 DEF PutCommit, FilesWithId
  <2>2. QED
    BY <1>0, <1>5, <2>1 DEF Put, PutCommit
<1>6. CASE PutMessage(p)
  BY <1>0, <1>6 DEF PutMessage, Put
<1>7. CASE PutNotFound(p) \/ PutError(p)
  <2>1. /\ put' = [put EXCEPT ![p] = [@ EXCEPT !.pc = "failed", !.rank = NoRank]]
        /\ put[p].pc \notin {"done", "failed"}
    BY <1>7 DEF PutNotFound, PutError
  <2>2. QED
    BY <1>0, <1>7, <2>1 DEF Put
<1>8. CASE BlockCrash
  <2>1. put'[p] = IF put[p].pc \in {"store", "update", "tx", "message"}
                  THEN [put[p] EXCEPT !.pc = "failed", !.rank = NoRank] ELSE put[p]
    BY <1>8 DEF BlockCrash
  <2>2. QED
    BY <1>0, <1>8, <2>1 DEF Put
<1>9. QED
  BY <1>1, <1>2, <1>3, <1>4, <1>5, <1>6, <1>7, <1>8, PutChanges

-----------------------------------------------------------------------------
(* What block_delete, block_update and block_insert do to a row.           *)

LEMMA RowType ==
    ASSUME TypeOK, NEW b \in BlockId
    PROVE  /\ blocks[b] \in BlockRow
           /\ blocks[b].refer \in Nat /\ blocks[b].rank \in Nat
           /\ b[1] \in PutReq /\ b[2] \in 1 .. MaxBlocks /\ b = <<b[1], b[2]>>
  BY DEF TypeOK, RepositoryTypeOK, BlockRow, BlockId

LEMMA DeleteRow ==
    ASSUME TypeOK, NEW c \in PutReq, BlockDelete(c), NEW b \in BlockId
    PROVE  /\ Exists(b)' => /\ Exists(b) /\ b \notin Freed(c)
                            /\ blocks'[b].rank = blocks[b].rank
                            /\ blocks'[b].hash = blocks[b].hash
                            /\ blocks'[b].refer <= blocks[b].refer
           /\ Exists(b) /\ b \notin Freed(c) => Exists(b)'
           /\ \A d \in PutReq : links'[d] = IF d = c THEN <<>> ELSE links[d]
<1>0. \A d \in PutReq : links'[d] = IF d = c THEN <<>> ELSE links[d]
  BY DEF BlockDelete, TypeOK, RepositoryTypeOK
<1>1. blocks[b] \in BlockRow /\ blocks[b].refer \in Nat
      /\ Cardinality(LinksTo(c, b)) \in Nat
  BY RowType, LinksToFinite
<1>2. CASE LinksTo(c, b) = {}
  BY <1>0, <1>1, <1>2 DEF BlockDelete, Freed, Exists
<1>3. CASE LinksTo(c, b) # {} /\ b \in Freed(c)
  BY <1>0, <1>1, <1>3 DEF BlockDelete, Exists, NoRow
<1>4. CASE LinksTo(c, b) # {} /\ b \notin Freed(c)
  <2>1. blocks'[b] = [blocks[b] EXCEPT !.refer = @ - Cardinality(LinksTo(c, b))]
    BY <1>4 DEF BlockDelete
  <2>2. blocks[b].refer > Cardinality(LinksTo(c, b))
    BY <1>1, <1>4 DEF Freed
  <2>3. QED
    BY <1>0, <1>1, <1>4, <2>1, <2>2 DEF Exists, BlockRow
<1>5. QED
  BY <1>2, <1>3, <1>4

LEMMA UpdateRow ==
    ASSUME TypeOK, NEW c \in PutReq, NEW o \in BlockId, NEW n \in BlockId,
           CanRelink(c, o, n), BlockUpdate(c, o, n), NEW b \in BlockId
    PROVE  /\ Exists(b)' => /\ Exists(b)
                            /\ blocks'[b].rank = blocks[b].rank
                            /\ blocks'[b].hash = blocks[b].hash
                            /\ b # n => blocks'[b].refer = blocks[b].refer
           /\ b = n => Exists(b)' /\ blocks'[b].refer = blocks[b].refer + 1
           /\ b = o /\ b # n => (Exists(b)' <=> Exists(b) /\ ~DropsOld(o))
           /\ b # o /\ b # n => blocks'[b] = blocks[b]
           /\ DOMAIN links'[c] = DOMAIN links[c]
           /\ \A k \in DOMAIN links[c] :
                  links'[c][k] = IF links[c][k] = o THEN n ELSE links[c][k]
           /\ \A d \in PutReq \ {c} : links'[d] = links[d]
<1>0. blocks[b] \in BlockRow /\ blocks[b].refer \in Nat
  BY RowType
<1>1. /\ links'[c] = [k \in DOMAIN links[c] |-> IF links[c][k] = o THEN n ELSE links[c][k]]
      /\ \A d \in PutReq \ {c} : links'[d] = links[d]
  BY DEF BlockUpdate, TypeOK, RepositoryTypeOK
<1>2. CASE b = n
  <2>1. blocks'[b] = [blocks[b] EXCEPT !.refer = @ + 1]
    BY <1>2 DEF BlockUpdate
  <2>2. Exists(b)
    BY <1>2 DEF CanRelink
  <2>3. QED
    BY <1>0, <1>1, <1>2, <2>1, <2>2 DEF Exists, BlockRow
<1>3. CASE b # n /\ b = o /\ DropsOld(o)
  BY <1>0, <1>1, <1>3 DEF BlockUpdate, Exists, NoRow
<1>4. CASE b # n /\ ~(b = o /\ DropsOld(o))
  BY <1>0, <1>1, <1>4 DEF BlockUpdate, Exists
<1>5. QED
  BY <1>2, <1>3, <1>4

LEMMA InsertRow ==
    ASSUME TypeOK, PutShape, NEW p \in PutReq, NEW q \in Path, put[p].pc = "tx",
           BlockInsert(q, p, Hashes(p), put[p].rank), NEW b \in BlockId
    PROVE  /\ b[1] = p /\ Uploaded(b) =>
                  blocks'[b] = [hash |-> Digest[Origin(b)], refer |-> 1,
                                rank |-> put[p].rank[b[2]]]
           /\ ~(b[1] = p /\ Uploaded(b)) => blocks'[b] = blocks[b]
           /\ DOMAIN links'[p] = 1 .. put[p].n
           /\ \A k \in 1 .. put[p].n : links'[p][k] = <<p, k>>
           /\ \A d \in PutReq \ {p} : links'[d] = links[d]
<1>1. put[p] \in Put /\ put[p].n \in Nat
  BY PutFields DEF TypeOK, ServiceTypeOK
<1>2. Len(Hashes(p)) = put[p].n
  BY <1>1 DEF Hashes
<1>3. b[2] \in 1 .. MaxBlocks /\ b[2] \in Nat \ {0}
  BY RowType, MaxBlocksAssumption
<1>4. CASE b[1] = p /\ Uploaded(b)
  <2>1. Hashes(p)[b[2]] = Digest[Origin(b)]
    BY <1>1, <1>3, <1>4 DEF Hashes, Uploaded, Origin
  <2>2. blocks'[b] = [hash |-> Hashes(p)[b[2]], refer |-> 1, rank |-> put[p].rank[b[2]]]
    BY <1>2, <1>4 DEF BlockInsert, Uploaded
  <2>3. QED
    BY <1>1, <1>2, <1>4, <2>1, <2>2 DEF BlockInsert, TypeOK, RepositoryTypeOK
<1>5. CASE ~(b[1] = p /\ Uploaded(b))
  BY <1>1, <1>2, <1>5 DEF BlockInsert, TypeOK, RepositoryTypeOK, Uploaded
<1>6. QED
  BY <1>4, <1>5

-----------------------------------------------------------------------------
(* Rows, as long as they live, and rows that are gone.                     *)

LEMMA OwnType ==
    ASSUME IInv, NEW p \in PutReq, AtBlock(p)
    PROVE  Own(p) \in BlockId /\ Uploaded(Own(p)) /\ put[p].pc = "done"
<1>1. put[p] \in Put /\ job[p].i \in 1 .. put[p].n /\ put[p].pc = "done"
  BY DEF IInv, TypeOK, ServiceTypeOK, JobsFaithful
<1>2. QED
  BY <1>1, PutFields, MaxBlocksAssumption DEF Own, BlockId, Uploaded

LEMMA LinkType ==
    ASSUME IInv, NEW p \in PutReq, job[p].pc = "link"
    PROVE  /\ Own(p) \in BlockId /\ job[p].new \in BlockId
           /\ Uploaded(Own(p)) /\ Uploaded(job[p].new)
           /\ Alike(job[p].new, Own(p))
  BY OwnType DEF IInv, JobsFaithful, AtBlock, Alike

LEMMA BrokenType ==
    ASSUME IInv, NEW p \in PutReq, job[p].pc = "break"
    PROVE  Old(p) \in PutReq
<1>1. put[p] \in Put /\ Old(p) # None
  BY DEF IInv, TypeOK, ServiceTypeOK, JobsFaithful
<1>2. QED
  BY <1>1, PutFields DEF Old

LEMMA CurrentType ==
    ASSUME TypeOK, NEW q \in Path, files[q].chain # None
    PROVE  files[q].chain \in PutReq
  BY DEF TypeOK, RepositoryTypeOK, FileRow

\* A row is inserted by the commit of its upload, and then keeps its rank and
\* its hash.
LEMMA RowChange ==
    ASSUME IInv, [Next]_vars, NEW b \in BlockId, Exists(b)'
    PROVE  \/ /\ Exists(b)
              /\ blocks'[b].rank = blocks[b].rank
              /\ blocks'[b].hash = blocks[b].hash
           \/ /\ InTx(b[1])
              /\ Committed(b[1])'
              /\ Uploaded(b)
              /\ blocks'[b].hash = Digest[Origin(b)]
              /\ blocks'[b].refer = 1
              /\ blocks'[b].rank = put[b[1]].rank[b[2]]
              /\ UNCHANGED <<objects, job>>
<1> USE DEF IInv
<1>1. CASE UNCHANGED <<links, blocks>>
  BY <1>1 DEF Exists
<1>2. ASSUME NEW p \in PutReq, NEW q \in Path, put[p].pc = "tx",
             BlockInsert(q, p, Hashes(p), put[p].rank), Committed(p)',
             UNCHANGED <<objects, job>>
      PROVE  \/ blocks'[b] = blocks[b]
             \/ /\ InTx(b[1])
                /\ Committed(b[1])'
                /\ Uploaded(b)
                /\ blocks'[b].hash = Digest[Origin(b)]
                /\ blocks'[b].refer = 1
                /\ blocks'[b].rank = put[b[1]].rank[b[2]]
                /\ UNCHANGED <<objects, job>>
  <2>1. CASE b[1] = p /\ Uploaded(b)
    <3>1. blocks'[b] = [hash |-> Digest[Origin(b)], refer |-> 1, rank |-> put[p].rank[b[2]]]
      BY <1>2, <2>1, InsertRow
    <3>2. QED
      BY <1>2, <2>1, <3>1 DEF InTx, Committed
  <2>2. CASE ~(b[1] = p /\ Uploaded(b))
    BY <1>2, <2>2, InsertRow
  <2>3. QED
    BY <2>1, <2>2
<1>3. ASSUME NEW p \in PutReq, job[p].pc = "link",
             CanRelink(p, Own(p), job[p].new), BlockUpdate(p, Own(p), job[p].new)
      PROVE  /\ Exists(b)
             /\ blocks'[b].rank = blocks[b].rank
             /\ blocks'[b].hash = blocks[b].hash
  BY <1>3, LinkType, UpdateRow
<1>4. ASSUME NEW c \in PutReq, BlockDelete(c)
      PROVE  /\ Exists(b)
             /\ blocks'[b].rank = blocks[b].rank
             /\ blocks'[b].hash = blocks[b].hash
  BY <1>4, DeleteRow
<1> DEFINE Kept == /\ Exists(b)
                   /\ blocks'[b].rank = blocks[b].rank
                   /\ blocks'[b].hash = blocks[b].hash
           New == /\ InTx(b[1])
                  /\ Committed(b[1])'
                  /\ Uploaded(b)
                  /\ blocks'[b].hash = Digest[Origin(b)]
                  /\ blocks'[b].refer = 1
                  /\ blocks'[b].rank = put[b[1]].rank[b[2]]
                  /\ UNCHANGED <<objects, job>>
<1>5. (\E p \in PutReq, q \in Path : /\ put[p].pc = "tx"
                                       /\ BlockInsert(q, p, Hashes(p), put[p].rank)
                                       /\ Committed(p)'
                                       /\ UNCHANGED <<objects, job>>) => Kept \/ New
  BY <1>2 DEF Exists
<1>6. (\E c \in PutReq : BlockDelete(c)) => Kept
  BY <1>4
<1>7. QED
  BY <1>1, <1>3, <1>5, <1>6, TableSteps, BrokenType, CurrentType

\* A row that is gone does not come back: its upload is committed once.
LEMMA GoneStays ==
    ASSUME IInv, [Next]_vars, NEW b \in BlockId, Gone(b)
    PROVE  Gone(b)'
<1>1. b[1] \in PutReq
  BY RowType DEF IInv
<1>2. Committed(b[1])' /\ put[b[1]].pc # "tx"
  BY <1>1, PutSteady DEF IInv, Gone, Committed
<1>3. QED
  BY <1>2, RowChange DEF Gone, InTx

\* A block loses its object only when its row is gone.
LEMMA ObjectsKept ==
    ASSUME IInv, PurgedIsGone, [Next]_vars, NEW b \in BlockId, Stored(b), ~Gone(b)
    PROVE  Stored(b)'
<1>0. objects \in [BlockId -> Content \cup {NoObject}]
  BY DEF IInv, TypeOK, StorageTypeOK
<1>1. CASE objects' = objects
  BY <1>1 DEF Stored
<1>2. ASSUME NEW p \in PutReq, PutStore(p)
      PROVE  Stored(b)'
  <2>1. objects' \in [BlockId -> Content \cup {NoObject}]
    BY ObjectsType DEF IInv
  <2>2. put[p] \in Put /\ put[p].n < Len(put[p].body) /\ put[p].n \in Nat
    BY <1>2, PutFields DEF PutStore, IInv, PutShape, TypeOK, ServiceTypeOK
  <2>3. put[p].body \in Bodies /\ put[p].n + 1 \in 1 .. Len(put[p].body)
    BY <2>2, PutFields, BodyShape
  <2>4. put[p].body[put[p].n + 1] \in Content
    BY <2>3, BodyShape
  <2>5. QED
    BY <1>0, <1>2, <2>4, NoObjectAssumption DEF PutStore, Store, Stored
<1>3. ASSUME NEW a, Gone(a), Purge(a)
      PROVE  Stored(b)'
  BY <1>0, <1>3 DEF Purge, Stored
<1>4. ASSUME NEW p \in PutReq, PurgeOwn(p) \/ Sweep(p)
      PROVE  Stored(b)'
  BY <1>1, <1>3, <1>4 DEF PurgeOwn, Sweep, PurgedIsGone
<1>5. ASSUME NEW d \in DelReq, DeletePurge(d)
      PROVE  Stored(b)'
  BY <1>1, <1>3, <1>5 DEF DeletePurge, PurgedIsGone
<1>6. QED
  BY <1>1, <1>2, <1>4, <1>5, ObjectsChange

\* What two uploaded blocks have in common they keep.
LEMMA AlikeSteady ==
    ASSUME IInv, [Next]_vars, NEW a \in BlockId, NEW b \in BlockId,
           Uploaded(a), Uploaded(b)
    PROVE  Alike(a, b)' <=> Alike(a, b)
  BY UploadSteady DEF IInv, Alike

\* The oldest row stays the oldest: what is inserted is younger.
LEMMA OldestStays ==
    ASSUME IInv, RowsFaithful, RanksOrdered, [Next]_vars, NEW b \in BlockId,
           Exists(b), Exists(b)', Oldest(b)
    PROVE  Oldest(b)'
<1> SUFFICES ASSUME NEW a \in BlockId, Exists(a)', Alike(a, b)', Older(a, b)'
             PROVE  FALSE
  BY DEF Oldest
<1>1. Committed(b[1]) /\ Uploaded(b) /\ ~InTx(b[1])
  BY DEF RowsFaithful, InTx, Committed
<1>2. blocks'[b].rank = blocks[b].rank
  BY <1>1, RowChange
<1>3. CASE Exists(a) /\ blocks'[a].rank = blocks[a].rank
  <2>1. Alike(a, b) /\ Older(a, b)
    BY <1>1, <1>2, <1>3, AlikeSteady DEF RowsFaithful, Older
  <2>2. QED
    BY <1>3, <2>1 DEF Oldest
<1>4. CASE InTx(a[1]) /\ blocks'[a].rank = put[a[1]].rank[a[2]]
  <2>1. blocks[b].rank < put[a[1]].rank[a[2]]
    BY <1>4, RowType DEF RanksOrdered, IInv
  <2>2. blocks[b].rank \in Nat /\ put[a[1]].rank[a[2]] \in Nat
    BY RowType DEF IInv, TypeOK, ServiceTypeOK, Put
  <2>3. QED
    BY <1>2, <1>4, <2>1, <2>2 DEF Older
<1>5. QED
  BY <1>3, <1>4, RowChange

\* Why a relinking that succeeds takes the last link of the own block: had
\* another come to it, it would be the oldest of its kind, and there would be
\* no row to move to.
LEMMA Relinks ==
    ASSUME IInv, SerialInv, NEW p \in PutReq, job[p].pc = "link",
           CanRelink(p, Own(p), job[p].new)
    PROVE  /\ HasOwn(p) /\ Exists(Own(p)) /\ Exists(job[p].new)
           /\ Oldest(job[p].new) /\ Older(job[p].new, Own(p)) /\ Own(p) # job[p].new
           /\ blocks[Own(p)].refer = 1
           /\ \A c \in PutReq \ {p} : LinksTo(c, Own(p)) = {}
<1> DEFINE o == Own(p)
           n == job[p].new
<1>1. o \in BlockId /\ n \in BlockId /\ Uploaded(o) /\ Uploaded(n) /\ Alike(n, o)
  BY LinkType
<1>2. HasOwn(p) /\ Exists(n) /\ Exists(o)
  BY <1>1 DEF CanRelink, HasOwn, SerialInv, RowsFaithful, Linked
<1>3. /\ blocks[o].rank \in Nat /\ blocks[n].rank \in Nat /\ blocks[o].refer \in Nat
      /\ \A a \in BlockId : blocks[a].rank \in Nat
  BY <1>1, RowType DEF IInv
<1>4. Older(n, o) /\ \A t \in Twins(p) : blocks[n].rank <= t.rank
  BY <1>2 DEF SerialInv, CandidatesOrdered, NewFirst
<1>5. Oldest(n)
  <2> SUFFICES ASSUME NEW a \in BlockId, Exists(a), Alike(a, n), Older(a, n)
               PROVE  FALSE
    BY DEF Oldest
  <2>1. Alike(a, o) /\ Older(a, o) /\ a # n
    BY <1>1, <1>3, <1>4 DEF Alike, Older
  <2>2. PICK r \in job[p].similar : r.id = a
    BY <1>2, <2>1 DEF SerialInv, CandidatesOrdered, NoneMissed
  <2>3. r \in Twins(p) /\ blocks[a].rank = r.rank
    BY <2>1, <2>2 DEF Twins, SerialInv, CandidatesOrdered, Listed
  <2>4. QED
    BY <1>3, <1>4, <2>3 DEF Older
<1>6. ~Oldest(o)
  BY <1>1, <1>2, <1>4 DEF Oldest
<1>7. blocks[o].refer <= 1 /\ \A c \in PutReq \ {p} : LinksTo(c, o) = {}
  <2>1. o[1] = p
    BY DEF Own
  <2>2. QED
    BY <1>1, <1>3, <1>6, <2>1 DEF SerialInv, SharedIsOldest
<1>8. QED
  BY <1>1, <1>2, <1>3, <1>4, <1>5, <1>7 DEF Exists, Older

LEMMA UploadsStoredStep ==
    ASSUME IInv, UploadsStored, PurgedIsGone, [Next]_vars
    PROVE  UploadsStored'
<1> SUFFICES ASSUME NEW p \in PutReq, put'[p].pc \in {"store", "update", "tx"},
                    NEW k \in 1 .. put'[p].n
             PROVE  Stored(<<p, k>>)'
  BY DEF UploadsStored
<1>0. put[p] \in Put /\ put'[p] \in Put /\ put[p].n \in Nat /\ put'[p].n <= MaxBlocks
      /\ put'[p].n \in Nat
  BY PutType, PutFields DEF IInv, TypeOK, ServiceTypeOK
<1>1. <<p, k>> \in BlockId
  BY <1>0, MaxBlocksAssumption DEF BlockId
<1>2. ASSUME put[p].pc \in {"store", "update", "tx"}, k \in 1 .. put[p].n
      PROVE  Stored(<<p, k>>)'
  <2>1. ~Committed(p) /\ Stored(<<p, k>>)
    BY <1>2 DEF Committed, UploadsStored
  <2>2. ~Gone(<<p, k>>)
    BY <2>1 DEF Gone
  <2>3. QED
    BY <1>1, <2>1, <2>2, ObjectsKept
<1>3. CASE PutStore(p)
  <2>1. put[p].pc = "store"
    BY <1>3 DEF PutStore
  <2>a. put'[p].n = put[p].n + 1
    BY <1>0, <1>3 DEF PutStore, Put, IInv, TypeOK, ServiceTypeOK
  <2>2. CASE k = put[p].n + 1
    <3>1. put[p].n < Len(put[p].body) /\ put[p].body \in Bodies
      BY <1>0, <2>1, PutFields DEF IInv, PutShape
    <3>2. put[p].n + 1 \in 1 .. Len(put[p].body)
      BY <1>0, <3>1, BodyShape
    <3>3. put[p].body[k] \in Content
      BY <2>2, <3>1, <3>2, BodyShape
    <3>4. objects'[<<p, k>>] = put[p].body[k]
      BY <1>1, <1>3, <2>2 DEF PutStore, Store, IInv, TypeOK, StorageTypeOK
    <3>5. QED
      BY <3>3, <3>4, NoObjectAssumption DEF Stored
  <2>3. CASE k # put[p].n + 1
    BY <1>0, <1>2, <2>1, <2>a, <2>3
  <2>4. QED
    BY <2>2, <2>3
<1>4. ~PutStore(p) => put'[p].n = put[p].n
  BY PutMoves DEF IInv
<1>5. CASE put[p].pc = "idle"
  <2>1. put[p].n = 0
    BY <1>5 DEF IInv, PutShape
  <2>2. QED
    BY <1>3, <1>4, <2>1, <1>0
<1>6. CASE put[p].pc # "idle"
  BY <1>0, <1>2, <1>3, <1>4, <1>6, PathSteady DEF IInv
<1>7. QED
  BY <1>5, <1>6

-----------------------------------------------------------------------------
(* Rows and links.                                                         *)

\* What the three functions of the schema do, with what their callers know.
LEMMA SerialSteps ==
    ASSUME IInv, SerialInv, [Next]_vars
    PROVE  \/ UNCHANGED <<links, blocks>>
           \/ \E p \in PutReq, q \in Path :
                  /\ InTx(p) /\ BlockInsert(q, p, Hashes(p), put[p].rank)
                  /\ UNCHANGED <<objects, del, job, mail, get>>
           \/ \E p \in PutReq :
                  /\ job[p].pc = "link" /\ CanRelink(p, Own(p), job[p].new)
                  /\ BlockUpdate(p, Own(p), job[p].new)
                  /\ UNCHANGED serviceVars
           \/ \E c \in PutReq : /\ \A b \in Freed(c) : ForeignKeyHolds(b, c)
                                /\ BlockDelete(c) /\ UNCHANGED put
<1>1. TypeOK
  BY DEF IInv
<1>2. QED
  BY <1>1, TableSteps, BrokenType, CurrentType DEF InTx, CanDelete, serviceVars

LEMMA LinkedHasRow ==
    ASSUME IInv, SerialInv, [Next]_vars, NEW b \in BlockId, Linked(b)'
    PROVE  Exists(b)'
<1> USE DEF LinksTo
<1>0. PICK c \in PutReq : \E k \in DOMAIN links'[c] : links'[c][k] = b
  BY DEF Linked
<1>1. TypeOK /\ PutShape /\ blocks[b].refer \in Nat
  BY RowType DEF IInv
<1>2. ASSUME LinksTo(c, b) # {}
      PROVE  Exists(b)
  BY <1>2 DEF SerialInv, RowsFaithful, Linked
<1>3. CASE UNCHANGED <<links, blocks>>
  BY <1>0, <1>2, <1>3 DEF Exists
<1>4. ASSUME NEW p \in PutReq, NEW q \in Path, InTx(p),
             BlockInsert(q, p, Hashes(p), put[p].rank)
      PROVE  Exists(b)'
  <2>1. CASE b[1] = p /\ Uploaded(b)
    <3>1. blocks'[b] = [hash |-> Digest[Origin(b)], refer |-> 1, rank |-> put[p].rank[b[2]]]
      BY <1>1, <1>4, <2>1, InsertRow DEF InTx
    <3>2. QED
      BY <3>1 DEF Exists
  <2>2. CASE ~(b[1] = p /\ Uploaded(b))
    <3>1. c # p
      <4>1. SUFFICES ASSUME c = p PROVE FALSE
        OBVIOUS
      <4>2. DOMAIN links'[p] = 1 .. put[p].n /\ \A k \in 1 .. put[p].n : links'[p][k] = <<p, k>>
        BY <1>1, <1>4, InsertRow DEF InTx
      <4>3. \E k \in 1 .. put[p].n : <<p, k>> = b
        BY <1>0, <4>1, <4>2
      <4>4. put[p].n \in Nat
        BY <1>1, PutFields DEF TypeOK, ServiceTypeOK
      <4>5. QED
        BY <2>2, <4>3, <4>4 DEF Uploaded
    <3>2. links'[c] = links[c] /\ blocks'[b] = blocks[b]
      BY <1>1, <1>4, <2>2, <3>1, InsertRow DEF InTx
    <3>3. QED
      BY <1>0, <1>2, <3>2 DEF Exists
  <2>3. QED
    BY <2>1, <2>2
<1>5. ASSUME NEW p \in PutReq, job[p].pc = "link", CanRelink(p, Own(p), job[p].new),
             BlockUpdate(p, Own(p), job[p].new)
      PROVE  Exists(b)'
  <2>1. Own(p) \in BlockId /\ job[p].new \in BlockId /\ Own(p) # job[p].new
        /\ \A d \in PutReq \ {p} : LinksTo(d, Own(p)) = {}
    BY <1>5, LinkType, Relinks
  <2>2. CASE b = job[p].new
    BY <1>1, <1>5, <2>1, <2>2, UpdateRow
  <2>3. CASE b # job[p].new
    <3>1. LinksTo(c, b) # {} /\ b # Own(p)
      BY <1>0, <1>1, <1>5, <2>1, <2>3, UpdateRow
    <3>2. blocks'[b] = blocks[b]
      BY <1>1, <1>5, <2>1, <2>3, <3>1, UpdateRow
    <3>3. QED
      BY <1>2, <3>1, <3>2 DEF Exists
  <2>4. QED
    BY <2>2, <2>3
<1>6. ASSUME NEW d \in PutReq, \A x \in Freed(d) : ForeignKeyHolds(x, d), BlockDelete(d)
      PROVE  Exists(b)'
  <2>1. links'[c] = links[c] /\ c # d
    BY <1>0, <1>1, <1>6, DeleteRow
  <2>2. LinksTo(c, b) # {} /\ b \notin Freed(d)
    BY <1>0, <1>6, <2>1 DEF ForeignKeyHolds
  <2>3. QED
    BY <1>1, <1>2, <1>6, <2>2, DeleteRow
<1>7. QED
  BY <1>3, <1>4, <1>5, <1>6, SerialSteps

LEMMA RowsFaithfulStep ==
    ASSUME IInv, SerialInv, [Next]_vars
    PROVE  RowsFaithful'
<1> SUFFICES ASSUME NEW b \in BlockId, Exists(b)'
             PROVE  /\ Committed(b[1])' /\ Uploaded(b)' /\ Stored(b)'
                    /\ blocks'[b].hash = Digest[Origin(b)']
  BY LinkedHasRow DEF RowsFaithful
<1>1. TypeOK /\ PutShape /\ b[1] \in PutReq /\ b[2] \in 1 .. MaxBlocks /\ b = <<b[1], b[2]>>
  BY RowType DEF IInv
<1>2. CASE Exists(b) /\ blocks'[b].hash = blocks[b].hash
  <2>1. Committed(b[1]) /\ Uploaded(b) /\ Stored(b) /\ blocks[b].hash = Digest[Origin(b)]
    BY <1>2 DEF SerialInv, RowsFaithful
  <2>2. Stored(b)'
    BY <1>2, <2>1, ObjectsKept DEF Gone, SerialInv
  <2>3. QED
    BY <1>1, <1>2, <2>1, <2>2, PutSteady, UploadSteady
<1>3. CASE /\ InTx(b[1]) /\ Committed(b[1])' /\ Uploaded(b)
           /\ blocks'[b].hash = Digest[Origin(b)]
           /\ UNCHANGED objects
  <2>1. Stored(b)
    BY <1>1, <1>3 DEF InTx, Uploaded, SerialInv, UploadsStored
  <2>2. QED
    BY <1>1, <1>3, <2>1, UploadSteady DEF Stored
<1>4. QED
  BY <1>2, <1>3, RowChange

-----------------------------------------------------------------------------
(* One transaction at a time.                                              *)

LEMMA TxBegins ==
    ASSUME IInv, Serial, RanksOrdered, NEW p \in PutReq, PutBegin(p)
    PROVE  /\ \A r \in PutReq : ~InTx(r) /\ (InTx(r)' => r = p)
           /\ put'[p].rank \in RankDraws
           /\ now' = now + MaxBlocks
           /\ UNCHANGED blocks
<1>1. \A r \in PutReq : ~InTx(r)
  <2> DEFINE T == {r \in PutReq : put[r].pc = "tx"}
  <2> SUFFICES ASSUME NEW r \in PutReq, InTx(r) PROVE FALSE
    OBVIOUS
  <2>1. T = {r}
    BY DEF RanksOrdered, InTx
  <2>2. Cardinality(T) = 1
    BY <2>1, FS_Singleton
  <2>3. Cardinality(T) < 1
    BY DEF PutBegin, Serial
  <2>4. QED
    BY <2>2, <2>3
<1>2. PICK k \in RankDraws : put' = [put EXCEPT ![p] = [@ EXCEPT !.pc = "tx", !.rank = k]]
  BY DEF PutBegin
<1>3. put \in [PutReq -> Put] /\ put[p] \in Put
  BY DEF IInv, TypeOK, ServiceTypeOK
<1>4. put'[p].rank = k /\ \A r \in PutReq \ {p} : put'[r] = put[r]
  BY <1>2, <1>3 DEF Put
<1>5. QED
  BY <1>1, <1>4 DEF InTx, PutBegin, DrawRanks

LEMMA TxMoves ==
    ASSUME IInv, [Next]_vars, NEW p \in PutReq, InTx(p)'
    PROVE  put'[p] = put[p] \/ PutBegin(p)
  BY PutMoves DEF IInv, InTx

LEMMA RanksOrderedStep ==
    ASSUME IInv, Serial, SerialInv, [Next]_vars
    PROVE  RanksOrdered'
<1> USE DEF SerialInv
<1>0. now \in Nat /\ now' \in Nat /\ now <= now' /\ MaxBlocks \in Nat \ {0}
  BY NowChanges, MaxBlocksAssumption DEF IInv, TypeOK, RepositoryTypeOK, DrawRanks
<1> DEFINE Kept(b) == Exists(b) /\ blocks'[b].rank = blocks[b].rank
           New(b) == /\ InTx(b[1]) /\ Committed(b[1])'
                     /\ blocks'[b].rank = put[b[1]].rank[b[2]]
<1>1. \A b \in BlockId : Exists(b)' => Kept(b) \/ New(b)
  BY RowChange
<1>2. \A b \in BlockId : blocks[b].rank \in Nat /\ b[1] \in PutReq /\ b[2] \in 1 .. MaxBlocks
                         /\ b = <<b[1], b[2]>>
  BY RowType DEF IInv
<1>3. \A p \in PutReq : \A k \in 1 .. MaxBlocks : put[p].rank[k] \in Nat
  BY DEF IInv, TypeOK, ServiceTypeOK, Put
<1>4. ASSUME NEW b \in BlockId, Exists(b)'
      PROVE  blocks'[b].rank <= now'
  <2>1. blocks'[b].rank <= now /\ blocks'[b].rank \in Nat
    BY <1>1, <1>2, <1>3, <1>4 DEF RanksOrdered
  <2>2. QED
    BY <1>0, <2>1
<1>5. ASSUME NEW a \in BlockId, NEW b \in BlockId, Exists(a)', Exists(b)', a # b
      PROVE  blocks'[a].rank # blocks'[b].rank
  <2>1. CASE Kept(a) /\ Kept(b)
    BY <1>5, <2>1 DEF RanksOrdered
  <2>2. CASE Kept(a) /\ New(b)
    <3>1. blocks[a].rank < put[b[1]].rank[b[2]]
      BY <1>2, <2>2 DEF RanksOrdered
    <3>2. QED
      BY <1>2, <1>3, <2>2, <3>1
  <2>3. CASE New(a) /\ Kept(b)
    <3>1. blocks[b].rank < put[a[1]].rank[a[2]]
      BY <1>2, <2>3 DEF RanksOrdered
    <3>2. QED
      BY <1>2, <1>3, <2>3, <3>1
  <2>4. CASE New(a) /\ New(b)
    <3>1. a[1] = b[1] /\ a[2] # b[2]
      BY <1>2, <1>5, <2>4 DEF RanksOrdered
    <3>2. QED
      BY <1>2, <2>4, <3>1 DEF RanksOrdered
  <2>5. QED
    BY <1>1, <1>5, <2>1, <2>2, <2>3, <2>4
<1>6. ASSUME NEW p \in PutReq, InTx(p)', put'[p] = put[p]
      PROVE  /\ \A r \in PutReq : InTx(r)' => r = p
             /\ \A j, k \in 1 .. MaxBlocks : put'[p].rank[j] = put'[p].rank[k] => j = k
             /\ \A k \in 1 .. MaxBlocks :
                 /\ put'[p].rank[k] <= now'
                 /\ \A b \in BlockId : Exists(b)' => blocks'[b].rank < put'[p].rank[k]
  <2>0. InTx(p) /\ ~Committed(p)'
    BY <1>6 DEF InTx, Committed
  <2>1. \A r \in PutReq : InTx(r)' => r = p
    BY <2>0, TxMoves, TxBegins DEF RanksOrdered, InTx
  <2>2. \A b \in BlockId : Exists(b)' => Kept(b)
    BY <1>1, <1>2, <2>0 DEF RanksOrdered
  <2>3. \A k \in 1 .. MaxBlocks : put[p].rank[k] <= now
    BY <2>0 DEF RanksOrdered
  <2>4. QED
    BY <1>0, <1>3, <1>6, <2>0, <2>1, <2>2, <2>3 DEF RanksOrdered
<1>7. ASSUME NEW p \in PutReq, InTx(p)', PutBegin(p)
      PROVE  /\ \A r \in PutReq : InTx(r)' => r = p
             /\ \A j, k \in 1 .. MaxBlocks : put'[p].rank[j] = put'[p].rank[k] => j = k
             /\ \A k \in 1 .. MaxBlocks :
                 /\ put'[p].rank[k] <= now'
                 /\ \A b \in BlockId : Exists(b)' => blocks'[b].rank < put'[p].rank[k]
  <2>1. /\ \A r \in PutReq : InTx(r)' => r = p
        /\ put'[p].rank \in RankDraws
        /\ now' = now + MaxBlocks
        /\ blocks' = blocks
    BY <1>7, TxBegins
  <2>2. \A k \in 1 .. MaxBlocks : put'[p].rank[k] \in (now + 1) .. (now + MaxBlocks)
    BY <2>1 DEF RankDraws
  <2>3. \A b \in BlockId : Exists(b)' => blocks'[b].rank <= now
    BY <2>1 DEF Exists, RanksOrdered
  <2>4. \A j, k \in 1 .. MaxBlocks : put'[p].rank[j] = put'[p].rank[k] => j = k
    BY <2>1 DEF RankDraws
  <2>5. QED
    BY <1>0, <1>2, <2>1, <2>2, <2>3, <2>4
<1>8. QED
  BY <1>4, <1>5, <1>6, <1>7, TxMoves DEF RanksOrdered

-----------------------------------------------------------------------------
(* Only the oldest is shared.                                              *)

LEMMA SharedIsOldestStep ==
    ASSUME IInv, SerialInv, [Next]_vars
    PROVE  SharedIsOldest'
<1> DEFINE Foreign(b) == \E c \in PutReq \ {b[1]} : LinksTo(c, b) # {}
           Shared1(b) == blocks[b].refer > 1 \/ Foreign(b)
<1> SUFFICES ASSUME NEW b \in BlockId, Shared1(b)'
             PROVE  Oldest(b)'
  BY DEF SharedIsOldest
<1>1. TypeOK /\ PutShape /\ blocks[b].refer \in Nat /\ b[1] \in PutReq
  BY RowType DEF IInv
<1>2. Exists(b)'
  <2>1. blocks'[b].refer > 1 => Exists(b)'
    <3>1. blocks'[b].refer \in Nat
      BY NextIInv DEF IInv, TypeOK, RepositoryTypeOK, BlockRow
    <3>2. QED
      BY <3>1 DEF Exists
  <2>2. Foreign(b)' => Linked(b)'
    BY DEF Linked
  <2>3. QED
    BY <2>1, <2>2, LinkedHasRow
<1>3. Shared1(b) => Exists(b) /\ Oldest(b)
  <2>1. Foreign(b) => Linked(b)
    BY DEF Linked
  <2>2. Shared1(b) => Exists(b)
    BY <1>1, <2>1 DEF SerialInv, RowsFaithful, Exists
  <2>3. QED
    BY <2>2 DEF SerialInv, SharedIsOldest
<1>4. SUFFICES Exists(b) /\ Oldest(b)
  BY <1>2, <1>4, OldestStays DEF SerialInv
<1>5. CASE UNCHANGED <<links, blocks>>
  BY <1>3, <1>5 DEF LinksTo
<1>6. ASSUME NEW p \in PutReq, NEW q \in Path, InTx(p),
             BlockInsert(q, p, Hashes(p), put[p].rank)
      PROVE  Shared1(b)
  <2>1. \A c \in PutReq \ {p} : LinksTo(c, b)' = LinksTo(c, b)
    <3>1. \A c \in PutReq \ {p} : links'[c] = links[c]
      BY <1>1, <1>6, InsertRow DEF InTx
    <3>2. QED
      BY <3>1 DEF LinksTo
  <2>2. LinksTo(p, b)' # {} => b[1] = p
    <3>1. DOMAIN links'[p] = 1 .. put[p].n /\ \A k \in 1 .. put[p].n : links'[p][k] = <<p, k>>
      BY <1>1, <1>6, InsertRow DEF InTx
    <3>2. QED
      BY <3>1 DEF LinksTo
  <2>3. Foreign(b)' => Foreign(b)
    BY <2>1, <2>2
  <2>4. blocks'[b] = blocks[b] \/ blocks'[b].refer = 1
    <3>1. blocks'[b] = blocks[b]
          \/ blocks'[b] = [hash |-> Digest[Origin(b)], refer |-> 1, rank |-> put[p].rank[b[2]]]
      BY <1>1, <1>6, InsertRow DEF InTx
    <3>2. QED
      BY <3>1
  <2>5. QED
    BY <2>3, <2>4
<1>7. ASSUME NEW p \in PutReq, job[p].pc = "link", CanRelink(p, Own(p), job[p].new),
             BlockUpdate(p, Own(p), job[p].new)
      PROVE  Exists(b) /\ Oldest(b)
  <2> DEFINE o == Own(p)
             n == job[p].new
  <2>1. /\ o \in BlockId /\ n \in BlockId /\ o # n /\ blocks[o].refer = 1
        /\ Exists(n) /\ Oldest(n)
    BY <1>7, LinkType, Relinks
  <2>2. CASE b = n
    BY <2>1, <2>2
  <2>3. CASE b = o
    BY <1>1, <1>2, <1>7, <2>1, <2>3, UpdateRow DEF DropsOld
  <2>4. CASE b # n /\ b # o
    <3>1. blocks'[b] = blocks[b]
      BY <1>1, <1>7, <2>1, <2>4, UpdateRow
    <3>2. \A c \in PutReq : LinksTo(c, b)' # {} => LinksTo(c, b) # {}
      <4>1. \A c \in PutReq \ {p} : LinksTo(c, b)' = LinksTo(c, b)
        BY <1>1, <1>7, <2>1, UpdateRow DEF LinksTo
      <4>2. /\ DOMAIN links'[p] = DOMAIN links[p]
            /\ \A k \in DOMAIN links[p] : links'[p][k] = IF links[p][k] = o THEN n ELSE links[p][k]
        BY <1>1, <1>7, <2>1, UpdateRow
      <4>3. LinksTo(p, b)' # {} => LinksTo(p, b) # {}
        BY <2>4, <4>2 DEF LinksTo
      <4>4. QED
        BY <4>1, <4>3
    <3>3. QED
      BY <1>3, <3>1, <3>2
  <2>5. QED
    BY <2>2, <2>3, <2>4
<1>8. ASSUME NEW d \in PutReq, BlockDelete(d)
      PROVE  Shared1(b)
  <2>1. blocks'[b].refer <= blocks[b].refer /\ blocks'[b].refer \in Nat
    BY <1>1, <1>2, <1>8, DeleteRow, NextIInv DEF IInv, TypeOK, RepositoryTypeOK, BlockRow
  <2>2. \A c \in PutReq : links'[c] = IF c = d THEN <<>> ELSE links[c]
    BY <1>1, <1>8, DeleteRow
  <2>3. Foreign(b)' => Foreign(b)
    BY <2>2 DEF LinksTo
  <2>4. QED
    BY <1>1, <2>1, <2>3
<1>9. QED
  BY <1>3, <1>5, <1>6, <1>7, <1>8, SerialSteps

-----------------------------------------------------------------------------
(* How the record of a handler changes.                                    *)

LEMMA AfterBlockFields ==
    ASSUME IInv, NEW p \in PutReq, AtBlock(p)
    PROVE  /\ AfterBlock(p).left = {} /\ AfterBlock(p).similar = {}
           /\ AfterBlock(p).pc \in {"lookup", "break", "done"}
           /\ job[p].i < put[p].n => AfterBlock(p).pc = "lookup" /\ AfterBlock(p).i = job[p].i + 1
           /\ ~(job[p].i < put[p].n) => AfterBlock(p).pc \in {"break", "done"}
<1>1. CASE job[p].i < put[p].n
  <2>1. AfterBlock(p) = [pc |-> "lookup", i |-> job[p].i + 1, similar |-> {},
                         new |-> <<>>, left |-> {}]
    BY <1>1 DEF AfterBlock, JobAt
  <2>2. QED
    BY <1>1, <2>1
<1>2. CASE ~(job[p].i < put[p].n)
  <2>1. AfterBlock(p) = [pc |-> IF Old(p) = None THEN "done" ELSE "break", i |-> 0,
                         similar |-> {}, new |-> <<>>, left |-> {}]
    BY <1>2 DEF AfterBlock, JobAt
  <2>2. QED
    BY <1>2, <2>1
<1>3. QED
  BY <1>1, <1>2

LEMMA WithSimilarFields ==
    ASSUME IInv, NEW p \in PutReq, NEW s, s # {}
    PROVE  /\ WithSimilar(p, s).pc = "compare" /\ WithSimilar(p, s).similar = s
           /\ WithSimilar(p, s).i = job[p].i /\ WithSimilar(p, s).left = job[p].left
<1>1. job[p] \in Job
  BY DEF IInv, TypeOK, ChainTypeOK
<1>2. QED
  BY <1>1 DEF WithSimilar, Job

LEMMA JobMoves ==
    ASSUME IInv, [Next]_vars, NEW p \in PutReq
    PROVE  \/ job'[p] = job[p]
           \/ /\ FileQuery(p) /\ p \in mail
              /\ job'[p].pc = "lookup" /\ job'[p].i = 1 /\ job'[p].left = {}
           \/ /\ (BreakFails(p) /\ job[p].pc = "break") \/ ChainCrash
              /\ job'[p].pc = "failed" /\ job'[p].left = {}
           \/ /\ \/ LookupError(p) /\ job[p].pc = "lookup"
                 \/ PurgeOwn(p) /\ job[p].pc = "purge"
              /\ job'[p] = AfterBlock(p)
           \/ /\ Lookup(p) /\ job[p].pc = "lookup" /\ UNCHANGED <<links, blocks>>
              /\ job'[p] = WithSimilar(p, Similar(p))
           \/ \E r \in First(job[p].similar) :
                 /\ Compare(p) /\ job[p].pc = "compare" /\ UNCHANGED <<links, blocks>>
                 /\ \/ /\ Same(Own(p), r.id)
                       /\ job'[p].pc = "link" /\ job'[p].new = r.id
                       /\ job'[p].similar = job[p].similar \ {r}
                       /\ job'[p].i = job[p].i /\ job'[p].left = job[p].left
                    \/ /\ ~Same(Own(p), r.id) \/ "error" \in Faults
                       /\ job'[p] = WithSimilar(p, job[p].similar \ {r})
           \/ /\ Link(p) /\ job[p].pc = "link"
              /\ job'[p].pc = "purge" /\ job'[p].i = job[p].i /\ job'[p].left = job[p].left
           \/ /\ LinkFails(p) \/ LinkUnanswered(p)
              /\ job[p].pc = "link" /\ job'[p] = WithSimilar(p, job[p].similar)
           \/ /\ Break(p) /\ job[p].pc = "break"
              /\ "reply" \notin Faults => job'[p].left = Freed(Old(p))
              /\ job'[p].left \subseteq Freed(Old(p))
              /\ \/ job'[p].pc = IF job'[p].left = {} THEN "done" ELSE "sweep"
                 \/ job'[p].pc = "failed" /\ job'[p].left = {}
           \/ /\ Sweep(p) /\ job[p].pc = "sweep"
              /\ \E b \in job[p].left :
                    /\ job'[p].left = job[p].left \ {b}
                    /\ \A x \in BlockId : x # b => objects'[x] = objects[x]
                    /\ "error" \notin Faults => ~Stored(b)'
                    /\ job'[p].pc = IF job'[p].left = {} THEN "done" ELSE "sweep"
<1>0. job \in [PutReq -> Job] /\ job[p] \in Job
  BY DEF IInv, TypeOK, ChainTypeOK
<1>1. ASSUME NEW r \in PutReq, r # p,
             \/ FileQuery(r) \/ Lookup(r) \/ LookupError(r) \/ Compare(r) \/ Link(r)
             \/ LinkFails(r) \/ LinkUnanswered(r) \/ PurgeOwn(r) \/ Break(r)
             \/ BreakFails(r) \/ Sweep(r)
      PROVE  job'[p] = job[p]
  BY <1>0, <1>1 DEF FileQuery, Lookup, LookupError, Compare, Link, LinkFails,
     LinkUnanswered, PurgeOwn, Break, BreakFails, Sweep
<1>2. CASE FileQuery(p) \/ BreakFails(p) \/ LookupError(p) \/ PurgeOwn(p)
  BY <1>0, <1>2 DEF FileQuery, BreakFails, LookupError, PurgeOwn, JobAt
<1>3. CASE ChainCrash
  <2>1. job'[p] = IF Running(p) THEN JobAt("failed", 0, {}) ELSE job[p]
    BY <1>0, <1>3 DEF ChainCrash
  <2>2. QED
    BY <1>3, <2>1 DEF JobAt
<1>4. CASE Lookup(p)
  BY <1>0, <1>4 DEF Lookup, dbVars
<1>5. CASE Compare(p)
  <2>1. PICK r \in First(job[p].similar) :
          \/ /\ Same(Own(p), r.id)
             /\ job' = [job EXCEPT ![p] = [@ EXCEPT !.pc = "link", !.new = r.id,
                                                    !.similar = job[p].similar \ {r}]]
          \/ /\ ~Same(Own(p), r.id) \/ "error" \in Faults
             /\ job' = [job EXCEPT ![p] = WithSimilar(p, job[p].similar \ {r})]
    BY <1>5 DEF Compare
  <2>2. job[p].pc = "compare" /\ UNCHANGED <<links, blocks>>
    BY <1>5 DEF Compare, dbVars
  <2>3. CASE job' = [job EXCEPT ![p] = [@ EXCEPT !.pc = "link", !.new = r.id,
                                                 !.similar = job[p].similar \ {r}]]
    <3>1. /\ job'[p].pc = "link" /\ job'[p].new = r.id
          /\ job'[p].similar = job[p].similar \ {r}
          /\ job'[p].i = job[p].i /\ job'[p].left = job[p].left
      BY <1>0, <2>3 DEF Job
    <3>2. CASE Same(Own(p), r.id)
      BY <1>5, <2>2, <3>1, <3>2
    <3>3. CASE ~Same(Own(p), r.id)
      BY <1>0, <1>5, <2>1, <2>2, <3>3
    <3>4. QED
      BY <3>2, <3>3
  <2>4. CASE job' # [job EXCEPT ![p] = [@ EXCEPT !.pc = "link", !.new = r.id,
                                                 !.similar = job[p].similar \ {r}]]
    <3>1. /\ ~Same(Own(p), r.id) \/ "error" \in Faults
          /\ job'[p] = WithSimilar(p, job[p].similar \ {r})
      BY <1>0, <2>1, <2>4
    <3>2. QED
      BY <1>5, <2>2, <3>1
  <2>5. QED
    BY <2>3, <2>4
<1>6. CASE Link(p)
  <2>1. job' = [job EXCEPT ![p] = [@ EXCEPT !.pc = "purge", !.new = <<>>, !.similar = {}]]
        /\ job[p].pc = "link"
    BY <1>6 DEF Link
  <2>2. QED
    BY <1>0, <1>6, <2>1 DEF Job
<1>a. CASE LinkFails(p) \/ LinkUnanswered(p)
  BY <1>0, <1>a DEF LinkFails, LinkUnanswered
<1>7. CASE Break(p)
  <2> DEFINE left == Freed(Old(p))
  <2>1. \/ job' = [job EXCEPT ![p] =
                JobAt(IF left = {} THEN "done" ELSE "sweep", 0, left)]
        \/ "reply" \in Faults /\ job' = [job EXCEPT ![p] = JobAt("failed", 0, {})]
    BY <1>7, IdsOfDeleted DEF Break
  <2>2. \/ job'[p].left = left /\ job'[p].pc = IF left = {} THEN "done" ELSE "sweep"
        \/ "reply" \in Faults /\ job'[p].left = {} /\ job'[p].pc = "failed"
    BY <1>0, <2>1 DEF JobAt
  <2>3. QED
    BY <1>7, <2>2 DEF Break
<1>8. CASE Sweep(p)
  <2>1. PICK b \in job[p].left :
          /\ Purge(b) \/ ("error" \in Faults /\ UNCHANGED objects)
          /\ job' = [job EXCEPT ![p] = [@ EXCEPT !.left = job[p].left \ {b},
                      !.pc = IF job[p].left \ {b} = {} THEN "done" ELSE "sweep"]]
    BY <1>8 DEF Sweep
  <2>2. objects \in [BlockId -> Content \cup {NoObject}] /\ b \in BlockId
    BY <1>0 DEF IInv, TypeOK, StorageTypeOK, Job
  <2>3. /\ \A x \in BlockId : x # b => objects'[x] = objects[x]
        /\ "error" \notin Faults => ~Stored(b)'
    BY <2>1, <2>2 DEF Purge, Stored
  <2>4. /\ job'[p].left = job[p].left \ {b}
        /\ job'[p].pc = IF job'[p].left = {} THEN "done" ELSE "sweep"
    BY <1>0, <2>1 DEF Job
  <2>5. QED
    BY <1>8, <2>3, <2>4 DEF Sweep
<1>9. QED
  BY <1>1, <1>2, <1>3, <1>4, <1>5, <1>6, <1>a, <1>7, <1>8, JobsChange

-----------------------------------------------------------------------------
(* What is purged is gone.                                                 *)

LEMMA FreedGone ==
    ASSUME IInv, SerialInv, [Next]_vars, NEW c \in PutReq, BlockDelete(c), NEW b \in Freed(c)
    PROVE  Gone(b)'
<1>1. b \in BlockId /\ b[1] \in PutReq /\ TypeOK /\ PutShape
  BY RowType DEF Freed, IInv
<1>2. Committed(b[1])
  BY <1>1 DEF Freed, Linked, SerialInv, RowsFaithful
<1>3. QED
  BY <1>1, <1>2, DeleteRow, PutSteady DEF Gone

LEMMA PurgedIsGoneStep ==
    ASSUME IInv, SerialInv, [Next]_vars
    PROVE  PurgedIsGone'
<1>0. TypeOK /\ job \in [PutReq -> Job] /\ del \in [DelReq -> Delete]
  BY DEF IInv, TypeOK, ChainTypeOK, ServiceTypeOK
<1>1. ASSUME NEW p \in PutReq, job'[p].pc = "purge"
      PROVE  Gone(Own(p))'
  <2>1. CASE job'[p] = job[p]
    <3>1. Own(p) \in BlockId /\ Gone(Own(p)) /\ Own(p)' = Own(p)
      BY <1>1, <2>1, OwnType DEF AtBlock, Own, SerialInv, PurgedIsGone
    <3>2. Gone(Own(p))' <=> Committed(p)' /\ ~(blocks'[Own(p)].refer > 0)
      BY <3>1 DEF Gone, Exists, Own
    <3>3. QED
      BY <3>1, <3>2, GoneStays DEF Gone, Exists, Own
  <2>2. CASE Link(p)
    <3>1. /\ CanRelink(p, Own(p), job[p].new) /\ BlockUpdate(p, Own(p), job[p].new)
          /\ job[p].pc = "link" /\ UNCHANGED put
      BY <2>2 DEF Link, serviceVars
    <3>2. Own(p)' = Own(p)
      <4>1. job' = [job EXCEPT ![p] = [@ EXCEPT !.pc = "purge", !.new = <<>>, !.similar = {}]]
        BY <2>2 DEF Link
      <4>2. QED
        BY <1>0, <4>1 DEF Own, Job
    <3>3. ~(blocks'[Own(p)].refer > 0)
      BY <1>0, <3>1, LinkType, Relinks, UpdateRow DEF DropsOld, Exists
    <3>4. Committed(p)'
      BY <3>1, OwnType DEF AtBlock, Committed
    <3>5. QED
      BY <3>2, <3>3, <3>4 DEF Gone, Exists, Own
  <2>3. ASSUME NEW s, WithSimilar(p, s).pc = "purge", AtBlock(p)
        PROVE  FALSE
    BY <2>3, WithSimilarFields, AfterBlockFields DEF WithSimilar
  <2>4. QED
    BY <1>1, <2>1, <2>2, <2>3, JobMoves, AfterBlockFields DEF AtBlock
<1>2. ASSUME NEW p \in PutReq, NEW b \in job'[p].left
      PROVE  Gone(b)'
  <2>1. CASE b \in job[p].left
    BY <1>0, <2>1, GoneStays DEF SerialInv, PurgedIsGone, Job
  <2>2. ASSUME NEW s, job'[p] = WithSimilar(p, s), AtBlock(p)
        PROVE  b \in job[p].left
    BY <1>2, <2>2, WithSimilarFields, AfterBlockFields DEF WithSimilar
  <2>4. CASE Break(p)
    <3>1. job[p].pc = "break" /\ BlockDelete(Old(p)) /\ Old(p) \in PutReq
      BY <2>4, BrokenType DEF Break
    <3>2. PICK pc \in {"done", "sweep", "failed"}, left \in {Freed(Old(p)), {}} :
            job' = [job EXCEPT ![p] = JobAt(pc, 0, left)]
      BY <2>4, IdsOfDeleted DEF Break
    <3>3. b \in Freed(Old(p))
      BY <1>0, <1>2, <3>2 DEF JobAt
    <3>4. QED
      BY <3>1, <3>3, FreedGone
  <2>5. QED
    <3>2. \A s : AtBlock(p) /\ job'[p] = WithSimilar(p, s) => b \in job[p].left
      BY <2>2
    <3>3. AtBlock(p) /\ job'[p] = AfterBlock(p) => b \in job[p].left
      BY <1>2, AfterBlockFields
    <3>4. b \in job[p].left \/ Break(p)
      BY <1>2, <3>2, <3>3, JobMoves DEF AtBlock
    <3>5. QED
      BY <2>1, <2>4, <3>4
<1>3. ASSUME NEW d \in DelReq, NEW b \in del'[d].left
      PROVE  Gone(b)'
  <2>1. CASE b \in del[d].left
    BY <1>0, <2>1, GoneStays DEF SerialInv, PurgedIsGone, Delete
  <2>2. CASE DeleteFile(d)
    <3>1. PICK q \in Path :
            /\ files[q].chain # None /\ BlockDelete(files[q].chain)
            /\ del' = [del EXCEPT ![d] =
                  [pc |-> IF Freed(files[q].chain) = {} THEN "done" ELSE "purge",
                   chain |-> files[q].chain,
                   status |-> DeleteStatus(Deleted(files[q].chain)),
                   left |-> Freed(files[q].chain)]]
      BY <2>2, IdsOfDeleted DEF DeleteFile
    <3>2. b \in Freed(files[q].chain)
      BY <1>0, <1>3, <3>1
    <3>3. QED
      BY <1>0, <3>1, <3>2, CurrentType, FreedGone
  <2>3. ASSUME NEW e \in DelReq, e # d,
               \/ DeleteNothing(e) \/ DeleteFile(e) \/ DeleteUnanswered(e)
               \/ DeleteFails(e) \/ DeleteDeadlock(e) \/ DeletePurge(e)
        PROVE  del'[d] = del[d]
    BY <1>0, <2>3 DEF DeleteNothing, DeleteFile, DeleteUnanswered, DeleteFails,
       DeleteDeadlock, DeletePurge
  <2>4. CASE \/ DeleteNothing(d) \/ DeleteUnanswered(d) \/ DeleteFails(d) \/ DeleteDeadlock(d)
    <3>1. ASSUME DeleteNothing(d)
          PROVE  del'[d].left = del[d].left
      <4>1. del' = [del EXCEPT ![d] = [@ EXCEPT !.pc = "done", !.status = DeleteStatus(<<>>)]]
        BY <3>1 DEF DeleteNothing
      <4>2. QED
        BY <1>0, <4>1 DEF Delete
    <3>2. ASSUME DeleteUnanswered(d) \/ DeleteFails(d) \/ DeleteDeadlock(d)
          PROVE  del'[d].left = del[d].left
      <4>1. PICK q \in Path :
              del' = [del EXCEPT ![d] =
                  [@ EXCEPT !.pc = "done", !.chain = files[q].chain, !.status = "InternalError"]]
        BY <3>2 DEF DeleteUnanswered, DeleteFails, DeleteDeadlock
      <4>2. QED
        BY <1>0, <4>1 DEF Delete
    <3>3. del'[d].left = del[d].left
      BY <2>4, <3>1, <3>2
    <3>4. QED
      BY <1>3, <2>1, <3>3
  <2>5. CASE DeletePurge(d)
    <3>1. PICK x \in del[d].left :
            del' = [del EXCEPT ![d] = [@ EXCEPT !.left = del[d].left \ {x},
                        !.pc = IF del[d].left \ {x} = {} THEN "done" ELSE "purge"]]
      BY <2>5 DEF DeletePurge
    <3>2. b \in del[d].left
      BY <1>0, <1>3, <3>1 DEF Delete
    <3>3. QED
      BY <2>1, <3>2
  <2>6. CASE BlockCrash
    <3>1. del'[d] = IF del[d].pc = "purge" THEN [del[d] EXCEPT !.pc = "done", !.left = {}]
                    ELSE del[d]
      BY <2>6 DEF BlockCrash
    <3>2. b \in del[d].left
      BY <1>0, <1>3, <3>1 DEF Delete
    <3>3. QED
      BY <2>1, <3>2
  <2>7. QED
    BY <1>3, <2>1, <2>2, <2>3, <2>4, <2>5, <2>6, DeletesChange
<1>4. QED
  BY <1>1, <1>2, <1>3 DEF PurgedIsGone

-----------------------------------------------------------------------------
(* The list of candidates.                                                 *)

LEMMA OwnSteady ==
    ASSUME IInv, [Next]_vars, NEW p \in PutReq, AtBlock(p), job'[p].i = job[p].i
    PROVE  /\ Own(p)' = Own(p) /\ Own(p) \in BlockId /\ Uploaded(Own(p)) /\ Committed(p)
           /\ put'[p] = put[p]
  BY OwnType, PutSteady DEF Own, Committed, IInv

\* What follows of the list is still true of it.
LEMMA ListedStays ==
    ASSUME IInv, SerialInv, [Next]_vars, NEW p \in PutReq, job[p].pc \in {"compare", "link"},
           job'[p].i = job[p].i, job'[p].similar \subseteq job[p].similar
    PROVE  Listed(p)' /\ Twins(p)' \subseteq Twins(p) /\ SharedFirst(p)'
<1>1. Own(p)' = Own(p) /\ Own(p) \in BlockId /\ Uploaded(Own(p))
  BY OwnSteady DEF AtBlock
<1>2. job[p].similar \subseteq Row /\ Listed(p) /\ SharedFirst(p)
  BY DEF IInv, TypeOK, ChainTypeOK, Job, SerialInv, CandidatesOrdered
<1>3. ASSUME NEW r \in job[p].similar
      PROVE  /\ r.id \in BlockId /\ r.refer > 0 /\ Uploaded(r.id)
             /\ Committed(r.id[1])' /\ Uploaded(r.id)'
             /\ Exists(r.id)' => blocks'[r.id].rank = r.rank
  <2>1. r.id \in BlockId /\ r.refer > 0 /\ Committed(r.id[1]) /\ Uploaded(r.id)
        /\ (Exists(r.id) => blocks[r.id].rank = r.rank)
    BY <1>2 DEF Listed, Row
  <2>2. r.id[1] \in PutReq /\ ~InTx(r.id[1])
    BY <2>1, RowType DEF IInv, InTx, Committed
  <2>3. Committed(r.id[1])' /\ Uploaded(r.id)'
    BY <2>1, <2>2, PutSteady, UploadSteady DEF IInv
  <2>4. Exists(r.id)' => blocks'[r.id].rank = r.rank
    BY <2>1, <2>2, RowChange
  <2>5. QED
    BY <2>1, <2>3, <2>4
<1>4. Listed(p)'
  BY <1>3 DEF Listed
<1>5. Twins(p)' \subseteq Twins(p)
  <2>1. ASSUME NEW r \in job[p].similar, Alike(r.id, Own(p))'
        PROVE  Alike(r.id, Own(p))
    <3>1. Alike(r.id, Own(p))' <=> Origin(r.id)' = Origin(Own(p))'
      BY DEF Alike
    <3>2. Origin(r.id)' = Origin(r.id)
      BY <1>3, UploadSteady DEF IInv
    <3>3. Origin(Own(p))' = Origin(Own(p))
      <4>1. Origin(Own(p))' = put'[Own(p)[1]].body[Own(p)[2]]
        BY <1>1 DEF Origin
      <4>2. put'[Own(p)[1]].body[Own(p)[2]] = Origin(Own(p))
        BY <1>1, UploadSteady DEF IInv, Origin
      <4>3. QED
        BY <4>1, <4>2
    <3>4. QED
      BY <2>1, <3>1, <3>2, <3>3 DEF Alike
  <2>2. QED
    BY <2>1 DEF Twins
<1>6. SharedFirst(p)'
  BY <1>2, <1>5 DEF SharedFirst
<1>7. QED
  BY <1>4, <1>5, <1>6

\* While the own block is linked it has been linked all the time, and nothing
\* older that holds the same has come.
LEMMA OwnStays ==
    ASSUME IInv, SerialInv, [Next]_vars, NEW p \in PutReq, AtBlock(p),
           job'[p].i = job[p].i, HasOwn(p)'
    PROVE  /\ HasOwn(p) /\ Exists(Own(p)) /\ blocks'[Own(p)].rank = blocks[Own(p)].rank
           /\ job[p].pc = "link" => ~BlockUpdate(p, Own(p), job[p].new)
                                    \/ ~CanRelink(p, Own(p), job[p].new)
<1> DEFINE o == Own(p)
<1>1. /\ o \in BlockId /\ Uploaded(o) /\ Committed(p) /\ o[1] = p /\ Own(p)' = o
      /\ TypeOK /\ PutShape
  BY OwnSteady DEF Own, IInv
<1>2. \E k \in DOMAIN links'[p] : links'[p][k] = o
  BY <1>1 DEF HasOwn, LinksTo
<1>3. ASSUME job[p].pc = "link", CanRelink(p, o, job[p].new), BlockUpdate(p, o, job[p].new)
      PROVE  FALSE
  <2>1. /\ DOMAIN links'[p] = DOMAIN links[p]
        /\ \A k \in DOMAIN links[p] :
               links'[p][k] = IF links[p][k] = o THEN job[p].new ELSE links[p][k]
    BY <1>1, <1>3, LinkType, UpdateRow
  <2>2. o # job[p].new
    BY <1>3, Relinks
  <2>3. QED
    BY <1>2, <2>1, <2>2
<1>4. HasOwn(p)
  <2>1. CASE UNCHANGED <<links, blocks>>
    BY <1>2, <2>1 DEF HasOwn, LinksTo
  <2>2. ASSUME NEW r \in PutReq, NEW q \in Path, InTx(r),
               BlockInsert(q, r, Hashes(r), put[r].rank)
        PROVE  HasOwn(p)
    <3>1. links'[p] = links[p]
      BY <1>1, <2>2, InsertRow DEF InTx, Committed
    <3>2. QED
      BY <1>2, <3>1 DEF HasOwn, LinksTo
  <2>3. ASSUME NEW r \in PutReq, job[r].pc = "link", CanRelink(r, Own(r), job[r].new),
               BlockUpdate(r, Own(r), job[r].new)
        PROVE  HasOwn(p)
    <3>1. r # p
      BY <1>3, <2>3
    <3>2. links'[p] = links[p]
      BY <1>1, <2>3, <3>1, LinkType, UpdateRow
    <3>3. QED
      BY <1>2, <3>2 DEF HasOwn, LinksTo
  <2>4. ASSUME NEW c \in PutReq, BlockDelete(c)
        PROVE  HasOwn(p)
    <3>1. links'[p] = links[p]
      BY <1>1, <1>2, <2>4, DeleteRow
    <3>2. QED
      BY <1>2, <3>1 DEF HasOwn, LinksTo
  <2>5. QED
    BY <2>1, <2>2, <2>3, <2>4, SerialSteps
<1>5. Exists(o)
  BY <1>1, <1>4 DEF HasOwn, Linked, SerialInv, RowsFaithful
<1>6. Exists(o)'
  <2>1. Linked(o)'
    BY <1>1, <1>2 DEF Linked, LinksTo
  <2>2. QED
    BY <1>1, <2>1, LinkedHasRow
<1>7. blocks'[o].rank = blocks[o].rank
  BY <1>1, <1>6, RowChange DEF InTx, Committed
<1>8. QED
  BY <1>3, <1>4, <1>5, <1>7

LEMMA OlderStays ==
    ASSUME IInv, SerialInv, [Next]_vars, NEW p \in PutReq, AtBlock(p),
           job'[p].i = job[p].i, HasOwn(p)',
           NEW a \in BlockId, Exists(a)'
    PROVE  \/ /\ Exists(a) /\ blocks'[a].rank = blocks[a].rank
              /\ Alike(a, Own(p))' <=> Alike(a, Own(p))
              /\ Older(a, Own(p))' <=> Older(a, Own(p))
           \/ ~Older(a, Own(p))'
<1> DEFINE o == Own(p)
<1>1. /\ o \in BlockId /\ Uploaded(o) /\ Own(p)' = o
      /\ HasOwn(p) /\ Exists(o) /\ blocks'[o].rank = blocks[o].rank
  BY OwnSteady, OwnStays
<1>2. CASE Exists(a) /\ blocks'[a].rank = blocks[a].rank
  <2>1. Uploaded(a)
    BY <1>2 DEF SerialInv, RowsFaithful
  <2>2. Origin(a)' = Origin(a) /\ Origin(o)' = Origin(o)
    BY <1>1, <2>1, UploadSteady DEF IInv
  <2>3. Alike(a, Own(p))' <=> Origin(a)' = Origin(Own(p))'
    BY DEF Alike
  <2>4. Origin(Own(p))' = Origin(o)
    <3>1. Origin(Own(p))' = put'[o[1]].body[o[2]]
      BY <1>1 DEF Origin
    <3>2. QED
      BY <2>2, <3>1 DEF Origin
  <2>5. Older(a, Own(p))' <=> Older(a, o)
    BY <1>1, <1>2 DEF Older
  <2>6. QED
    BY <1>2, <2>2, <2>3, <2>4, <2>5 DEF Alike
<1>3. CASE InTx(a[1]) /\ blocks'[a].rank = put[a[1]].rank[a[2]]
  <2>1. a[1] \in PutReq /\ a[2] \in 1 .. MaxBlocks
        /\ blocks[o].rank \in Nat /\ put[a[1]].rank[a[2]] \in Nat
    BY <1>1, RowType DEF IInv, TypeOK, ServiceTypeOK, Put
  <2>2. blocks[o].rank < put[a[1]].rank[a[2]]
    BY <1>1, <1>3, <2>1 DEF SerialInv, RanksOrdered
  <2>3. QED
    BY <1>1, <1>3, <2>1, <2>2 DEF Older
<1>4. QED
  BY <1>2, <1>3, RowChange

\* Lookup lists what is older and holds the same, and maybe more.
LEMMA LookupLists ==
    ASSUME IInv, SerialInv, NEW p \in PutReq, job[p].pc = "lookup"
    PROVE  /\ \A r \in Similar(p) :
                /\ r.id \in BlockId /\ Exists(r.id)
                /\ r.refer = blocks[r.id].refer /\ r.rank = blocks[r.id].rank
           /\ \A r, t \in Similar(p) : r.refer > 1 /\ Alike(t.id, r.id) => r.rank <= t.rank
           /\ HasOwn(p) =>
                /\ \A r \in Similar(p) : Alike(r.id, Own(p)) => r.rank < blocks[Own(p)].rank
                /\ \A a \in BlockId : Exists(a) /\ Alike(a, Own(p)) /\ Older(a, Own(p)) =>
                       \E r \in Similar(p) : r.id = a
<1> DEFINE o == Own(p)
           row(a) == [id |-> a, refer |-> blocks[a].refer, rank |-> blocks[a].rank]
<1>1. o \in BlockId /\ Origin(o) = put[p].body[job[p].i] /\ Committed(p)
  BY OwnType DEF AtBlock, Own, Origin, Committed
<1>2. \A a \in BlockId : /\ blocks[a].refer \in Nat /\ blocks[a].rank \in Nat
                         /\ Exists(a) => blocks[a].hash = Digest[Origin(a)]
  BY RowType DEF IInv, SerialInv, RowsFaithful
<1>3. Similar(p) =
        {row(a) : a \in {x \in BlockId : Exists(x) /\ blocks[x].hash = Digest[Origin(o)]}}
        \cap {r \in BlockSelect(Digest[Origin(o)]) :
                 r.id # o /\ (Exists(o) => Before(r, [refer |-> blocks[o].refer,
                                                      rank |-> blocks[o].rank]))}
  BY <1>1 DEF Similar, BlockSelect
<1>4. ASSUME NEW r \in Similar(p)
      PROVE  /\ r.id \in BlockId /\ Exists(r.id) /\ r.id # o
             /\ r.refer = blocks[r.id].refer /\ r.rank = blocks[r.id].rank
             /\ Exists(o) => \/ blocks[r.id].refer > blocks[o].refer
                             \/ blocks[r.id].rank < blocks[o].rank
  BY <1>3 DEF Before
<1>5. ASSUME NEW r \in Similar(p), NEW t \in Similar(p), r.refer > 1, Alike(t.id, r.id)
      PROVE  r.rank <= t.rank
  <2>1. Oldest(r.id)
    BY <1>4, <1>5 DEF SerialInv, SharedIsOldest
  <2>2. ~(blocks[t.id].rank < blocks[r.id].rank)
    BY <1>4, <1>5, <2>1 DEF Oldest, Older
  <2>3. QED
    BY <1>2, <1>4, <2>2
<1>6. HasOwn(p) => Exists(o)
  BY <1>1 DEF HasOwn, Linked, SerialInv, RowsFaithful
<1>7. ASSUME HasOwn(p), NEW r \in Similar(p), Alike(r.id, o)
      PROVE  r.rank < blocks[o].rank
  <2>1. blocks[r.id].rank # blocks[o].rank
    BY <1>1, <1>4, <1>6, <1>7 DEF SerialInv, RanksOrdered
  <2>2. CASE blocks[r.id].refer > blocks[o].refer
    <3>1. blocks[r.id].refer > 1
      BY <1>1, <1>2, <1>4, <1>6, <1>7, <2>2 DEF Exists
    <3>2. Oldest(r.id)
      BY <1>4, <3>1 DEF SerialInv, SharedIsOldest
    <3>3. ~(blocks[o].rank < blocks[r.id].rank)
      BY <1>1, <1>6, <1>7, <3>2 DEF Oldest, Older, Alike
    <3>4. QED
      BY <1>1, <1>2, <1>4, <2>1, <3>3
  <2>3. QED
    BY <1>4, <1>6, <1>7, <2>2
<1>8. ASSUME HasOwn(p), NEW a \in BlockId, Exists(a), Alike(a, o), Older(a, o)
      PROVE  \E r \in Similar(p) : r.id = a
  <2>1. ~(blocks[o].refer > blocks[a].refer)
    <3>1. SUFFICES ASSUME blocks[o].refer > blocks[a].refer PROVE FALSE
      OBVIOUS
    <3>2. blocks[o].refer > 1
      BY <1>1, <1>2, <1>8, <3>1 DEF Exists
    <3>3. QED
      BY <1>1, <1>8, <3>2 DEF SerialInv, SharedIsOldest, Oldest
  <2>2. Before(row(a), [refer |-> blocks[o].refer, rank |-> blocks[o].rank])
    BY <1>1, <1>2, <1>8, <2>1 DEF Before, Older
  <2>3. row(a) \in BlockSelect(Digest[Origin(o)]) /\ a # o
    BY <1>1, <1>2, <1>8 DEF BlockSelect, Alike, Older
  <2>4. row(a) \in Similar(p)
    BY <1>1, <2>2, <2>3 DEF Similar
  <2>5. QED
    BY <2>4
<1>9. QED
  BY <1>4, <1>5, <1>7, <1>8

LEMMA LookupStep ==
    ASSUME IInv, SerialInv, [Next]_vars, NEW p \in PutReq, Lookup(p), Similar(p) # {},
           job'[p] = WithSimilar(p, Similar(p))
    PROVE  Listed(p)' /\ SharedFirst(p)' /\ (HasOwn(p) => TwinsOlder(p) /\ NoneMissed(p))'
<1> DEFINE s == Similar(p)
           o == Own(p)
<1>1. /\ job[p].pc = "lookup" /\ UNCHANGED <<put, links, blocks>>
      /\ job'[p].similar = s /\ job'[p].i = job[p].i
  BY WithSimilarFields DEF Lookup, dbVars, serviceVars
<1>2. Own(p)' = o /\ HasOwn(p)' = HasOwn(p)
  BY <1>1 DEF Own, HasOwn, LinksTo
<1>4. Twins(p)' = {r \in s : Alike(r.id, o)}
  <2>1. Twins(p)' = {r \in job'[p].similar : Alike(r.id, Own(p))'}
    BY DEF Twins
  <2>2. \A r : Alike(r.id, Own(p))' <=> Alike(r.id, o)
    BY <1>1, <1>2 DEF Alike, Origin
  <2>3. QED
    BY <1>1, <2>1, <2>2
<1>5. Listed(p)'
  <2>1. ASSUME NEW r \in s
        PROVE  /\ r.refer > 0 /\ Committed(r.id[1])' /\ Uploaded(r.id)'
               /\ Exists(r.id)' => blocks'[r.id].rank = r.rank
    <3>1. /\ r.id \in BlockId /\ Exists(r.id)
          /\ r.refer = blocks[r.id].refer /\ r.rank = blocks[r.id].rank
      BY <1>1, LookupLists
    <3>2. QED
      BY <1>1, <3>1 DEF SerialInv, RowsFaithful, Exists, Committed, Uploaded
  <2>2. QED
    BY <1>1, <2>1 DEF Listed
<1>6. SharedFirst(p)'
  BY <1>1, <1>4, LookupLists DEF SharedFirst, Alike
<1>7. ASSUME HasOwn(p)
      PROVE  TwinsOlder(p)' /\ NoneMissed(p)'
  <2>1. TwinsOlder(p)'
    BY <1>1, <1>2, <1>4, <1>7, LookupLists DEF TwinsOlder
  <2>2. ASSUME NEW a \in BlockId, Exists(a)', Alike(a, Own(p))', Older(a, Own(p))'
        PROVE  \E r \in s : r.id = a
    <3>1. Exists(a) /\ Alike(a, o) /\ Older(a, o)
      BY <1>1, <1>2, <2>2 DEF Exists, Alike, Older, Origin
    <3>2. QED
      BY <1>1, <1>7, <3>1, LookupLists
  <2>3. QED
    BY <1>1, <2>1, <2>2 DEF NoneMissed
<1>8. QED
  BY <1>2, <1>5, <1>6, <1>7

\* The steps that leave a handler with candidates.
LEMMA CandidateMoves ==
    ASSUME IInv, [Next]_vars, NEW p \in PutReq, job'[p].pc \in {"compare", "link"}
    PROVE  \/ job'[p] = job[p]
           \/ Lookup(p) /\ Similar(p) # {} /\ job'[p] = WithSimilar(p, Similar(p))
           \/ /\ job[p].pc \in {"compare", "link"}
              /\ job'[p].i = job[p].i /\ job'[p].similar \subseteq job[p].similar
              /\ \/ \E r \in First(job[p].similar) :
                       /\ job[p].pc = "compare" /\ UNCHANGED <<links, blocks>>
                       /\ job'[p].similar = job[p].similar \ {r}
                       /\ \/ Same(Own(p), r.id) /\ job'[p].pc = "link" /\ job'[p].new = r.id
                          \/ /\ ~Same(Own(p), r.id) \/ "error" \in Faults
                             /\ job'[p].pc = "compare"
                 \/ /\ LinkFails(p) \/ LinkUnanswered(p)
                    /\ job[p].pc = "link" /\ job'[p].pc = "compare"
                    /\ job'[p].similar = job[p].similar
<1>1. AtBlock(p) => job'[p] # AfterBlock(p)
  BY AfterBlockFields
<1>2. ASSUME NEW s, job'[p] = WithSimilar(p, s), AtBlock(p)
      PROVE  s # {} /\ job'[p].pc = "compare" /\ job'[p].similar = s /\ job'[p].i = job[p].i
  BY <1>1, <1>2, WithSimilarFields DEF WithSimilar
<1>3. CASE Lookup(p) /\ job[p].pc = "lookup" /\ job'[p] = WithSimilar(p, Similar(p))
  BY <1>2, <1>3 DEF AtBlock
<1>4. ASSUME NEW r \in First(job[p].similar), job[p].pc = "compare",
             ~Same(Own(p), r.id) \/ "error" \in Faults, UNCHANGED <<links, blocks>>,
             job'[p] = WithSimilar(p, job[p].similar \ {r})
      PROVE  /\ job'[p].i = job[p].i /\ job'[p].similar = job[p].similar \ {r}
             /\ job'[p].pc = "compare"
  BY <1>2, <1>4 DEF AtBlock
<1>5. ASSUME job[p].pc = "link", job'[p] = WithSimilar(p, job[p].similar)
      PROVE  /\ job'[p].i = job[p].i /\ job'[p].similar = job[p].similar
             /\ job'[p].pc = "compare"
  BY <1>2, <1>5 DEF AtBlock
<1>6. QED
  BY <1>1, <1>3, <1>4, <1>5, JobMoves DEF AtBlock

LEMMA CandidatesOrderedStep ==
    ASSUME IInv, Serial, SerialInv, [Next]_vars
    PROVE  CandidatesOrdered'
<1> SUFFICES ASSUME NEW p \in PutReq, job'[p].pc \in {"compare", "link"}
             PROVE  /\ Listed(p)' /\ SharedFirst(p)'
                    /\ (job[p].pc = "link" => Committed(job[p].new[1]))'
                    /\ HasOwn(p)' => TwinsOlder(p)' /\ NoneMissed(p)' /\ NewFirst(p)'
  BY DEF CandidatesOrdered
<1> DEFINE o == Own(p)
           n == job[p].new
<1>1. CASE Lookup(p) /\ Similar(p) # {} /\ job'[p] = WithSimilar(p, Similar(p))
  <2>1. job'[p].pc = "compare" /\ UNCHANGED <<put, links>> /\ job'[p].i = job[p].i
    BY <1>1, WithSimilarFields DEF Lookup, dbVars, serviceVars
  <2>2. HasOwn(p)' = HasOwn(p) /\ NewFirst(p)'
    BY <2>1 DEF HasOwn, LinksTo, Own, NewFirst
  <2>3. QED
    BY <1>1, <2>1, <2>2, LookupStep
<1>2. CASE /\ job[p].pc \in {"compare", "link"}
           /\ job'[p].i = job[p].i /\ job'[p].similar \subseteq job[p].similar
  <2>1. /\ AtBlock(p) /\ Own(p)' = o /\ o \in BlockId /\ Uploaded(o) /\ Committed(p)
        /\ Listed(p) /\ SharedFirst(p) /\ job[p].similar \subseteq Row
        /\ HasOwn(p) => TwinsOlder(p) /\ NoneMissed(p) /\ NewFirst(p)
        /\ job[p].pc = "link" => Committed(n[1]) /\ n \in BlockId
    BY <1>2, OwnSteady, LinkType
       DEF AtBlock, SerialInv, CandidatesOrdered, IInv, TypeOK, ChainTypeOK, Job
  <2>2. Listed(p)' /\ SharedFirst(p)' /\ Twins(p)' \subseteq Twins(p)
    BY <1>2, ListedStays
  <2>3. HasOwn(p)' => TwinsOlder(p)'
    BY <1>2, <2>1, <2>2, OwnStays DEF TwinsOlder
  <2>4. ASSUME NEW x \in BlockId, Committed(x[1])
        PROVE  Committed(x[1])' /\ (Exists(x)' => Exists(x) /\ blocks'[x].rank = blocks[x].rank)
    <3>1. x[1] \in PutReq /\ ~InTx(x[1])
      BY <2>4, RowType DEF IInv, Committed, InTx
    <3>2. QED
      BY <2>4, <3>1, PutSteady, RowChange DEF IInv
  <2>5. ASSUME HasOwn(p)', NEW a \in BlockId,
               Exists(a)', Alike(a, Own(p))', Older(a, Own(p))'
        PROVE  /\ Exists(a) /\ Alike(a, o) /\ Older(a, o) /\ HasOwn(p) /\ Exists(o)
               /\ \/ \E r \in job[p].similar : r.id = a
                  \/ job[p].pc = "link" /\ n = a
    <3>1. HasOwn(p) /\ Exists(o) /\ Exists(a) /\ Alike(a, o) /\ Older(a, o)
      BY <1>2, <2>1, <2>5, OwnStays, OlderStays
    <3>2. QED
      BY <2>1, <3>1 DEF NoneMissed
  <2>6. CASE job'[p] = job[p]
    <3>1. HasOwn(p)' => NoneMissed(p)'
      BY <2>5, <2>6 DEF NoneMissed
    <3>2. ASSUME HasOwn(p)', job[p].pc = "link", blocks'[n].refer > 0
          PROVE  /\ blocks'[n].rank < blocks'[o].rank
                 /\ \A t \in Twins(p)' : blocks'[n].rank <= t.rank
      <4>1. HasOwn(p) /\ blocks'[o].rank = blocks[o].rank
        BY <1>2, <2>1, <3>2, OwnStays
      <4>2. Exists(n) /\ blocks'[n].rank = blocks[n].rank
        BY <2>1, <2>4, <3>2 DEF Exists
      <4>3. Older(n, o) /\ \A t \in Twins(p) : blocks[n].rank <= t.rank
        BY <2>1, <3>2, <4>1, <4>2 DEF NewFirst
      <4>4. QED
        BY <2>2, <4>1, <4>2, <4>3 DEF Older
    <3>3. HasOwn(p)' => NewFirst(p)'
      BY <2>1, <2>6, <3>2 DEF NewFirst, Exists, Older
    <3>4. (job[p].pc = "link" => Committed(job[p].new[1]))'
      BY <2>1, <2>4, <2>6 DEF Committed
    <3>5. QED
      BY <2>2, <2>3, <3>1, <3>3, <3>4
  <2>7. ASSUME NEW r \in First(job[p].similar), job[p].pc = "compare",
               UNCHANGED <<links, blocks>>, job'[p].similar = job[p].similar \ {r}
        PROVE  /\ r \in job[p].similar /\ r.id \in BlockId /\ Uploaded(r.id)
               /\ Committed(r.id[1]) /\ Committed(r.id[1])'
               /\ r.refer \in Nat /\ r.rank \in Nat
               /\ \A t \in job[p].similar \ {r} : Before(r, t) /\ t.refer \in Nat /\ t.rank \in Nat
    <3>1. r \in job[p].similar /\ r.id \in BlockId /\ r.id[1] \in PutReq
          /\ r.refer \in Nat /\ r.rank \in Nat
          /\ \A t \in job[p].similar \ {r} : Before(r, t) /\ t.refer \in Nat /\ t.rank \in Nat
      BY <2>1, <2>7, RowType DEF First, Row, IInv
    <3>2. Committed(r.id[1]) /\ Uploaded(r.id)
      BY <2>1, <3>1 DEF Listed
    <3>3. QED
      BY <3>1, <3>2, PutSteady DEF IInv
  <2>8. ASSUME NEW r \in First(job[p].similar), job[p].pc = "compare",
               UNCHANGED <<links, blocks>>, job'[p].similar = job[p].similar \ {r},
               Same(o, r.id), job'[p].pc = "link", job'[p].new = r.id
        PROVE  /\ Committed(job[p].new[1])'
               /\ HasOwn(p)' => NoneMissed(p)' /\ NewFirst(p)'
    <3>0. /\ r \in job[p].similar /\ r.id \in BlockId /\ Uploaded(r.id)
          /\ Committed(r.id[1])'
          /\ r.refer \in Nat /\ r.rank \in Nat
          /\ \A t \in job[p].similar \ {r} : Before(r, t) /\ t.refer \in Nat /\ t.rank \in Nat
      BY <2>7, <2>8
    <3>1. HasOwn(p)' => NoneMissed(p)'
      BY <2>5, <2>8 DEF NoneMissed
    <3>2. ASSUME HasOwn(p)', blocks'[r.id].refer > 0
          PROVE  /\ blocks'[r.id].rank < blocks'[o].rank
                 /\ \A t \in Twins(p)' : blocks'[r.id].rank <= t.rank
      <4>1. HasOwn(p) /\ blocks'[o].rank = blocks[o].rank
        BY <1>2, <2>1, <3>2, OwnStays
      <4>2. Alike(r.id, o) /\ r \in Twins(p)
        BY <2>1, <2>8, <3>0 DEF Same, Alike, IInv, ObjectsFaithful, Twins
      <4>3. blocks[r.id].rank = r.rank /\ blocks'[r.id].rank = r.rank
        BY <2>1, <2>8, <3>0, <3>2 DEF Listed, Exists
      <4>4. r.rank < blocks[o].rank
        BY <2>1, <4>1, <4>2 DEF TwinsOlder
      <4>5. ASSUME NEW t \in Twins(p)'
            PROVE  r.rank <= t.rank
        <5>1. t \in Twins(p) /\ t \in job[p].similar \ {r}
          BY <2>2, <2>8 DEF Twins
        <5>2. t.refer > 0 /\ Before(r, t)
          BY <2>1, <3>0, <5>1 DEF Listed
        <5>3. CASE r.refer > 1
          BY <2>1, <4>2, <5>1, <5>3 DEF SharedFirst
        <5>4. CASE ~(r.refer > 1)
          BY <3>0, <5>1, <5>2, <5>4 DEF Before
        <5>5. QED
          BY <5>3, <5>4
      <4>6. QED
        BY <4>1, <4>3, <4>4, <4>5
    <3>3. HasOwn(p)' => NewFirst(p)'
      BY <2>1, <2>8, <3>2 DEF NewFirst, Older, Exists
    <3>4. Committed(job[p].new[1])'
      BY <2>8, <3>0 DEF Committed
    <3>5. QED
      BY <3>1, <3>3, <3>4
  <2>9. ASSUME NEW r \in First(job[p].similar), job[p].pc = "compare",
               UNCHANGED <<links, blocks>>, job'[p].similar = job[p].similar \ {r},
               ~Same(o, r.id), job'[p].pc = "compare"
        PROVE  HasOwn(p)' => NoneMissed(p)' /\ NewFirst(p)'
    <3>1. ASSUME HasOwn(p)', NEW a \in BlockId,
                 Exists(a)', Alike(a, Own(p))', Older(a, Own(p))'
          PROVE  \E t \in job'[p].similar : t.id = a
      <4>1. /\ Exists(a) /\ Alike(a, o) /\ Exists(o)
            /\ \E t \in job[p].similar : t.id = a
        BY <2>5, <2>9, <3>1
      <4>2. Stored(a) /\ Stored(o)
        BY <2>1, <4>1 DEF SerialInv, RowsFaithful
      <4>3. Same(o, a)
        BY <2>1, <4>1, <4>2 DEF Same, IInv, ObjectsFaithful, Alike
      <4>4. QED
        BY <2>9, <4>1, <4>3
    <3>2. QED
      BY <2>9, <3>1 DEF NoneMissed, NewFirst
  <2>10. ASSUME job[p].pc = "link", job'[p].pc = "compare", job'[p].similar = job[p].similar,
                LinkFails(p)
         PROVE  HasOwn(p)' => NoneMissed(p)' /\ NewFirst(p)'
    <3>1. ASSUME HasOwn(p)', NEW a \in BlockId,
                 Exists(a)', Alike(a, Own(p))', Older(a, Own(p))'
          PROVE  \E t \in job'[p].similar : t.id = a
      <4>1. /\ Exists(a) /\ Alike(a, o) /\ Older(a, o) /\ HasOwn(p)
            /\ (\E t \in job[p].similar : t.id = a) \/ n = a
        BY <2>5, <3>1
      <4>2. ~CanRelink(p, o, n)
        BY <2>10 DEF LinkFails, Serial
      <4>3. n = a => \E c \in PutReq \ {p} : LinksTo(c, o) # {}
        BY <4>1, <4>2 DEF CanRelink, HasOwn, ForeignKeyHolds
      <4>4. n # a
        BY <2>1, <4>1, <4>3 DEF SerialInv, SharedIsOldest, Oldest, Own
      <4>5. QED
        BY <2>10, <4>1, <4>4
    <3>2. QED
      BY <2>10, <3>1 DEF NoneMissed, NewFirst
  <2>11. ASSUME job[p].pc = "link", LinkUnanswered(p)
         PROVE  ~HasOwn(p)'
    BY <1>2, <2>1, <2>11, OwnStays DEF LinkUnanswered
  <2>12. QED
    BY <2>2, <2>3, <2>6, <2>8, <2>9, <2>10, <2>11, CandidateMoves, <1>1 DEF Serial
<1>3. QED
  BY <1>1, <1>2, CandidateMoves

-----------------------------------------------------------------------------
(* The invariants.                                                         *)

LEMMA InitSerialInv == Init => SerialInv
<1> SUFFICES ASSUME Init PROVE SerialInv
  OBVIOUS
<1> USE DEF Init, RepositoryInit, StorageInit, ServiceInit, ChainInit,
        PutIdle, DelIdle, GetIdle, JobIdle, JobAt
<1>1. \A b \in BlockId : ~Exists(b) /\ ~Linked(b) /\ blocks[b].refer = 0
  BY DEF Exists, NoRow, Linked, LinksTo
<1>2. RowsFaithful
  BY <1>1 DEF RowsFaithful
<1>3. RanksOrdered
  BY <1>1 DEF RanksOrdered, InTx
<1>4. SharedIsOldest
  BY <1>1 DEF SharedIsOldest, Linked
<1>5. UploadsStored /\ PurgedIsGone /\ CandidatesOrdered
  BY DEF UploadsStored, PurgedIsGone, CandidatesOrdered
<1>6. QED
  BY <1>2, <1>3, <1>4, <1>5 DEF SerialInv

LEMMA NextSerialInv == Serial /\ IInv /\ SerialInv /\ [Next]_vars => SerialInv'
<1> SUFFICES ASSUME Serial, IInv, SerialInv, [Next]_vars PROVE SerialInv'
  OBVIOUS
<1>1. UploadsStored'
  BY UploadsStoredStep DEF SerialInv
<1>2. QED
  BY <1>1, RowsFaithfulStep, RanksOrderedStep, SharedIsOldestStep, PurgedIsGoneStep,
     CandidatesOrderedStep DEF SerialInv

\* While PUTs commit one at a time and calls do not fail, relinking only ever
\* goes to the oldest row that holds the same.
THEOREM SerialFaithful == Serial => (Spec => []SerialInv)
<1> SUFFICES ASSUME Serial PROVE Spec => []SerialInv
  OBVIOUS
<1>1. Init => SerialInv
  BY InitSerialInv
<1>2. IInv /\ SerialInv /\ [Next]_vars => SerialInv'
  BY NextSerialInv
<1>3. QED
  BY <1>1, <1>2, Faithful, PTL DEF Spec

\* No block a file needs ever loses its object: what Chain.File and Delete purge
\* nobody is linked to, whatever answers are lost and whoever stops.
THEOREM NothingLost == Serial => (Spec => []NoLoss)
<1> SUFFICES ASSUME Serial PROVE Spec => []NoLoss
  OBVIOUS
<1>1. SerialInv => NoLoss
  BY DEF SerialInv, RowsFaithful, NoLoss
<1>2. QED
  BY <1>1, SerialFaithful, PTL

-----------------------------------------------------------------------------
(* Counting the places of a block.                                         *)

LEMMA LinksToBounded ==
    ASSUME IInv, NEW c \in PutReq, NEW b
    PROVE  LinksTo(c, b) \subseteq 1 .. MaxBlocks
<1>1. CASE links[c] = <<>>
  BY <1>1 DEF LinksTo
<1>2. CASE links[c] # <<>>
  <2>1. put[c] \in Put /\ put[c].body # <<>> /\ DOMAIN links[c] = 1 .. Len(put[c].body)
    BY <1>2 DEF IInv, ChainsFaithful, TypeOK, ServiceTypeOK
  <2>2. Len(put[c].body) \in 1 .. MaxBlocks
    BY <2>1, PutFields, BodyShape
  <2>3. QED
    BY <2>1, <2>2, MaxBlocksAssumption DEF LinksTo
<1>3. QED
  BY <1>1, <1>2

\* The places of one chain are as many as its links.
LEMMA PlacesOf ==
    ASSUME NEW c, NEW L, IsFiniteSet(L)
    PROVE  IsFiniteSet({c} \X L) /\ Cardinality({c} \X L) = Cardinality(L)
<1> DEFINE f == [k \in L |-> <<c, k>>]
<1>1. f \in [L -> {c} \X L]
  OBVIOUS
<1>2. f \in Injection(L, {c} \X L)
  BY <1>1 DEF Injection, IsInjective
<1>3. f \in Surjection(L, {c} \X L)
  BY <1>1 DEF Surjection
<1>4. ExistsBijection(L, {c} \X L)
  BY <1>2, <1>3 DEF ExistsBijection, Bijection
<1>5. QED
  BY <1>4, FS_Bijection

LEMMA InsertPlaces ==
    ASSUME IInv, SerialInv, PlacesCounted, [Next]_vars, NEW b \in BlockId,
           NEW p \in PutReq, NEW q \in Path, InTx(p),
           BlockInsert(q, p, Hashes(p), put[p].rank)
    PROVE  IsFiniteSet(Places(b)') /\ blocks'[b].refer = Cardinality(Places(b)')
<1>1. TypeOK /\ PutShape /\ b[1] \in PutReq /\ b[2] \in 1 .. MaxBlocks /\ b = <<b[1], b[2]>>
  BY RowType DEF IInv
<1>2. /\ DOMAIN links'[p] = 1 .. put[p].n
      /\ \A k \in 1 .. put[p].n : links'[p][k] = <<p, k>>
      /\ \A c \in PutReq \ {p} : links'[c] = links[c]
  BY <1>1, InsertRow DEF InTx
<1>3. \A c \in PutReq \ {p} : LinksTo(c, b)' = LinksTo(c, b)
  BY <1>2 DEF LinksTo
<1>4. LinksTo(p, b) = {}
  <2>1. links[p] = <<>>
    BY DEF InTx, IInv, ChainsFaithful, Committed
  <2>2. QED
    BY <2>1 DEF LinksTo
<1>5. put[p].n \in Nat /\ put[p].n <= MaxBlocks
  BY <1>1, PutFields DEF TypeOK, ServiceTypeOK
<1>6. CASE b[1] = p /\ Uploaded(b)
  <2>1. LinksTo(p, b)' = {b[2]}
    BY <1>1, <1>2, <1>5, <1>6, MaxBlocksAssumption DEF LinksTo, Uploaded
  <2>2. \A c \in PutReq : LinksTo(c, b) = {}
    BY <1>6 DEF InTx, SerialInv, RowsFaithful, Linked, Committed
  <2>3. Places(b)' = {<<p, b[2]>>}
    BY <1>1, <1>3, <2>1, <2>2 DEF Places
  <2>4. blocks'[b] = [hash |-> Digest[Origin(b)], refer |-> 1, rank |-> put[p].rank[b[2]]]
    BY <1>1, <1>6, InsertRow DEF InTx
  <2>5. blocks'[b].refer = 1
    BY <2>4
  <2>6. QED
    BY <2>3, <2>5, FS_Singleton
<1>7. CASE ~(b[1] = p /\ Uploaded(b))
  <2>1. LinksTo(p, b)' = {}
    BY <1>1, <1>2, <1>5, <1>7 DEF LinksTo, Uploaded
  <2>2. Places(b)' = Places(b)
    BY <1>3, <1>4, <2>1 DEF Places
  <2>3. blocks'[b] = blocks[b]
    BY <1>1, <1>7, InsertRow DEF InTx
  <2>4. QED
    BY <2>2, <2>3 DEF PlacesCounted
<1>8. QED
  BY <1>6, <1>7

LEMMA UpdatePlaces ==
    ASSUME IInv, SerialInv, PlacesCounted, NEW b \in BlockId, NEW p \in PutReq,
           job[p].pc = "link", CanRelink(p, Own(p), job[p].new),
           BlockUpdate(p, Own(p), job[p].new)
    PROVE  IsFiniteSet(Places(b)') /\ blocks'[b].refer = Cardinality(Places(b)')
<1> DEFINE o == Own(p)
           n == job[p].new
<1>1. /\ TypeOK /\ o \in BlockId /\ n \in BlockId /\ o # n /\ HasOwn(p)
      /\ blocks[o].refer = 1 /\ \A c \in PutReq \ {p} : LinksTo(c, o) = {}
  BY LinkType, Relinks DEF IInv
<1>2. /\ DOMAIN links'[p] = DOMAIN links[p]
      /\ \A k \in DOMAIN links[p] : links'[p][k] = IF links[p][k] = o THEN n ELSE links[p][k]
      /\ \A c \in PutReq \ {p} : links'[c] = links[c]
  BY <1>1, UpdateRow
<1>3. \A x \in BlockId : \A c \in PutReq \ {p} : LinksTo(c, x)' = LinksTo(c, x)
  BY <1>2 DEF LinksTo
<1>4. PICK k \in 1 .. MaxBlocks : LinksTo(p, o) = {k}
  <2>1. PICK l : Places(o) = {l}
    BY <1>1, FS_Singleton DEF PlacesCounted
  <2>2. LinksTo(p, o) # {} /\ LinksTo(p, o) \subseteq 1 .. MaxBlocks
    BY <1>1, LinksToBounded DEF HasOwn
  <2>3. \A k \in LinksTo(p, o) : <<p, k>> \in Places(o)
    BY <2>2 DEF Places
  <2>4. \A j, k \in LinksTo(p, o) : j = k
    BY <2>1, <2>3
  <2>5. QED
    BY <2>2, <2>4
<1>5. blocks[b].refer \in Nat /\ IsFiniteSet(Places(b)) /\ blocks[b].refer = Cardinality(Places(b))
  BY <1>1, RowType DEF PlacesCounted
<1>6. CASE b = n
  <2>1. k \in DOMAIN links[p] /\ links[p][k] = o
        /\ \A j \in DOMAIN links[p] : links[p][j] = o => j = k
    BY <1>4 DEF LinksTo
  <2>2. \A j \in DOMAIN links[p] : links'[p][j] = b <=> links[p][j] = b \/ j = k
    BY <1>1, <1>2, <1>6, <2>1
  <2>3. LinksTo(p, b)' = LinksTo(p, b) \cup {k} /\ k \notin LinksTo(p, b)
    BY <1>1, <1>2, <1>6, <2>1, <2>2 DEF LinksTo
  <2>4. Places(b)' = Places(b) \cup {<<p, k>>} /\ <<p, k>> \notin Places(b)
    BY <1>3, <2>3 DEF Places
  <2>5. blocks'[b].refer = blocks[b].refer + 1
    BY <1>1, <1>6, UpdateRow
  <2>6. QED
    BY <1>5, <2>4, <2>5, FS_AddElement
<1>7. CASE b = o
  <2>1. LinksTo(p, b)' = {} /\ \A c \in PutReq \ {p} : LinksTo(c, b)' = {}
    <3>1. \A j \in DOMAIN links'[p] : links'[p][j] # b
      BY <1>1, <1>2, <1>7
    <3>2. \A c \in PutReq \ {p} : LinksTo(c, b)' = {}
      BY <1>1, <1>3, <1>7
    <3>3. QED
      BY <3>1, <3>2 DEF LinksTo
  <2>2. Places(b)' = {}
    BY <2>1 DEF Places
  <2>3. blocks'[b].refer = 0
    <3>1. blocks'[b] = NoRow
      BY <1>1, <1>7 DEF BlockUpdate, DropsOld
    <3>2. QED
      BY <3>1 DEF NoRow
  <2>4. QED
    BY <2>2, <2>3, FS_EmptySet
<1>8. CASE b # n /\ b # o
  <2>1. LinksTo(p, b)' = LinksTo(p, b)
    BY <1>2, <1>8 DEF LinksTo
  <2>2. Places(b)' = Places(b)
    BY <1>3, <2>1 DEF Places
  <2>3. blocks'[b] = blocks[b]
    BY <1>1, <1>8, UpdateRow
  <2>4. QED
    BY <1>5, <2>2, <2>3
<1>9. QED
  BY <1>6, <1>7, <1>8

LEMMA DeletePlaces ==
    ASSUME IInv, PlacesCounted, NEW b \in BlockId, NEW d \in PutReq,
           \A x \in Freed(d) : ForeignKeyHolds(x, d), BlockDelete(d)
    PROVE  IsFiniteSet(Places(b)') /\ blocks'[b].refer = Cardinality(Places(b)')
<1>1. TypeOK /\ IsFiniteSet(Places(b)) /\ blocks[b].refer = Cardinality(Places(b))
      /\ blocks[b] \in BlockRow /\ blocks[b].refer \in Nat
  BY RowType DEF IInv, PlacesCounted
<1>2. \A c \in PutReq : links'[c] = IF c = d THEN <<>> ELSE links[c]
  BY <1>1, DeleteRow
<1>3. LinksTo(d, b)' = {} /\ \A c \in PutReq \ {d} : LinksTo(c, b)' = LinksTo(c, b)
  <2>1. links'[d] = <<>> /\ \A c \in PutReq \ {d} : links'[c] = links[c]
    BY <1>2
  <2>2. QED
    BY <2>1 DEF LinksTo
<1> DEFINE D == {d} \X LinksTo(d, b)
<1>4. Places(b)' = Places(b) \ D
  BY <1>3 DEF Places
<1>5. D \subseteq Places(b)
  BY LinksToBounded DEF Places
<1>6. IsFiniteSet(D) /\ Cardinality(D) = Cardinality(LinksTo(d, b)) /\ Cardinality(D) \in Nat
  <2> DEFINE L == LinksTo(d, b)
  <2>1. IsFiniteSet(L) /\ Cardinality(L) \in Nat
    BY <1>1, LinksToFinite
  <2> HIDE DEF L
  <2>2. IsFiniteSet({d} \X L) /\ Cardinality({d} \X L) = Cardinality(L)
    BY <2>1, PlacesOf
  <2>3. QED
    BY <2>1, <2>2 DEF L
<1>7. IsFiniteSet(Places(b)') /\ Cardinality(Places(b)') = blocks[b].refer - Cardinality(D)
  <2>1. IsFiniteSet(Places(b)')
    BY <1>1, <1>4, FS_Subset
  <2>2. Places(b) = Places(b)' \cup D /\ Places(b)' \cap D = {}
    BY <1>4, <1>5
  <2>3. Cardinality(Places(b)') \in Nat
    BY <2>1, FS_CardinalityType
  <2>4. Cardinality(Places(b)) =
            Cardinality(Places(b)') + Cardinality(D) - Cardinality(Places(b)' \cap D)
    BY <1>6, <2>1, <2>2, FS_Union
  <2>5. Cardinality(Places(b)' \cap D) = 0
    BY <2>2, FS_EmptySet
  <2>6. QED
    BY <1>1, <1>6, <2>1, <2>3, <2>4, <2>5
<1>8. CASE LinksTo(d, b) = {}
  <2>1. blocks'[b].refer = blocks[b].refer
    BY <1>1, <1>8 DEF BlockDelete, Freed
  <2>2. Cardinality(D) = 0
    BY <1>6, <1>8, FS_EmptySet
  <2>3. QED
    BY <1>1, <1>7, <2>1, <2>2
<1>9. CASE b \in Freed(d)
  <2>1. \A c \in PutReq \ {d} : LinksTo(c, b) = {}
    BY <1>9 DEF ForeignKeyHolds
  <2>2. Places(b)' = {}
    BY <1>3, <2>1 DEF Places
  <2>3. blocks'[b] = NoRow
    BY <1>9 DEF BlockDelete, Freed
  <2>4. QED
    BY <2>2, <2>3, FS_EmptySet DEF NoRow
<1>10. CASE LinksTo(d, b) # {} /\ b \notin Freed(d)
  <2>1. blocks'[b] = [blocks[b] EXCEPT !.refer = @ - Cardinality(LinksTo(d, b))]
    BY <1>10 DEF BlockDelete
  <2>2. QED
    BY <1>1, <1>6, <1>7, <2>1 DEF BlockRow
<1>11. QED
  BY <1>8, <1>9, <1>10

LEMMA InitPlacesCounted == Init => PlacesCounted
<1> SUFFICES ASSUME Init, NEW b \in BlockId
             PROVE  IsFiniteSet(Places(b)) /\ blocks[b].refer = Cardinality(Places(b))
  BY DEF PlacesCounted
<1>1. \A c \in PutReq : LinksTo(c, b) = {}
  BY DEF Init, RepositoryInit, LinksTo
<1>2. Places(b) = {} /\ blocks[b].refer = 0
  BY <1>1 DEF Places, Init, RepositoryInit, NoRow
<1>3. QED
  BY <1>2, FS_EmptySet

LEMMA PlacesCountedStep ==
    ASSUME IInv, SerialInv, PlacesCounted, [Next]_vars
    PROVE  PlacesCounted'
<1> SUFFICES ASSUME NEW b \in BlockId
             PROVE  IsFiniteSet(Places(b)') /\ blocks'[b].refer = Cardinality(Places(b)')
  BY DEF PlacesCounted
<1>1. CASE UNCHANGED <<links, blocks>>
  <2>1. Places(b)' = Places(b)
    BY <1>1 DEF Places, LinksTo
  <2>2. QED
    BY <1>1, <2>1 DEF PlacesCounted
<1>2. QED
  BY <1>1, SerialSteps, InsertPlaces, UpdatePlaces, DeletePlaces

\* While PUTs commit one at a time and calls do not fail, every row counts the
\* places where its block is linked.
THEOREM Counted == Serial => (Spec => []PlacesCounted)
<1> SUFFICES ASSUME Serial PROVE Spec => []PlacesCounted
  OBVIOUS
<1>1. Init => PlacesCounted
  BY InitPlacesCounted
<1>2. IInv /\ SerialInv /\ PlacesCounted /\ [Next]_vars => PlacesCounted'
  BY PlacesCountedStep
<1>3. QED
  BY <1>1, <1>2, Faithful, SerialFaithful, PTL DEF Spec

\* blocks.refer is the number of links, so a row goes exactly with its last.
THEOREM Exact == Serial => (Spec => []RefersExact)
<1> SUFFICES ASSUME Serial PROVE Spec => []RefersExact
  OBVIOUS
<1>1. PlacesCounted => RefersExact
  BY DEF PlacesCounted, RefersExact, Places
<1>2. QED
  BY <1>1, Counted, PTL

\* Every file that was answered 201 and not replaced or deleted since can be
\* read; what the run pool shows takes a second connection.
THEOREM Readable == Serial => (Spec => []FilesReadable)
<1> SUFFICES ASSUME Serial PROVE Spec => []FilesReadable
  OBVIOUS
<1>1. IInv /\ NoLoss => FilesReadable
  <2> SUFFICES ASSUME IInv, NoLoss, NEW q \in Path, NEW k \in DOMAIN FileSelect(q)
               PROVE  Stored(FileSelect(q)[k])
    BY DEF FilesReadable
  <2>1. files[q].chain # None /\ files[q].chain \in PutReq /\ k \in DOMAIN links[files[q].chain]
    BY CurrentType DEF FileSelect, IInv
  <2>2. links[files[q].chain] \in Seq(BlockId)
    BY <2>1 DEF IInv, TypeOK, RepositoryTypeOK
  <2>3. links[files[q].chain][k] \in BlockId
    BY <2>1, <2>2
  <2>4. Linked(links[files[q].chain][k])
    BY <2>1 DEF Linked, LinksTo
  <2>5. QED
    BY <2>1, <2>3, <2>4 DEF NoLoss, FileSelect
<1>2. QED
  BY <1>1, Faithful, NothingLost, PTL

=============================================================================
