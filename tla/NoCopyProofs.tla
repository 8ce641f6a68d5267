----------------------------- MODULE NoCopyProofs -----------------------------
(***************************************************************************)
(* Proofs about NoCopy for every set of requests and paths, every number   *)
(* of blocks, every pool of connections and every combination of failures. *)
(***************************************************************************)
EXTENDS NoCopy, FiniteSetTheorems, TLAPS

-----------------------------------------------------------------------------
(* Uploads, and the initial state.                                         *)

LEMMA BodyShape ==
    ASSUME NEW s \in Bodies
    PROVE  /\ s \in Seq(Content)
           /\ s # <<>>
           /\ Len(s) \in 1 .. MaxBlocks
           /\ \A k \in 1 .. Len(s) : s[k] \in Content
           /\ \A k \in 1 .. Len(s) : s[k] \in Short <=> k = Len(s)
  BY MaxBlocksAssumption, BodiesAssumption

LEMMA InitIInv == Init => IInv
<1> SUFFICES ASSUME Init PROVE IInv
  OBVIOUS
<1> USE DEF Init, RepositoryInit, StorageInit, ServiceInit, ChainInit,
        PutIdle, DelIdle, GetIdle, JobIdle, JobAt
<1>1. TypeOK
  BY MaxBlocksAssumption
     DEF TypeOK, RepositoryTypeOK, StorageTypeOK, ServiceTypeOK, ChainTypeOK,
         FileRow, BlockRow, Put, Delete, Get, Job, NoRow, NoRank, PutPC, GetPC, JobPC
<1>2. PutShape /\ ObjectsFaithful /\ ChainsFaithful /\ CurrentLinked
  BY DEF PutShape, ObjectsFaithful, ChainsFaithful, CurrentLinked, Stored
<1>3. JobsFaithful /\ ReadersFaithful
  BY DEF JobsFaithful, ReadersFaithful, AtBlock
<1>4. RowsNamed
  BY DEF RowsNamed
<1>5. QED
  BY <1>1, <1>2, <1>3, <1>4 DEF IInv

-----------------------------------------------------------------------------
(* Which actions change which variable.                                    *)

LEMMA PutChanges ==
    ASSUME [Next]_vars
    PROVE  \/ put' = put
           \/ \E p \in PutReq : \/ PutFile(p) \/ PutStore(p) \/ PutBegin(p)
                                \/ PutCommit(p) \/ PutNotFound(p) \/ PutMessage(p)
                                \/ PutError(p)
           \/ BlockCrash
  BY DEF Next, vars, serviceVars, PutAction, DelAction, GetAction, JobAction,
         PutStep, DelStep, GetStep, JobStep, HandlerStep, Crash, Rest, DeleteNothing, DeleteFile, DeleteUnanswered,
         DeleteFails, DeleteDeadlock, DeletePurge, GetList, GetBlock, GetBroken, FileQuery,
         Lookup, LookupError, Compare, Link, LinkFails, LinkUnanswered, PurgeOwn,
         Break, BreakFails, Sweep, Lose, ChainCrash

LEMMA TablesChange ==
    ASSUME [Next]_vars
    PROVE  \/ UNCHANGED <<links, blocks>>
           \/ \E p \in PutReq : \/ PutCommit(p) /\ UNCHANGED job
                                \/ Link(p) \/ LinkUnanswered(p) \/ Break(p)
           \/ \E d \in DelReq : (DeleteFile(d) \/ DeleteUnanswered(d)) /\ UNCHANGED job
  BY DEF Next, vars, dbVars, PutAction, DelAction, GetAction, JobAction,
         PutStep, DelStep, GetStep, JobStep, HandlerStep, Crash, Rest, PutFile, PutStore,
         PutBegin, PutNotFound, PutMessage, PutError, DeleteNothing,
         DeleteFails, DeleteDeadlock, DeletePurge, GetList, GetBlock, GetBroken, FileQuery,
         Lookup, LookupError, Compare, LinkFails, PurgeOwn,
         BreakFails, Sweep, Lose, ChainCrash, BlockCrash

LEMMA FilesChange ==
    ASSUME [Next]_vars
    PROVE  \/ files' = files
           \/ \E p \in PutReq : PutFile(p) \/ PutCommit(p)
           \/ \E d \in DelReq : DeleteNothing(d) \/ DeleteFile(d) \/ DeleteUnanswered(d)
  BY DEF Next, vars, dbVars, PutAction, DelAction, GetAction,
         JobAction, PutStep, DelStep, GetStep, JobStep, HandlerStep, Crash, Rest,
         PutStore, PutBegin, PutNotFound, PutMessage, PutError,
         DeleteFails, DeleteDeadlock, DeletePurge, GetList, GetBlock, GetBroken,
         FileQuery, Lookup, LookupError, Compare, Link, LinkFails,
         LinkUnanswered, PurgeOwn, Break, BreakFails, Sweep, Lose,
         ChainCrash, BlockCrash

LEMMA ObjectsChange ==
    ASSUME [Next]_vars
    PROVE  \/ objects' = objects
           \/ \E p \in PutReq : PutStore(p) \/ PurgeOwn(p) \/ Sweep(p)
           \/ \E d \in DelReq : DeletePurge(d)
  BY DEF Next, vars, PutAction, DelAction, GetAction, JobAction,
         PutStep, DelStep, GetStep, JobStep, HandlerStep, Crash, Rest, PutFile,
         PutBegin, PutCommit, PutNotFound, PutMessage, PutError,
         DeleteNothing, DeleteFile, DeleteUnanswered, DeleteFails, DeleteDeadlock, GetList, GetBlock,
         GetBroken, FileQuery, Lookup, LookupError, Compare, Link,
         LinkFails, LinkUnanswered, Break, BreakFails, Lose,
         ChainCrash, BlockCrash

LEMMA DeletesChange ==
    ASSUME [Next]_vars
    PROVE  \/ del' = del
           \/ \E d \in DelReq : \/ DeleteNothing(d) \/ DeleteFile(d)
                                \/ DeleteUnanswered(d) \/ DeleteFails(d)
                                \/ DeleteDeadlock(d) \/ DeletePurge(d)
           \/ BlockCrash
  BY DEF Next, vars, serviceVars, PutAction, DelAction, GetAction,
         JobAction, PutStep, DelStep, GetStep, JobStep, HandlerStep, Crash, Rest,
         PutFile, PutStore, PutBegin, PutCommit, PutNotFound,
         PutMessage, PutError, GetList, GetBlock, GetBroken,
         FileQuery, Lookup, LookupError, Compare, Link, LinkFails,
         LinkUnanswered, PurgeOwn, Break, BreakFails, Sweep, Lose,
         ChainCrash

LEMMA ReadersChange ==
    ASSUME [Next]_vars
    PROVE  \/ get' = get
           \/ \E g \in GetReq : GetList(g) \/ GetBlock(g) \/ GetBroken(g)
           \/ BlockCrash
  BY DEF Next, vars, serviceVars, PutAction, DelAction, GetAction,
         JobAction, PutStep, DelStep, GetStep, JobStep, HandlerStep, Crash, Rest,
         PutFile, PutStore, PutBegin, PutCommit, PutNotFound,
         PutMessage, PutError, DeleteNothing, DeleteFile, DeleteUnanswered, DeleteFails, DeleteDeadlock,
         DeletePurge, FileQuery, Lookup, LookupError, Compare, Link,
         LinkFails, LinkUnanswered, PurgeOwn, Break, BreakFails,
         Sweep, Lose, ChainCrash

LEMMA MailChanges ==
    ASSUME [Next]_vars
    PROVE  \/ mail' = mail
           \/ \E p \in PutReq : \/ PutMessage(p) /\ UNCHANGED job
                                \/ FileQuery(p) \/ Lose(p)
  BY DEF Next, vars, serviceVars, PutAction, DelAction, GetAction,
         JobAction, PutStep, DelStep, GetStep, JobStep, HandlerStep, Crash, Rest,
         PutFile, PutStore, PutBegin, PutCommit, PutNotFound,
         PutError, DeleteNothing, DeleteFile, DeleteUnanswered, DeleteFails, DeleteDeadlock,
         DeletePurge, GetList, GetBlock, GetBroken, Lookup,
         LookupError, Compare, Link, LinkFails, LinkUnanswered,
         PurgeOwn, Break, BreakFails, Sweep, ChainCrash, BlockCrash

LEMMA JobsChange ==
    ASSUME [Next]_vars
    PROVE  \/ job' = job
           \/ \E p \in PutReq : \/ FileQuery(p) \/ Lookup(p) \/ LookupError(p)
                                \/ Compare(p) \/ Link(p) \/ LinkFails(p)
                                \/ LinkUnanswered(p) \/ PurgeOwn(p) \/ Break(p)
                                \/ BreakFails(p) \/ Sweep(p)
           \/ ChainCrash
  BY DEF Next, vars, PutAction, DelAction, GetAction, JobAction,
         PutStep, DelStep, GetStep, JobStep, HandlerStep, Crash, Rest, PutFile,
         PutStore, PutBegin, PutCommit, PutNotFound, PutMessage,
         PutError, DeleteNothing, DeleteFile, DeleteUnanswered, DeleteFails, DeleteDeadlock,
         DeletePurge, GetList, GetBlock, GetBroken, Lose, BlockCrash

LEMMA NowChanges ==
    ASSUME [Next]_vars
    PROVE  now' = now \/ DrawRanks
  BY DEF Next, vars, dbVars, PutAction, DelAction, GetAction,
         JobAction, PutStep, DelStep, GetStep, JobStep, HandlerStep, Crash, Rest, PutFile,
         PutStore, PutBegin, PutCommit, PutNotFound, PutMessage, PutError,
         DeleteNothing, DeleteFile, DeleteUnanswered, DeleteFails, DeleteDeadlock, DeletePurge, GetList, GetBlock,
         GetBroken, FileQuery, Lookup, LookupError, Compare, Link, LinkFails,
         LinkUnanswered, PurgeOwn, Break, BreakFails, Sweep, Lose, ChainCrash,
         BlockCrash

-----------------------------------------------------------------------------
(* An upload never changes once its first block is stored.                 *)

LEMMA PutFields ==
    ASSUME NEW v \in Put
    PROVE  /\ v.n \in Nat /\ v.n <= MaxBlocks
           /\ v.body \in Bodies \cup {<<>>}
           /\ v.old \in PutReq \cup {None}
           /\ v.fid \in PutReq \cup {None}
  BY MaxBlocksAssumption DEF Put

LEMMA PutType ==
    ASSUME TypeOK, PutShape, [Next]_vars
    PROVE  put' \in [PutReq -> Put]
<1> USE DEF TypeOK, ServiceTypeOK, RepositoryTypeOK
<1>0. NoRank \in [1 .. MaxBlocks -> Nat]
  BY DEF NoRank
<1>1. CASE put' = put
  BY <1>1
<1>2. ASSUME NEW r \in PutReq, PutFile(r)
      PROVE  put' \in [PutReq -> Put]
  <2>1. PICK q \in Path, s \in Bodies :
            put' = [put EXCEPT ![r] =
                        [@ EXCEPT !.pc = "store", !.path = q, !.fid = FileId(q, r),
                                 !.body = s]]
    BY <1>2 DEF PutFile
  <2>2. FileId(q, r) \in PutReq \cup {None}
    BY DEF FileId, FileRow
  <2>3. put[r] \in Put
    OBVIOUS
  <2>4. [put[r] EXCEPT !.pc = "store", !.path = q, !.fid = FileId(q, r), !.body = s] \in Put
    BY <2>2, <2>3 DEF Put, PutPC
  <2>5. QED
    BY <2>1, <2>4
<1>3. ASSUME NEW r \in PutReq, PutStore(r)
      PROVE  put' \in [PutReq -> Put]
  <2>1. put[r] \in Put /\ put[r].n < Len(put[r].body) /\ put[r].body \in Bodies \cup {<<>>}
    BY <1>3 DEF PutStore, PutShape, Put
  <2>2. put[r].body \in Bodies
    BY <2>1 DEF Put
  <2>3. put[r].n + 1 \in 0 .. MaxBlocks
    BY <2>1, <2>2, BodyShape, MaxBlocksAssumption DEF Put
  <2>4. QED
    BY <1>3, <2>1, <2>3 DEF PutStore, Put, PutPC
<1>4. ASSUME NEW r \in PutReq, PutBegin(r)
      PROVE  put' \in [PutReq -> Put]
  <2>1. PICK k \in RankDraws : put' = [put EXCEPT ![r] = [@ EXCEPT !.pc = "tx", !.rank = k]]
    BY <1>4 DEF PutBegin
  <2>2. k \in [1 .. MaxBlocks -> Nat]
    BY MaxBlocksAssumption DEF RankDraws
  <2>3. put[r] \in Put
    OBVIOUS
  <2>4. [put[r] EXCEPT !.pc = "tx", !.rank = k] \in Put
    BY <2>2, <2>3 DEF Put, PutPC
  <2>5. QED
    BY <2>1, <2>4
<1>5. ASSUME NEW r \in PutReq, PutNotFound(r) \/ PutError(r)
      PROVE  put' \in [PutReq -> Put]
  <2>1. put' = [put EXCEPT ![r] = [@ EXCEPT !.pc = "failed", !.rank = NoRank]]
    BY <1>5 DEF PutNotFound, PutError
  <2>2. put[r] \in Put
    OBVIOUS
  <2>3. [put[r] EXCEPT !.pc = "failed", !.rank = NoRank] \in Put
    BY <2>2, <1>0 DEF Put, PutPC
  <2>4. QED
    BY <2>1, <2>3
<1>6. ASSUME NEW r \in PutReq, PutCommit(r)
      PROVE  put' \in [PutReq -> Put]
  <2>1. PICK q \in Path, pc \in {"message", "failed"} :
            put' = [put EXCEPT ![r] = [@ EXCEPT !.pc = pc, !.rank = NoRank,
                                                !.old = files[q].chain]]
    BY <1>6 DEF PutCommit, FilesWithId
  <2>2. files[q].chain \in PutReq \cup {None}
    BY DEF FileRow
  <2>3. put[r] \in Put
    OBVIOUS
  <2>4. [put[r] EXCEPT !.pc = pc, !.rank = NoRank, !.old = files[q].chain] \in Put
    BY <2>2, <2>3, <1>0 DEF Put, PutPC
  <2>5. QED
    BY <2>1, <2>4
<1>7. ASSUME NEW r \in PutReq, PutMessage(r)
      PROVE  put' \in [PutReq -> Put]
  <2>1. put' = [put EXCEPT ![r] = [@ EXCEPT !.pc = "done"]]
    BY <1>7 DEF PutMessage
  <2>2. put[r] \in Put
    OBVIOUS
  <2>3. [put[r] EXCEPT !.pc = "done"] \in Put
    BY <2>2 DEF Put, PutPC
  <2>4. QED
    BY <2>1, <2>3
<1>8. CASE BlockCrash
  <2>1. ASSUME NEW r \in PutReq
        PROVE  /\ put[r] \in Put
               /\ [put[r] EXCEPT !.pc = "failed", !.rank = NoRank] \in Put
    <3>1. put[r] \in Put
      OBVIOUS
    <3>2. QED
      BY <3>1, <1>0 DEF Put, PutPC
  <2>2. QED
    BY <1>8, <2>1 DEF BlockCrash
<1>9. QED
  BY <1>1, <1>2, <1>3, <1>4, <1>5, <1>6, <1>7, <1>8, PutChanges

LEMMA PutSteady ==
    ASSUME TypeOK, PutShape, [Next]_vars, NEW p \in PutReq
    PROVE  /\ put'[p].n >= put[p].n
           /\ put[p].pc # "idle" => put'[p].body = put[p].body
           /\ put[p].pc = "done" => put'[p] = put[p]
           /\ Committed(p) => Committed(p)' /\ put'[p].n = put[p].n
<1> USE DEF TypeOK, ServiceTypeOK, Put, Committed
<1>1. CASE put' = put
  BY <1>1
<1>2. CASE \E r \in PutReq : PutFile(r)
  BY <1>2 DEF PutFile
<1>3. CASE \E r \in PutReq : PutStore(r)
  BY <1>3 DEF PutStore
<1>4. CASE \E r \in PutReq : PutBegin(r)
  BY <1>4 DEF PutBegin
<1>9. ASSUME NEW r \in PutReq, PutNotFound(r) \/ PutError(r)
      PROVE  \/ put'[p] = put[p]
             \/ /\ put[p].pc # "done" /\ put'[p].pc = "failed"
                /\ put'[p].n = put[p].n /\ put'[p].body = put[p].body
  <2>1. put[r] \in Put
    OBVIOUS
  <2>2. put[r].pc # "done"
    BY <1>9 DEF PutNotFound, PutError
  <2>3. put' = [put EXCEPT ![r] = [@ EXCEPT !.pc = "failed", !.rank = NoRank]]
    BY <1>9 DEF PutNotFound, PutError
  <2>4. CASE p = r
    BY <2>1, <2>2, <2>3, <2>4
  <2>5. CASE p # r
    BY <2>3, <2>5
  <2>6. QED
    BY <2>4, <2>5
<1>5. ASSUME NEW r \in PutReq, PutCommit(r)
      PROVE  \/ put'[p] = put[p]
             \/ /\ put[p].pc = "tx" /\ put'[p].n = put[p].n
                /\ put'[p].body = put[p].body
  <2>1. PICK q \in Path, pc \in {"message", "failed"} :
            put' = [put EXCEPT ![r] = [@ EXCEPT !.pc = pc, !.rank = NoRank,
                                                !.old = files[q].chain]]
    BY <1>5 DEF PutCommit, FilesWithId
  <2>2. QED
    BY <1>5, <2>1 DEF PutCommit
<1>6. CASE \E r \in PutReq : PutMessage(r)
  BY <1>6 DEF PutMessage
<1>7. CASE BlockCrash
  <2>1. put'[p] = IF put[p].pc \in {"store", "update", "tx", "message"}
                  THEN [put[p] EXCEPT !.pc = "failed", !.rank = NoRank] ELSE put[p]
    BY <1>7 DEF BlockCrash
  <2>2. QED
    BY <2>1
<1>8. QED
  BY <1>1, <1>2, <1>3, <1>4, <1>5, <1>6, <1>7, <1>9, PutFields, PutChanges

LEMMA UploadSteady ==
    ASSUME TypeOK, PutShape, [Next]_vars, NEW b \in BlockId, Uploaded(b)
    PROVE  Uploaded(b)' /\ Origin(b)' = Origin(b)
<1>1. b[1] \in PutReq /\ b[2] \in 1 .. MaxBlocks
  BY DEF BlockId
<1>2. put[b[1]] \in Put /\ put'[b[1]] \in Put
  BY <1>1, PutType DEF TypeOK, ServiceTypeOK
<1>3. put[b[1]].pc # "idle"
  <2>1. put[b[1]].n # 0
    BY <1>1, <1>2, PutFields DEF Uploaded
  <2>2. QED
    BY <1>1, <2>1 DEF PutShape
<1>4. put'[b[1]].n >= put[b[1]].n /\ put'[b[1]].body = put[b[1]].body
  BY <1>1, <1>3, PutSteady
<1>5. QED
  BY <1>1, <1>2, <1>4, MaxBlocksAssumption DEF Uploaded, Origin, Put

LEMMA PutShapeStep ==
    ASSUME TypeOK, PutShape, [Next]_vars
    PROVE  PutShape'
<1> DEFINE Shape(v) == /\ v.n <= Len(v.body)
                       /\ v.pc = "idle" => v.n = 0
                       /\ v.pc = "store" => v.n < Len(v.body)
                       /\ v.pc \in {"update", "tx", "message", "done"} =>
                              v.body # <<>> /\ v.n = Len(v.body)
<1>0. \A p \in PutReq : put[p] \in Put /\ Shape(put[p])
  BY DEF TypeOK, ServiceTypeOK, PutShape
<1>a. ASSUME NEW v \in Put, Shape(v)
      PROVE  Shape([v EXCEPT !.pc = "failed", !.rank = NoRank])
  BY <1>a DEF Put
<1>1. CASE put' = put
  BY <1>1 DEF PutShape
<1>2. ASSUME NEW r \in PutReq, PutFile(r)
      PROVE  PutShape'
  <2>1. PICK q \in Path, s \in Bodies :
            put' = [put EXCEPT ![r] =
                        [@ EXCEPT !.pc = "store", !.path = q, !.fid = FileId(q, r),
                                 !.body = s]]
    BY <1>2 DEF PutFile
  <2>2. put[r].n = 0 /\ put[r] \in Put
    BY <1>2, <1>0 DEF PutFile
  <2>3. Shape([put[r] EXCEPT !.pc = "store", !.path = q, !.fid = FileId(q, r),
                                 !.body = s])
    BY <2>2, BodyShape DEF Put
  <2>4. QED
    BY <1>0, <2>1, <2>3 DEF PutShape, TypeOK, ServiceTypeOK
<1>3. ASSUME NEW r \in PutReq, PutStore(r)
      PROVE  PutShape'
  <2> DEFINE k == put[r].n + 1
             w == [put[r] EXCEPT !.n = k,
                        !.pc = IF put[r].body[k] \in Short THEN "update" ELSE "store"]
  <2>1. put' = [put EXCEPT ![r] = w]
    BY <1>3 DEF PutStore
  <2>2. put[r] \in Put /\ put[r].n < Len(put[r].body) /\ put[r].n \in Nat
    BY <1>3, <1>0, PutFields DEF PutStore
  <2>3. put[r].body \in Bodies
    BY <2>2, PutFields
  <2>4. k \in 1 .. Len(put[r].body)
    BY <2>2, <2>3, BodyShape
  <2>5. put[r].body[k] \in Short <=> k = Len(put[r].body)
    BY <2>3, <2>4, BodyShape
  <2>6. Shape(w)
    BY <2>2, <2>3, <2>4, <2>5, BodyShape DEF Put
  <2>7. QED
    BY <1>0, <2>1, <2>6 DEF PutShape, TypeOK, ServiceTypeOK
<1>4. ASSUME NEW r \in PutReq, PutBegin(r)
      PROVE  PutShape'
  <2>1. PICK k \in RankDraws : put' = [put EXCEPT ![r] = [@ EXCEPT !.pc = "tx", !.rank = k]]
    BY <1>4 DEF PutBegin
  <2>2. put[r].pc = "update"
    BY <1>4 DEF PutBegin
  <2>3. Shape([put[r] EXCEPT !.pc = "tx", !.rank = k])
    BY <1>0, <2>2 DEF Put
  <2>4. QED
    BY <1>0, <2>1, <2>3 DEF PutShape, TypeOK, ServiceTypeOK
<1>5. ASSUME NEW r \in PutReq, PutNotFound(r) \/ PutError(r)
      PROVE  PutShape'
  <2>1. put' = [put EXCEPT ![r] = [@ EXCEPT !.pc = "failed", !.rank = NoRank]]
    BY <1>5 DEF PutNotFound, PutError
  <2>2. QED
    BY <1>0, <1>a, <2>1 DEF PutShape, TypeOK, ServiceTypeOK
<1>6. ASSUME NEW r \in PutReq, PutCommit(r)
      PROVE  PutShape'
  <2>1. PICK q \in Path, pc \in {"message", "failed"} :
            put' = [put EXCEPT ![r] = [@ EXCEPT !.pc = pc, !.rank = NoRank,
                                                !.old = files[q].chain]]
    BY <1>6 DEF PutCommit, FilesWithId
  <2>2. put[r].pc = "tx"
    BY <1>6 DEF PutCommit
  <2>3. Shape([put[r] EXCEPT !.pc = pc, !.rank = NoRank, !.old = files[q].chain])
    BY <1>0, <2>2 DEF Put
  <2>4. QED
    BY <1>0, <2>1, <2>3 DEF PutShape, TypeOK, ServiceTypeOK
<1>7. ASSUME NEW r \in PutReq, PutMessage(r)
      PROVE  PutShape'
  <2>1. put' = [put EXCEPT ![r].pc = "done"] /\ put[r].pc = "message"
    BY <1>7 DEF PutMessage
  <2>2. Shape([put[r] EXCEPT !.pc = "done"])
    BY <1>0, <2>1 DEF Put
  <2>3. QED
    BY <1>0, <2>1, <2>2 DEF PutShape, TypeOK, ServiceTypeOK
<1>8. CASE BlockCrash
  BY <1>8, <1>0, <1>a DEF BlockCrash, PutShape
<1>9. QED
  BY <1>1, <1>2, <1>3, <1>4, <1>5, <1>6, <1>7, <1>8, PutChanges

-----------------------------------------------------------------------------
(* Types of the tables.                                                    *)

LEMMA LinksToFinite ==
    ASSUME TypeOK, NEW c \in PutReq, NEW b
    PROVE  IsFiniteSet(LinksTo(c, b)) /\ Cardinality(LinksTo(c, b)) \in Nat
<1>1. links[c] \in Seq(BlockId)
  BY DEF TypeOK, RepositoryTypeOK
<1>2. LinksTo(c, b) \subseteq 1 .. Len(links[c]) /\ Len(links[c]) \in Int
  BY <1>1 DEF LinksTo
<1>3. IsFiniteSet(1 .. Len(links[c]))
  BY <1>2, FS_Interval
<1>4. IsFiniteSet(LinksTo(c, b))
  BY <1>2, <1>3, FS_Subset
<1>5. QED
  BY <1>4, FS_CardinalityType

LEMMA BlockDeleteType ==
    ASSUME TypeOK, NEW c \in PutReq, BlockDelete(c)
    PROVE  links' \in [PutReq -> Seq(BlockId)] /\ blocks' \in [BlockId -> BlockRow]
<1>1. links' \in [PutReq -> Seq(BlockId)]
  BY DEF BlockDelete, TypeOK, RepositoryTypeOK
<1>2. ASSUME NEW b \in BlockId
      PROVE  blocks'[b] \in BlockRow
  <2>1. blocks[b] \in BlockRow /\ Cardinality(LinksTo(c, b)) \in Nat
    BY LinksToFinite DEF TypeOK, RepositoryTypeOK
  <2>2. CASE LinksTo(c, b) = {}
    BY <2>1, <2>2 DEF BlockDelete, Freed
  <2>3. CASE LinksTo(c, b) # {} /\ b \in Freed(c)
    BY <2>3 DEF BlockDelete, NoRow, BlockRow
  <2>4. CASE LinksTo(c, b) # {} /\ b \notin Freed(c)
    <3>1. blocks'[b] = [blocks[b] EXCEPT !.refer = @ - Cardinality(LinksTo(c, b))]
      BY <2>4 DEF BlockDelete
    <3>2. blocks[b].refer - Cardinality(LinksTo(c, b)) \in Nat
      BY <2>1, <2>4 DEF Freed, BlockRow
    <3>3. QED
      BY <2>1, <3>1, <3>2 DEF BlockRow
  <2>5. QED
    BY <2>2, <2>3, <2>4
<1>3. QED
  BY <1>1, <1>2 DEF BlockDelete

LEMMA BlockUpdateType ==
    ASSUME TypeOK, NEW c \in PutReq, NEW o \in BlockId, NEW n \in BlockId,
           BlockUpdate(c, o, n)
    PROVE  links' \in [PutReq -> Seq(BlockId)] /\ blocks' \in [BlockId -> BlockRow]
<1>1. links' \in [PutReq -> Seq(BlockId)]
  <2>1. links[c] \in Seq(BlockId)
    BY DEF TypeOK, RepositoryTypeOK
  <2>2. [k \in DOMAIN links[c] |-> IF links[c][k] = o THEN n ELSE links[c][k]]
            \in Seq(BlockId)
    BY <2>1
  <2>3. QED
    BY <2>2 DEF BlockUpdate, TypeOK, RepositoryTypeOK
<1>2. ASSUME NEW b \in BlockId
      PROVE  blocks'[b] \in BlockRow
  <2>1. blocks[b] \in BlockRow /\ blocks[n] \in BlockRow
    BY DEF TypeOK, RepositoryTypeOK
  <2>2. [blocks[n] EXCEPT !.refer = @ + 1] \in BlockRow
    BY <2>1 DEF BlockRow
  <2>3. NoRow \in BlockRow
    BY DEF NoRow, BlockRow
  <2>4. QED
    BY <2>1, <2>2, <2>3 DEF BlockUpdate
<1>3. QED
  BY <1>1, <1>2 DEF BlockUpdate

LEMMA BlockInsertType ==
    ASSUME TypeOK, PutShape, NEW p \in PutReq, NEW q \in Path, put[p].pc = "tx",
           BlockInsert(q, p, Hashes(p), put[p].rank)
    PROVE  links' \in [PutReq -> Seq(BlockId)] /\ blocks' \in [BlockId -> BlockRow]
<1>1. put[p] \in Put /\ put[p].n = Len(put[p].body) /\ put[p].body # <<>>
  BY DEF TypeOK, ServiceTypeOK, PutShape
<1>2. /\ put[p].n \in Nat /\ put[p].n <= MaxBlocks
      /\ put[p].body \in Bodies
      /\ put[p].rank \in [1 .. MaxBlocks -> Nat]
  BY <1>1, PutFields DEF Put
<1>3. /\ Hashes(p) \in Seq(Hash)
      /\ Len(Hashes(p)) = put[p].n
  <2>1. \A k \in 1 .. put[p].n : Digest[put[p].body[k]] \in Hash
    BY <1>1, <1>2, BodyShape, DigestAssumption
  <2>2. QED
    BY <1>2, <2>1 DEF Hashes
<1>4. links' \in [PutReq -> Seq(BlockId)]
  <2>0. \A k \in 1 .. put[p].n : <<p, k>> \in BlockId
    BY <1>2, MaxBlocksAssumption DEF BlockId
  <2>1. [k \in 1 .. Len(Hashes(p)) |-> <<p, k>>] \in Seq(BlockId)
    BY <1>2, <1>3, <2>0
  <2>2. QED
    BY <2>1 DEF BlockInsert, TypeOK, RepositoryTypeOK
<1>5. ASSUME NEW b \in BlockId
      PROVE  blocks'[b] \in BlockRow
  <2>1. blocks[b] \in BlockRow /\ b[2] \in 1 .. MaxBlocks
    BY DEF TypeOK, RepositoryTypeOK, BlockId
  <2>2. CASE b[1] = p /\ b[2] <= Len(Hashes(p))
    <3>1. Hashes(p)[b[2]] \in Hash /\ put[p].rank[b[2]] \in Nat
      BY <1>2, <1>3, <2>1, <2>2, MaxBlocksAssumption
    <3>2. blocks'[b] = [hash |-> Hashes(p)[b[2]], refer |-> 1, rank |-> put[p].rank[b[2]]]
      BY <2>2 DEF BlockInsert
    <3>3. QED
      BY <3>1, <3>2 DEF BlockRow
  <2>3. CASE ~(b[1] = p /\ b[2] <= Len(Hashes(p)))
    BY <2>1, <2>3 DEF BlockInsert
  <2>4. QED
    BY <2>2, <2>3
<1>6. QED
  BY <1>4, <1>5 DEF BlockInsert

LEMMA FilesType ==
    ASSUME TypeOK, [Next]_vars
    PROVE  files' \in [Path -> FileRow]
<1> USE DEF TypeOK, RepositoryTypeOK
<1>1. ASSUME NEW p \in PutReq, PutFile(p)
      PROVE  files' \in [Path -> FileRow]
  <2>1. PICK q \in Path : files' = [files EXCEPT ![q].id = FileId(q, p)]
    BY <1>1 DEF PutFile, FileInsert
  <2>2. files[q] \in FileRow /\ FileId(q, p) \in PutReq
    BY DEF FileId, FileRow
  <2>3. [files[q] EXCEPT !.id = FileId(q, p)] \in FileRow
    BY <2>2 DEF FileRow
  <2>4. QED
    BY <2>1, <2>3
<1>2. ASSUME NEW p \in PutReq, PutCommit(p)
      PROVE  files' \in [Path -> FileRow]
  <2>1. PICK q \in Path : files' = [files EXCEPT ![q].chain = p]
    BY <1>2 DEF PutCommit, BlockInsert, FilesWithId
  <2>2. files[q] \in FileRow
    OBVIOUS
  <2>3. [files[q] EXCEPT !.chain = p] \in FileRow
    BY <2>2 DEF FileRow
  <2>4. QED
    BY <2>1, <2>3
<1>3. ASSUME NEW d \in DelReq, DeleteNothing(d) \/ DeleteFile(d) \/ DeleteUnanswered(d)
      PROVE  files' \in [Path -> FileRow]
  <2>1. PICK q \in Path : FileRemove(q)
    BY <1>3 DEF DeleteNothing, DeleteFile, DeleteUnanswered
  <2>2. QED
    BY <2>1 DEF FileRemove, FileRow
<1>4. QED
  BY <1>1, <1>2, <1>3, FilesChange

\* What the links and the block rows become, and by which statement.
LEMMA TableSteps ==
    ASSUME TypeOK, [Next]_vars
    PROVE  \/ UNCHANGED <<links, blocks>>
           \/ \E p \in PutReq, q \in Path :
                  /\ put[p].pc = "tx"
                  /\ BlockInsert(q, p, Hashes(p), put[p].rank)
                  /\ Committed(p)'
                  /\ put'[p].body = put[p].body /\ put'[p].n = put[p].n
                  /\ UNCHANGED <<objects, del, job, mail, get>>
           \/ \E p \in PutReq : /\ job[p].pc = "link"
                                /\ CanRelink(p, Own(p), job[p].new)
                                /\ BlockUpdate(p, Own(p), job[p].new)
                                /\ UNCHANGED <<files, serviceVars>>
           \/ \E p \in PutReq : /\ job[p].pc = "break"
                                /\ CanDelete(Old(p), {})
                                /\ BlockDelete(Old(p))
                                /\ UNCHANGED <<files, serviceVars>>
           \/ \E q \in Path : /\ files[q].chain # None
                               /\ CanDelete(files[q].chain, {q})
                               /\ FileRemove(q)
                               /\ BlockDelete(files[q].chain)
                               /\ UNCHANGED <<put, job, mail, get>>
<1>1. ASSUME NEW p \in PutReq, PutCommit(p), UNCHANGED job
      PROVE  \E q \in Path :
                /\ put[p].pc = "tx"
                /\ BlockInsert(q, p, Hashes(p), put[p].rank)
                /\ Committed(p)'
                /\ put'[p].body = put[p].body /\ put'[p].n = put[p].n
                /\ UNCHANGED <<objects, del, job, mail, get>>
  <2>1. PICK q \in Path, pc \in {"message", "failed"} :
            /\ BlockInsert(q, p, Hashes(p), put[p].rank)
            /\ put' = [put EXCEPT ![p] = [@ EXCEPT !.pc = pc, !.rank = NoRank,
                                                   !.old = files[q].chain]]
    BY <1>1 DEF PutCommit, FilesWithId
  <2>2. put[p] \in Put /\ put \in [PutReq -> Put]
    BY DEF TypeOK, ServiceTypeOK
  <2>3. put'[p].pc = pc /\ put'[p].body = put[p].body /\ put'[p].n = put[p].n
    BY <2>1, <2>2 DEF Put
  <2>4. QED
    BY <1>1, <2>1, <2>3 DEF PutCommit, Committed
<1>2. ASSUME NEW p \in PutReq, Link(p) \/ LinkUnanswered(p)
      PROVE  /\ job[p].pc = "link"
             /\ CanRelink(p, Own(p), job[p].new)
             /\ BlockUpdate(p, Own(p), job[p].new)
             /\ UNCHANGED <<files, serviceVars>>
  BY <1>2 DEF Link, LinkUnanswered
<1>3. ASSUME NEW p \in PutReq, Break(p)
      PROVE  /\ job[p].pc = "break"
             /\ CanDelete(Old(p), {})
             /\ BlockDelete(Old(p))
             /\ UNCHANGED <<files, serviceVars>>
  BY <1>3 DEF Break
<1>4. ASSUME NEW d \in DelReq, DeleteFile(d) \/ DeleteUnanswered(d), UNCHANGED job
      PROVE  \E q \in Path : /\ files[q].chain # None
                             /\ CanDelete(files[q].chain, {q})
                             /\ FileRemove(q)
                             /\ BlockDelete(files[q].chain)
                             /\ UNCHANGED <<put, job, mail, get>>
  BY <1>4 DEF DeleteFile, DeleteUnanswered
<1>5. QED
  BY <1>1, <1>2, <1>3, <1>4, TablesChange

LEMMA TablesType ==
    ASSUME TypeOK, PutShape, JobsFaithful, [Next]_vars
    PROVE  links' \in [PutReq -> Seq(BlockId)] /\ blocks' \in [BlockId -> BlockRow]
<1>1. CASE UNCHANGED <<links, blocks>>
  BY <1>1 DEF TypeOK, RepositoryTypeOK
<1>2. ASSUME NEW p \in PutReq, NEW q \in Path, put[p].pc = "tx",
             BlockInsert(q, p, Hashes(p), put[p].rank)
      PROVE  links' \in [PutReq -> Seq(BlockId)] /\ blocks' \in [BlockId -> BlockRow]
  BY <1>2, BlockInsertType
<1>3. ASSUME NEW p \in PutReq, job[p].pc = "link", BlockUpdate(p, Own(p), job[p].new)
      PROVE  links' \in [PutReq -> Seq(BlockId)] /\ blocks' \in [BlockId -> BlockRow]
  <2>1. put[p] \in Put
    BY DEF TypeOK, ServiceTypeOK
  <2>2. job[p].new \in BlockId /\ job[p].i \in 1 .. put[p].n
    BY <1>3 DEF JobsFaithful, AtBlock
  <2>3. Own(p) \in BlockId
    BY <2>1, <2>2, PutFields, MaxBlocksAssumption DEF Own, BlockId
  <2>4. QED
    BY <1>3, <2>2, <2>3, BlockUpdateType
<1>4. ASSUME NEW c \in PutReq \cup {None}, c # None, BlockDelete(c)
      PROVE  links' \in [PutReq -> Seq(BlockId)] /\ blocks' \in [BlockId -> BlockRow]
  BY <1>4, BlockDeleteType
<1>5. ASSUME NEW p \in PutReq, job[p].pc = "break", BlockDelete(Old(p))
      PROVE  links' \in [PutReq -> Seq(BlockId)] /\ blocks' \in [BlockId -> BlockRow]
  <2>1. Old(p) # None /\ put[p] \in Put
    BY <1>5 DEF JobsFaithful, TypeOK, ServiceTypeOK
  <2>2. Old(p) \in PutReq \cup {None}
    BY <2>1, PutFields DEF Old
  <2>3. QED
    BY <1>4, <1>5, <2>1, <2>2
<1>6. ASSUME NEW q \in Path, files[q].chain # None, BlockDelete(files[q].chain)
      PROVE  links' \in [PutReq -> Seq(BlockId)] /\ blocks' \in [BlockId -> BlockRow]
  BY <1>4, <1>6 DEF TypeOK, RepositoryTypeOK, FileRow
<1>7. QED
  BY <1>1, <1>2, <1>3, <1>5, <1>6, TableSteps

-----------------------------------------------------------------------------
(* The other types.                                                        *)

LEMMA ObjectsType ==
    ASSUME TypeOK, PutShape, [Next]_vars
    PROVE  objects' \in [BlockId -> Content \cup {NoObject}]
<1> USE DEF TypeOK, StorageTypeOK
<1>1. CASE objects' = objects
  BY <1>1
<1>2. ASSUME NEW p \in PutReq, PutStore(p)
      PROVE  objects' \in [BlockId -> Content \cup {NoObject}]
  <2>1. put[p] \in Put /\ put[p].n < Len(put[p].body) /\ put[p].n \in Nat
    BY <1>2, PutFields DEF PutStore, PutShape, ServiceTypeOK
  <2>2. put[p].body \in Bodies
    BY <2>1, PutFields
  <2>3. put[p].n + 1 \in 1 .. Len(put[p].body)
    BY <2>1, <2>2, BodyShape
  <2>4. put[p].body[put[p].n + 1] \in Content
    BY <2>2, <2>3, BodyShape
  <2>5. QED
    BY <1>2, <2>4 DEF PutStore, Store
<1>3. ASSUME NEW b, Purge(b)
      PROVE  objects' \in [BlockId -> Content \cup {NoObject}]
  BY <1>3 DEF Purge
<1>4. QED
  BY <1>1, <1>2, <1>3, ObjectsChange DEF PurgeOwn, Sweep, DeletePurge

\* The ids in what block_delete returns are the rows it deleted.
LEMMA IdsOfDeleted ==
    ASSUME NEW c
    PROVE  Ids(Deleted(c)) = Freed(c)
<1>1. ASSUME NEW b \in Freed(c)
      PROVE  b \in Ids(Deleted(c))
  <2>1. b \in BlockId /\ LinksTo(c, b) # {}
    BY <1>1 DEF Freed
  <2>2. LastTurn(c, b) \in LinksTo(c, b)
    BY <2>1 DEF LastTurn
  <2>3. LastTurn(c, b) \in DOMAIN links[c] /\ links[c][LastTurn(c, b)] = b
    BY <2>2 DEF LinksTo
  <2>4. Deleted(c)[LastTurn(c, b)] = b /\ LastTurn(c, b) \in DOMAIN Deleted(c)
    BY <1>1, <2>3 DEF Deleted, FreesAt
  <2>5. b # None
    BY <2>1, NoneAssumption
  <2>6. QED
    BY <2>4, <2>5 DEF Ids
<1>2. ASSUME NEW b \in Ids(Deleted(c))
      PROVE  b \in Freed(c)
  <2>1. PICK k \in DOMAIN Deleted(c) : b = Deleted(c)[k] /\ b # None
    BY <1>2 DEF Ids
  <2>2. FreesAt(c, k) /\ b = links[c][k]
    BY <2>1 DEF Deleted
  <2>3. QED
    BY <2>2 DEF FreesAt
<1>3. QED
  BY <1>1, <1>2

\* The list is empty for a chain without links only.
LEMMA ListsEveryLink ==
    ASSUME TypeOK, NEW c \in PutReq
    PROVE  Deleted(c) = <<>> <=> links[c] = <<>>
<1>1. links[c] \in Seq(BlockId)
  BY DEF TypeOK, RepositoryTypeOK
<1>2. Deleted(c) \in Seq(BlockId \cup {None}) /\ Len(Deleted(c)) = Len(links[c])
  BY <1>1 DEF Deleted
<1>3. QED
  BY <1>1, <1>2

LEMMA FreedType ==
    ASSUME NEW c
    PROVE  Freed(c) \subseteq BlockId
  BY DEF Freed

LEMMA DeletesType ==
    ASSUME TypeOK, [Next]_vars
    PROVE  del' \in [DelReq -> Delete]
<1>0. del \in [DelReq -> Delete] /\ \A d \in DelReq : del[d] \in Delete
  BY DEF TypeOK, ServiceTypeOK
<1>a. ASSUME NEW d \in DelReq, NEW w \in Delete, del' = [del EXCEPT ![d] = w]
      PROVE  del' \in [DelReq -> Delete]
  BY <1>0, <1>a
<1>1. CASE del' = del
  BY <1>0, <1>1
<1>2. ASSUME NEW d \in DelReq, DeleteNothing(d)
      PROVE  del' \in [DelReq -> Delete]
  <2>0. del[d] \in Delete
    BY <1>0
  <2>1. [del[d] EXCEPT !.pc = "done", !.status = "NotFound"] \in Delete
    BY <2>0 DEF Delete
  <2>2. QED
    BY <1>2, <1>a, <2>1 DEF DeleteNothing, DeleteStatus
<1>b. \A q \in Path : files[q].chain \in PutReq \cup {None}
  BY DEF TypeOK, RepositoryTypeOK, FileRow
<1>3. ASSUME NEW d \in DelReq, DeleteFile(d)
      PROVE  del' \in [DelReq -> Delete]
  <2>1. PICK q \in Path : LET c == files[q].chain IN
            del' = [del EXCEPT ![d] =
                [pc |-> IF Freed(c) = {} THEN "done" ELSE "purge", chain |-> c,
                 status |-> DeleteStatus(Deleted(c)), left |-> Freed(c)]]
    BY <1>3, IdsOfDeleted DEF DeleteFile
  <2>2. DeleteStatus(Deleted(files[q].chain)) \in {"NoContent", "NotFound"}
    BY DEF DeleteStatus
  <2>3. QED
    BY <1>0, <1>b, <2>1, <2>2, FreedType DEF Delete
<1>4. ASSUME NEW d \in DelReq, DeleteUnanswered(d) \/ DeleteFails(d) \/ DeleteDeadlock(d)
      PROVE  del' \in [DelReq -> Delete]
  <2>1. PICK c \in PutReq \cup {None} :
            del' = [del EXCEPT ![d] =
                [@ EXCEPT !.pc = "done", !.chain = c, !.status = "InternalError"]]
    BY <1>4, <1>b DEF DeleteUnanswered, DeleteFails, DeleteDeadlock
  <2>2. del[d] \in Delete
    BY <1>0
  <2>3. [del[d] EXCEPT !.pc = "done", !.chain = c, !.status = "InternalError"] \in Delete
    BY <2>2 DEF Delete
  <2>4. QED
    BY <1>a, <2>1, <2>3
<1>6. ASSUME NEW d \in DelReq, DeletePurge(d)
      PROVE  del' \in [DelReq -> Delete]
  <2> DEFINE w(b) == [del[d] EXCEPT !.left = del[d].left \ {b},
                          !.pc = IF del[d].left \ {b} = {} THEN "done" ELSE "purge"]
  <2>1. PICK b \in del[d].left : del' = [del EXCEPT ![d] = w(b)]
    BY <1>6 DEF DeletePurge
  <2>2. del[d] \in Delete
    BY <1>0
  <2>3. w(b) \in Delete
    BY <2>2 DEF Delete
  <2>4. QED
    BY <1>a, <2>1, <2>3
<1>7. CASE BlockCrash
  <2>1. ASSUME NEW d \in DelReq
        PROVE  [del[d] EXCEPT !.pc = "done", !.left = {}] \in Delete
    <3>1. del[d] \in Delete
      BY <1>0
    <3>2. QED
      BY <3>1 DEF Delete
  <2>2. QED
    BY <1>0, <1>7, <2>1 DEF BlockCrash
<1>8. QED
  BY <1>1, <1>2, <1>3, <1>4, <1>6, <1>7, DeletesChange

LEMMA ReadersType ==
    ASSUME TypeOK, ReadersFaithful, [Next]_vars
    PROVE  get' \in [GetReq -> Get]
<1>0. get \in [GetReq -> Get]
  BY DEF TypeOK, ServiceTypeOK
<1>1. CASE get' = get
  BY <1>0, <1>1
<1>2. ASSUME NEW g \in GetReq, GetList(g)
      PROVE  get' \in [GetReq -> Get]
  <2>1. PICK q \in Path :
            get' = [get EXCEPT ![g] =
                [pc |-> IF FileSelect(q) = <<>> THEN "missing" ELSE "read",
                 path |-> q, chain |-> files[q].chain,
                 list |-> FileSelect(q), out |-> <<>>]]
    BY <1>2 DEF GetList
  <2>2. files[q].chain \in PutReq \cup {None}
    BY DEF TypeOK, RepositoryTypeOK, FileRow
  <2>3. FileSelect(q) \in Seq(BlockId)
    BY <2>2 DEF FileSelect, TypeOK, RepositoryTypeOK
  <2>4. QED
    BY <1>0, <2>1, <2>2, <2>3 DEF Get, GetPC
<1>3. ASSUME NEW g \in GetReq, GetBlock(g)
      PROVE  get' \in [GetReq -> Get]
  <2>1. get[g] \in Get /\ Len(get[g].out) < Len(get[g].list)
    BY <1>0, <1>3 DEF GetBlock, ReadersFaithful
  <2>2. get[g].list \in Seq(BlockId) /\ get[g].out \in Seq(Content)
    BY <2>1 DEF Get
  <2>3. NextRead(g) \in BlockId
    BY <2>1, <2>2 DEF NextRead
  <2>4. objects[NextRead(g)] \in Content
    BY <1>3, <2>3 DEF GetBlock, Stored, TypeOK, StorageTypeOK
  <2>5. Append(get[g].out, objects[NextRead(g)]) \in Seq(Content)
    BY <2>2, <2>4
  <2> DEFINE out == Append(get[g].out, objects[NextRead(g)])
             w == [get[g] EXCEPT !.out = out,
                      !.pc = IF Len(out) = Len(get[g].list) THEN "ok" ELSE "read"]
  <2>6. get' = [get EXCEPT ![g] = w]
    BY <1>3 DEF GetBlock
  <2>7. w \in Get
    BY <2>1, <2>5 DEF Get, GetPC
  <2>8. QED
    BY <1>0, <2>6, <2>7
<1>4. ASSUME NEW g \in GetReq, GetBroken(g)
      PROVE  get' \in [GetReq -> Get]
  BY <1>0, <1>4 DEF GetBroken, Get, GetPC
<1>5. CASE BlockCrash
  <2>1. ASSUME NEW g \in GetReq
        PROVE  [get[g] EXCEPT !.pc = "broken"] \in Get
    <3>1. get[g] \in Get
      BY <1>0
    <3>2. QED
      BY <3>1 DEF Get, GetPC
  <2>2. QED
    BY <1>0, <1>5, <2>1 DEF BlockCrash
<1>6. QED
  BY <1>1, <1>2, <1>3, <1>4, <1>5, ReadersChange

LEMMA MailType ==
    ASSUME TypeOK, [Next]_vars
    PROVE  mail' \subseteq PutReq
  BY MailChanges DEF TypeOK, ServiceTypeOK, PutMessage, FileQuery, Lose

LEMMA SimilarType ==
    ASSUME TypeOK, NEW p \in PutReq
    PROVE  Similar(p) \subseteq Row
  BY DEF Similar, BlockSelect, Row, TypeOK, RepositoryTypeOK, BlockRow

LEMMA AfterBlockType ==
    ASSUME TypeOK, JobsFaithful, NEW p \in PutReq, AtBlock(p)
    PROVE  /\ AfterBlock(p) \in Job
           /\ AfterBlock(p).pc \in {"lookup", "break", "done"}
           /\ AfterBlock(p).pc = "lookup" => AfterBlock(p).i \in 1 .. put[p].n
           /\ AfterBlock(p).pc = "break" => Old(p) # None
<1>1. put[p] \in Put /\ job[p].i \in 1 .. put[p].n
  BY DEF TypeOK, ServiceTypeOK, JobsFaithful
<1>2. put[p].n \in Nat /\ put[p].n <= MaxBlocks
  BY <1>1, PutFields
<1>3. CASE job[p].i < put[p].n
  <2>1. AfterBlock(p) = [pc |-> "lookup", i |-> job[p].i + 1, similar |-> {},
                         new |-> <<>>, left |-> {}]
    BY <1>3 DEF AfterBlock, JobAt
  <2>2. job[p].i + 1 \in 1 .. put[p].n /\ job[p].i + 1 \in 0 .. MaxBlocks
    BY <1>1, <1>2, <1>3, MaxBlocksAssumption
  <2>3. QED
    BY <2>1, <2>2 DEF Job, JobPC
<1>4. CASE ~(job[p].i < put[p].n)
  <2>1. AfterBlock(p) = [pc |-> IF Old(p) = None THEN "done" ELSE "break", i |-> 0,
                         similar |-> {}, new |-> <<>>, left |-> {}]
    BY <1>4 DEF AfterBlock, JobAt
  <2>2. QED
    BY <2>1, MaxBlocksAssumption DEF Job, JobPC
<1>5. QED
  BY <1>3, <1>4

LEMMA WithSimilarType ==
    ASSUME TypeOK, JobsFaithful, NEW p \in PutReq, AtBlock(p), NEW s \in SUBSET Row
    PROVE  /\ WithSimilar(p, s) \in Job
           /\ \/ WithSimilar(p, s) = AfterBlock(p)
              \/ /\ WithSimilar(p, s).pc = "compare"
                 /\ WithSimilar(p, s).i = job[p].i
<1>1. job[p] \in Job
  BY DEF TypeOK, ChainTypeOK
<1>2. [job[p] EXCEPT !.pc = "compare", !.similar = s, !.new = <<>>] \in Job
  BY <1>1 DEF Job, JobPC
<1>3. QED
  BY <1>1, <1>2, AfterBlockType DEF WithSimilar, Job

\* A handler changes only its own record; what each step makes of it.
LEMMA JobSteps ==
    ASSUME TypeOK, PutShape, JobsFaithful, NEW p \in PutReq,
           \/ FileQuery(p) \/ Lookup(p) \/ LookupError(p) \/ Compare(p) \/ Link(p)
           \/ LinkFails(p) \/ LinkUnanswered(p) \/ PurgeOwn(p) \/ Break(p)
           \/ BreakFails(p) \/ Sweep(p)
    PROVE  \E w \in Job :
              /\ job' = [job EXCEPT ![p] = w]
              /\ put' = put
              /\ w.pc \in {"lookup", "compare", "purge"} =>
                      put[p].pc = "done" /\ w.i \in 1 .. put[p].n
              /\ w.pc = "break" => put[p].pc = "done" /\ Old(p) # None
              /\ w.pc = "link" =>
                      /\ put[p].pc = "done" /\ w.i \in 1 .. put[p].n /\ w.i = job[p].i
                      /\ w.new \in BlockId
                      /\ Same(Own(p), w.new)
<1>0. /\ job[p] \in Job /\ put[p] \in Put
      /\ p \in mail \/ AtBlock(p) \/ job[p].pc = "break" => put[p].pc = "done"
      /\ AtBlock(p) => job[p].i \in 1 .. put[p].n
  BY DEF TypeOK, ChainTypeOK, ServiceTypeOK, JobsFaithful
<1> DEFINE Goal(w) == /\ job' = [job EXCEPT ![p] = w]
                      /\ put' = put
                      /\ w.pc \in {"lookup", "compare", "purge"} =>
                              put[p].pc = "done" /\ w.i \in 1 .. put[p].n
                      /\ w.pc = "break" => put[p].pc = "done" /\ Old(p) # None
                      /\ w.pc = "link" =>
                              /\ put[p].pc = "done"
                              /\ w.i \in 1 .. put[p].n /\ w.i = job[p].i
                              /\ w.new \in BlockId
                              /\ Same(Own(p), w.new)
<1>1. ASSUME NEW s \in SUBSET Row, AtBlock(p), put' = put,
             job' = [job EXCEPT ![p] = WithSimilar(p, s)]
      PROVE  WithSimilar(p, s) \in Job /\ Goal(WithSimilar(p, s))
  BY <1>0, <1>1, AfterBlockType, WithSimilarType
<1>2. ASSUME AtBlock(p), put' = put, job' = [job EXCEPT ![p] = AfterBlock(p)]
      PROVE  AfterBlock(p) \in Job /\ Goal(AfterBlock(p))
  BY <1>0, <1>2, AfterBlockType
<1>3. job[p].similar \subseteq Row
  BY <1>0 DEF Job
<1>4. CASE FileQuery(p)
  <2> DEFINE w == [pc |-> "lookup", i |-> 1, similar |-> {}, new |-> <<>>, left |-> {}]
  <2>a. w = JobAt("lookup", 1, {})
    BY DEF JobAt
  <2>1. job' = [job EXCEPT ![p] = w] /\ put' = put /\ p \in mail
    BY <1>4, <2>a DEF FileQuery
  <2>2. put[p].pc = "done" /\ put[p].body # <<>> /\ put[p].n = Len(put[p].body)
    BY <1>0, <2>1 DEF PutShape
  <2>3. put[p].n \in Nat \ {0}
    BY <1>0, <2>2, PutFields, BodyShape
  <2>4. w \in Job /\ w.pc = "lookup" /\ w.i = 1
    BY MaxBlocksAssumption DEF Job, JobPC
  <2>5. Goal(w)
    BY <2>1, <2>2, <2>3, <2>4
  <2>6. QED
    BY <2>4, <2>5
<1>5. CASE Lookup(p)
  <2>1. job[p].pc = "lookup" /\ put' = put
        /\ job' = [job EXCEPT ![p] = WithSimilar(p, Similar(p))]
    BY <1>5 DEF Lookup, serviceVars
  <2>2. QED
    BY <1>1, <2>1, SimilarType DEF AtBlock
<1>6. CASE LookupError(p)
  <2>1. job[p].pc = "lookup" /\ put' = put
        /\ job' = [job EXCEPT ![p] = AfterBlock(p)]
    BY <1>6 DEF LookupError, serviceVars
  <2>2. QED
    BY <1>2, <2>1 DEF AtBlock
<1>7. CASE Compare(p)
  <2>1. PICK r \in First(job[p].similar) :
          \/ /\ Same(Own(p), r.id)
             /\ job' = [job EXCEPT ![p] =
                     [@ EXCEPT !.pc = "link", !.new = r.id,
                               !.similar = job[p].similar \ {r}]]
          \/ job' = [job EXCEPT ![p] = WithSimilar(p, job[p].similar \ {r})]
    BY <1>7 DEF Compare
  <2>2. job[p].pc = "compare" /\ put' = put
    BY <1>7 DEF Compare, serviceVars
  <2>3. r \in Row /\ r.id \in BlockId
    BY <1>3 DEF First, Row
  <2>4. CASE job' = [job EXCEPT ![p] = WithSimilar(p, job[p].similar \ {r})]
    <3>1. job[p].similar \ {r} \in SUBSET Row
      BY <1>3
    <3>2. QED
      BY <1>1, <2>2, <2>4, <3>1 DEF AtBlock
  <2>5. CASE /\ Same(Own(p), r.id)
             /\ job' = [job EXCEPT ![p] =
                     [@ EXCEPT !.pc = "link", !.new = r.id,
                               !.similar = job[p].similar \ {r}]]
    <3> DEFINE w == [job[p] EXCEPT !.pc = "link", !.new = r.id,
                                   !.similar = job[p].similar \ {r}]
    <3>1. w \in Job
      BY <1>0, <2>3 DEF Job, JobPC
    <3>2. w.pc = "link" /\ w.new = r.id /\ w.i = job[p].i
      BY <1>0 DEF Job
    <3>3. Goal(w)
      BY <1>0, <2>2, <2>3, <2>5, <3>2 DEF AtBlock
    <3>4. QED
      BY <3>1, <3>3
  <2>6. QED
    BY <2>1, <2>4, <2>5
<1>8. CASE Link(p)
  <2> DEFINE w == [job[p] EXCEPT !.pc = "purge", !.new = <<>>, !.similar = {}]
  <2>1. job' = [job EXCEPT ![p] = w] /\ put' = put /\ job[p].pc = "link"
    BY <1>8 DEF Link, serviceVars
  <2>2. w \in Job /\ w.pc = "purge" /\ w.i = job[p].i
    BY <1>0 DEF Job, JobPC
  <2>3. Goal(w)
    BY <1>0, <2>1, <2>2 DEF AtBlock
  <2>4. QED
    BY <2>2, <2>3
<1>9. CASE LinkFails(p) \/ LinkUnanswered(p)
  <2>1. job[p].pc = "link" /\ put' = put
        /\ job' = [job EXCEPT ![p] = WithSimilar(p, job[p].similar)]
    BY <1>9 DEF LinkFails, LinkUnanswered, serviceVars
  <2>2. QED
    BY <1>1, <1>3, <2>1 DEF AtBlock
<1>10. CASE PurgeOwn(p)
  <2>1. job[p].pc = "purge" /\ put' = put
        /\ job' = [job EXCEPT ![p] = AfterBlock(p)]
    BY <1>10 DEF PurgeOwn, serviceVars
  <2>2. QED
    BY <1>2, <2>1 DEF AtBlock
<1>11. ASSUME NEW w \in Job, w.pc \in {"done", "sweep", "failed"}, put' = put,
              job' = [job EXCEPT ![p] = w]
       PROVE  Goal(w)
  BY <1>11
<1>12. CASE Break(p)
  <2>1. PICK pc \in {"done", "sweep", "failed"}, left \in SUBSET BlockId :
          job' = [job EXCEPT ![p] = JobAt(pc, 0, left)]
    BY <1>12, IdsOfDeleted, FreedType DEF Break
  <2> DEFINE w == [pc |-> pc, i |-> 0, similar |-> {}, new |-> <<>>, left |-> left]
  <2>a. w = JobAt(pc, 0, left)
    BY DEF JobAt
  <2>b. job' = [job EXCEPT ![p] = w]
    BY <2>1, <2>a
  <2>2. w \in Job /\ w.pc \in {"done", "sweep", "failed"}
    BY MaxBlocksAssumption DEF Job, JobPC
  <2>3. put' = put
    BY <1>12 DEF Break, serviceVars
  <2>4. QED
    BY <1>11, <2>b, <2>2, <2>3
<1>13. CASE BreakFails(p)
  <2> DEFINE w == JobAt("failed", 0, {})
  <2>1. job' = [job EXCEPT ![p] = w] /\ put' = put
    BY <1>13 DEF BreakFails, serviceVars
  <2>2. w \in Job /\ w.pc = "failed"
    BY MaxBlocksAssumption DEF JobAt, Job, JobPC
  <2>3. QED
    BY <1>11, <2>1, <2>2
<1>14. CASE Sweep(p)
  <2> DEFINE w(l) == [job[p] EXCEPT !.left = l,
                                    !.pc = IF l = {} THEN "done" ELSE "sweep"]
  <2>1. PICK b \in job[p].left : job' = [job EXCEPT ![p] = w(job[p].left \ {b})]
    BY <1>14 DEF Sweep
  <2>2. /\ w(job[p].left \ {b}) \in Job
        /\ w(job[p].left \ {b}).pc \in {"done", "sweep"}
    BY <1>0 DEF Job, JobPC
  <2>3. put' = put
    BY <1>14 DEF Sweep, serviceVars
  <2>4. QED
    BY <1>11, <2>1, <2>2, <2>3
<1>15. QED
  BY <1>4, <1>5, <1>6, <1>7, <1>8, <1>9, <1>10, <1>12, <1>13, <1>14

LEMMA JobType ==
    ASSUME TypeOK, PutShape, JobsFaithful, [Next]_vars
    PROVE  job' \in [PutReq -> Job]
<1>0. job \in [PutReq -> Job]
  BY DEF TypeOK, ChainTypeOK
<1>1. ASSUME NEW p \in PutReq, NEW w \in Job, job' = [job EXCEPT ![p] = w]
      PROVE  job' \in [PutReq -> Job]
  BY <1>0, <1>1
<1>2. CASE ChainCrash
  <2>1. JobAt("failed", 0, {}) \in Job
    BY MaxBlocksAssumption DEF JobAt, Job, JobPC
  <2>2. QED
    BY <1>0, <1>2, <2>1 DEF ChainCrash
<1>3. QED
  BY <1>0, <1>1, <1>2, JobsChange, JobSteps

LEMMA TypeOKStep ==
    ASSUME TypeOK, PutShape, JobsFaithful, ReadersFaithful, [Next]_vars
    PROVE  TypeOK'
<1>1. now' \in Nat
  BY NowChanges, MaxBlocksAssumption DEF DrawRanks, TypeOK, RepositoryTypeOK
<1>2. RepositoryTypeOK'
  BY <1>1, FilesType, TablesType DEF RepositoryTypeOK
<1>3. StorageTypeOK(BlockId)'
  BY ObjectsType DEF StorageTypeOK
<1>4. ServiceTypeOK'
  BY PutType, DeletesType, ReadersType, MailType DEF ServiceTypeOK
<1>5. ChainTypeOK'
  BY JobType DEF ChainTypeOK
<1>6. QED
  BY <1>2, <1>3, <1>4, <1>5 DEF TypeOK

-----------------------------------------------------------------------------
(* The objects and the chains keep what was uploaded.                      *)

LEMMA ObjectsFaithfulStep ==
    ASSUME TypeOK, PutShape, ObjectsFaithful, [Next]_vars
    PROVE  ObjectsFaithful'
<1> SUFFICES ASSUME NEW b \in BlockId, Stored(b)'
             PROVE  Uploaded(b)' /\ objects'[b] = Origin(b)'
  BY DEF ObjectsFaithful
<1>1. CASE objects'[b] = objects[b]
  <2>1. Stored(b) /\ Uploaded(b) /\ objects[b] = Origin(b)
    BY <1>1 DEF ObjectsFaithful, Stored
  <2>2. QED
    BY <1>1, <2>1, UploadSteady
<1>2. ASSUME NEW p \in PutReq, PutStore(p)
      PROVE  Uploaded(b)' /\ objects'[b] = Origin(b)'
  <2> DEFINE k == put[p].n + 1
  <2>0. put[p] \in Put /\ put[p].n \in Nat
    BY PutFields DEF TypeOK, ServiceTypeOK
  <2>1. CASE b = <<p, k>>
    <3>1. put'[p].n = k /\ put'[p].body = put[p].body
      BY <1>2, <2>0 DEF PutStore, Put, TypeOK, ServiceTypeOK
    <3>2. objects'[b] = put[p].body[k]
      BY <1>2, <2>1 DEF PutStore, Store, TypeOK, StorageTypeOK
    <3>3. b[1] = p /\ b[2] = k
      BY <2>1
    <3>4. QED
      BY <2>0, <3>1, <3>2, <3>3 DEF Uploaded, Origin
  <2>2. CASE b # <<p, k>>
    BY <1>1, <1>2, <2>2 DEF PutStore, Store, TypeOK, StorageTypeOK
  <2>3. QED
    BY <2>1, <2>2
<1>3. ASSUME NEW a, Purge(a)
      PROVE  objects'[b] = objects[b]
  BY <1>3 DEF Purge, Stored, TypeOK, StorageTypeOK
<1>4. QED
  BY <1>1, <1>2, <1>3, ObjectsChange DEF PurgeOwn, Sweep, DeletePurge

LEMMA ChainsFaithfulStep ==
    ASSUME TypeOK, PutShape, ChainsFaithful, JobsFaithful, [Next]_vars
    PROVE  ChainsFaithful'
<1> DEFINE Spelt(c) == /\ Committed(c)
                       /\ put[c].body # <<>>
                       /\ DOMAIN links[c] = 1 .. Len(put[c].body)
                       /\ \A k \in DOMAIN links[c] :
                              /\ Uploaded(links[c][k])
                              /\ Origin(links[c][k]) = put[c].body[k]
<1>0. \A c \in PutReq : links[c] \in Seq(BlockId)
  BY DEF TypeOK, RepositoryTypeOK
<1>a. \A c \in PutReq : links[c] # <<>> => Spelt(c)
  BY DEF ChainsFaithful
<1>1. ASSUME NEW c \in PutReq, links'[c] = links[c], links[c] # <<>>
      PROVE  Spelt(c)'
  <2>1. Spelt(c)
    BY <1>1, <1>a
  <2>2. put[c].pc # "idle"
    BY <2>1 DEF Committed
  <2>3. Committed(c)' /\ put'[c].body = put[c].body
    BY <2>1, <2>2, PutSteady
  <2>4. ASSUME NEW k \in DOMAIN links[c]
        PROVE  Uploaded(links[c][k])' /\ Origin(links[c][k])' = Origin(links[c][k])
    <3>1. links[c][k] \in BlockId
      BY <1>0
    <3>2. QED
      BY <1>1, <2>1, <3>1, UploadSteady
  <2>5. QED
    BY <1>1, <2>1, <2>3, <2>4 DEF Uploaded, Origin
<1>2. ASSUME NEW p \in PutReq, NEW q \in Path, put[p].pc = "tx", Committed(p)',
             BlockInsert(q, p, Hashes(p), put[p].rank),
             put'[p].body = put[p].body, put'[p].n = put[p].n
      PROVE  Spelt(p)'
  <2>1. put[p] \in Put /\ put[p].n = Len(put[p].body) /\ put[p].body # <<>>
    BY <1>2 DEF TypeOK, ServiceTypeOK, PutShape
  <2>2. put[p].n \in Nat
    BY <2>1, PutFields
  <2>3. links'[p] = [k \in 1 .. put[p].n |-> <<p, k>>]
    BY <1>2, <2>2 DEF BlockInsert, Hashes, TypeOK, RepositoryTypeOK
  <2>4. \A k \in 1 .. put[p].n : Uploaded(<<p, k>>)' /\ Origin(<<p, k>>)' = put'[p].body[k]
    BY <1>2, <2>2 DEF Uploaded, Origin
  <2>5. QED
    BY <1>2, <2>1, <2>2, <2>3, <2>4
<1>3. ASSUME NEW p \in PutReq, job[p].pc = "link", put' = put,
             BlockUpdate(p, Own(p), job[p].new), links[p] # <<>>
      PROVE  Spelt(p)'
  <2>1. Uploaded(job[p].new) /\ Origin(job[p].new) = Origin(Own(p))
    BY <1>3 DEF JobsFaithful
  <2>2. links'[p] = [k \in DOMAIN links[p] |->
                        IF links[p][k] = Own(p) THEN job[p].new ELSE links[p][k]]
    BY <1>3 DEF BlockUpdate, TypeOK, RepositoryTypeOK
  <2>3. Spelt(p)
    BY <1>3, <1>a
  <2>4. Committed(p)' /\ put'[p].body # <<>> /\ DOMAIN links'[p] = 1 .. Len(put'[p].body)
    BY <1>3, <2>2, <2>3 DEF Committed
  <2>5. ASSUME NEW k \in DOMAIN links'[p]
        PROVE  Uploaded(links[p][k])' /\ Origin(links'[p][k]) = put[p].body[k]
               /\ Uploaded(links'[p][k])
    BY <1>3, <2>1, <2>2, <2>3, <2>5 DEF Uploaded
  <2>6. QED
    BY <1>3, <2>4, <2>5 DEF Uploaded, Origin
<1>4. ASSUME NEW c \in PutReq, NEW p, BlockDelete(p)
      PROVE  links'[c] = links[c] \/ links'[c] = <<>>
  BY <1>4 DEF BlockDelete, TypeOK, RepositoryTypeOK
<1> SUFFICES ASSUME NEW c \in PutReq, links'[c] # <<>>
             PROVE  Spelt(c)'
  BY DEF ChainsFaithful
<1>5. CASE UNCHANGED <<links, blocks>>
  BY <1>1, <1>5
<1>6. ASSUME NEW p \in PutReq, NEW q \in Path, put[p].pc = "tx", Committed(p)',
             BlockInsert(q, p, Hashes(p), put[p].rank),
             put'[p].body = put[p].body, put'[p].n = put[p].n
      PROVE  Spelt(c)'
  <2>1. CASE c = p
    BY <1>2, <1>6, <2>1
  <2>2. CASE c # p
    BY <1>1, <1>6, <2>2 DEF BlockInsert, TypeOK, RepositoryTypeOK
  <2>3. QED
    BY <2>1, <2>2
<1>7. ASSUME NEW p \in PutReq, job[p].pc = "link", put' = put,
             BlockUpdate(p, Own(p), job[p].new)
      PROVE  Spelt(c)'
  <2>1. CASE c = p
    <3>1. links[p] # <<>>
      BY <1>0, <1>7, <2>1 DEF BlockUpdate, TypeOK, RepositoryTypeOK
    <3>2. QED
      BY <1>3, <1>7, <2>1, <3>1
  <2>2. CASE c # p
    BY <1>1, <1>7, <2>2 DEF BlockUpdate, TypeOK, RepositoryTypeOK
  <2>3. QED
    BY <2>1, <2>2
<1>8. ASSUME NEW p, BlockDelete(p)
      PROVE  Spelt(c)'
  BY <1>1, <1>4, <1>8
<1>9. QED
  BY <1>5, <1>6, <1>7, <1>8, TableSteps DEF serviceVars

LEMMA CurrentLinkedStep ==
    ASSUME TypeOK, PutShape, CurrentLinked, JobsFaithful, [Next]_vars
    PROVE  CurrentLinked'
<1> SUFFICES ASSUME NEW q \in Path, files'[q].chain # None
             PROVE  links'[files'[q].chain] # <<>>
  BY DEF CurrentLinked
<1>0. /\ \A c \in PutReq : links[c] \in Seq(BlockId)
      /\ \A r \in Path : files[r] \in FileRow /\ files[r].chain \in PutReq \cup {None}
      /\ links \in [PutReq -> Seq(BlockId)] /\ files \in [Path -> FileRow]
  BY DEF TypeOK, RepositoryTypeOK, FileRow
<1>a. files[q].chain # None => files[q].chain \in PutReq /\ links[files[q].chain] # <<>>
  BY <1>0 DEF CurrentLinked
<1>1. ASSUME NEW p \in PutReq, NEW r \in Path, put[p].pc = "tx",
             BlockInsert(r, p, Hashes(p), put[p].rank)
      PROVE  links'[files'[q].chain] # <<>>
  <2>1. put[p] \in Put /\ put[p].n = Len(put[p].body) /\ put[p].body # <<>>
    BY <1>1 DEF TypeOK, ServiceTypeOK, PutShape
  <2>2. put[p].n \in Nat \ {0} /\ put[p].body \in Bodies
    BY <2>1, PutFields, BodyShape
  <2>a. Len(Hashes(p)) = put[p].n
    BY <2>2 DEF Hashes
  <2>3. links' = [links EXCEPT ![p] = [k \in 1 .. put[p].n |-> <<p, k>>]]
    BY <1>1, <2>a DEF BlockInsert
  <2>4. links'[p] # <<>>
    <3>1. DOMAIN links'[p] = 1 .. put[p].n
      BY <1>0, <2>3
    <3>2. DOMAIN <<>> = {}
      OBVIOUS
    <3>3. QED
      BY <2>2, <3>1, <3>2
  <2>5. files' = [files EXCEPT ![r] = [@ EXCEPT !.chain = p]]
    BY <1>1 DEF BlockInsert
  <2>6. CASE q = r
    BY <1>0, <2>4, <2>5, <2>6 DEF FileRow
  <2>7. CASE q # r
    BY <1>0, <1>a, <2>3, <2>4, <2>5, <2>7
  <2>8. QED
    BY <2>6, <2>7
<1>2. ASSUME NEW p \in PutReq, NEW o, NEW n, BlockUpdate(p, o, n), files' = files
      PROVE  links'[files'[q].chain] # <<>>
  <2>1. links' = [links EXCEPT ![p] =
            [k \in DOMAIN links[p] |-> IF links[p][k] = o THEN n ELSE links[p][k]]]
    BY <1>2 DEF BlockUpdate
  <2>2. links[p] # <<>> => links'[p] # <<>>
    BY <1>0, <2>1
  <2>3. QED
    BY <1>0, <1>2, <1>a, <2>1, <2>2
<1>3. ASSUME NEW c, BlockDelete(c), files[q].chain # c, files'[q].chain = files[q].chain
      PROVE  links'[files'[q].chain] # <<>>
  BY <1>0, <1>3, <1>a DEF BlockDelete
<1>4. CASE UNCHANGED <<links, blocks>>
  <2>1. CASE files'[q].chain = files[q].chain
    BY <1>4, <1>a, <2>1
  <2>2. ASSUME NEW p \in PutReq, PutFile(p)
        PROVE  files'[q].chain = files[q].chain
    BY <1>0, <2>2 DEF PutFile, FileInsert, FileRow
  <2>3. ASSUME NEW p \in PutReq, PutCommit(p)
        PROVE  links'[files'[q].chain] # <<>>
    BY <1>1, <2>3 DEF PutCommit, FilesWithId
  <2>4. ASSUME NEW d \in DelReq, DeleteNothing(d) \/ DeleteFile(d) \/ DeleteUnanswered(d)
        PROVE  files'[q].chain = files[q].chain
    <3>1. PICK r \in Path : FileRemove(r)
      BY <2>4 DEF DeleteNothing, DeleteFile, DeleteUnanswered
    <3>2. QED
      BY <1>0, <3>1 DEF FileRemove
  <2>5. QED
    BY <2>1, <2>2, <2>3, <2>4, FilesChange
<1>5. ASSUME NEW p \in PutReq, CanDelete(Old(p), {}), BlockDelete(Old(p)), files' = files
      PROVE  links'[files'[q].chain] # <<>>
  BY <1>3, <1>5 DEF CanDelete
<1>6. ASSUME NEW r \in Path, CanDelete(files[r].chain, {r}), FileRemove(r),
             BlockDelete(files[r].chain)
      PROVE  links'[files'[q].chain] # <<>>
  <2>1. q # r /\ files'[q].chain = files[q].chain
    BY <1>0, <1>6 DEF FileRemove
  <2>2. QED
    BY <1>3, <1>6, <2>1 DEF CanDelete
<1>7. QED
  BY <1>1, <1>2, <1>4, <1>5, <1>6, TableSteps

-----------------------------------------------------------------------------
(* The handlers and the readers.                                           *)

LEMMA JobsFaithfulStep ==
    ASSUME TypeOK, PutShape, ObjectsFaithful, JobsFaithful, [Next]_vars
    PROVE  JobsFaithful'
<1> DEFINE Good(p) == /\ p \in mail \/ AtBlock(p) \/ job[p].pc = "break" => put[p].pc = "done"
                      /\ AtBlock(p) => job[p].i \in 1 .. put[p].n
                      /\ job[p].pc = "break" => Old(p) # None
                      /\ job[p].pc = "link" =>
                              /\ job[p].new \in BlockId
                              /\ Uploaded(job[p].new)
                              /\ Origin(job[p].new) = Origin(Own(p))
<1>0. \A p \in PutReq : Good(p) /\ job[p] \in Job /\ put[p] \in Put
  BY DEF JobsFaithful, TypeOK, ChainTypeOK, ServiceTypeOK
<1>a. ASSUME NEW p \in PutReq, AtBlock(p)
      PROVE  Own(p) \in BlockId /\ Uploaded(Own(p))
  <2>1. job[p].i \in 1 .. put[p].n /\ put[p].n \in Nat /\ put[p].n <= MaxBlocks
    BY <1>0, <1>a, PutFields
  <2>2. QED
    BY <2>1, MaxBlocksAssumption DEF Own, BlockId, Uploaded
<1>1. ASSUME NEW p \in PutReq, job'[p] = job[p], p \in mail' => p \in mail \/ put'[p].pc = "done"
      PROVE  Good(p)'
  <2>1. CASE put[p].pc # "done"
    BY <1>0, <1>1, <2>1 DEF AtBlock
  <2>2. CASE put[p].pc = "done"
    <3>1. put'[p] = put[p]
      BY <2>2, PutSteady
    <3>2. job[p].pc = "link" => /\ Uploaded(job[p].new)'
                                /\ Origin(job[p].new)' = Origin(job[p].new)
      BY <1>0, <1>1, UploadSteady DEF Uploaded, Origin
    <3>3. job[p].pc = "link" => Origin(Own(p))' = Origin(Own(p))
      BY <1>1, <3>1 DEF Origin, Own
    <3>4. QED
      BY <1>0, <1>1, <2>2, <3>1, <3>2, <3>3 DEF AtBlock, Old
  <2>3. QED
    BY <2>1, <2>2
<1>2. ASSUME NEW p \in PutReq, mail' \subseteq mail,
             \/ FileQuery(p) \/ Lookup(p) \/ LookupError(p) \/ Compare(p) \/ Link(p)
             \/ LinkFails(p) \/ LinkUnanswered(p) \/ PurgeOwn(p) \/ Break(p)
             \/ BreakFails(p) \/ Sweep(p)
      PROVE  JobsFaithful'
  <2>1. PICK w \in Job :
              /\ job' = [job EXCEPT ![p] = w]
              /\ put' = put
              /\ w.pc \in {"lookup", "compare", "purge"} =>
                      put[p].pc = "done" /\ w.i \in 1 .. put[p].n
              /\ w.pc = "break" => put[p].pc = "done" /\ Old(p) # None
              /\ w.pc = "link" =>
                      /\ put[p].pc = "done" /\ w.i \in 1 .. put[p].n /\ w.i = job[p].i
                      /\ w.new \in BlockId
                      /\ Same(Own(p), w.new)
    BY <1>2, JobSteps
  <2>2. job'[p] = w /\ \A r \in PutReq \ {p} : job'[r] = job[r]
    BY <2>1 DEF TypeOK, ChainTypeOK
  <2>3. p \in mail' => put'[p].pc = "done"
    BY <1>0, <1>2, <2>1
  <2>4. ASSUME w.pc = "link"
        PROVE  Uploaded(w.new)' /\ Origin(w.new)' = Origin(Own(p))'
    <3>1. Own(p)' = Own(p) /\ Own(p) \in BlockId
      <4>1. w.i = job[p].i /\ w.i \in 1 .. put[p].n /\ put[p].n \in Nat
            /\ put[p].n <= MaxBlocks
        BY <1>0, <2>1, <2>4, PutFields
      <4>2. QED
        BY <2>2, <4>1, MaxBlocksAssumption DEF Own, BlockId
    <3>2. /\ Stored(Own(p)) /\ Stored(w.new) /\ objects[Own(p)] = objects[w.new]
          /\ w.new \in BlockId
      BY <2>1, <2>4 DEF Same
    <3>3. /\ Uploaded(w.new) /\ objects[w.new] = Origin(w.new)
          /\ objects[Own(p)] = Origin(Own(p))
      BY <3>1, <3>2 DEF ObjectsFaithful
    <3>4. QED
      BY <2>1, <3>1, <3>2, <3>3 DEF Uploaded, Origin
  <2>5. Good(p)'
    BY <2>1, <2>2, <2>3, <2>4 DEF AtBlock, Old
  <2>6. QED
    BY <1>1, <1>2, <2>2, <2>5 DEF JobsFaithful
<1>3. CASE job' = job
  <2>1. \A p \in PutReq : p \in mail' => p \in mail \/ put'[p].pc = "done"
    <3>1. ASSUME NEW p \in PutReq, PutMessage(p)
          PROVE  put'[p].pc = "done" /\ mail' = mail \cup {p}
      BY <1>0, <3>1 DEF PutMessage, TypeOK, ServiceTypeOK, Put
    <3>2. ASSUME NEW p \in PutReq, FileQuery(p) \/ Lose(p)
          PROVE  mail' \subseteq mail
      BY <3>2 DEF FileQuery, Lose
    <3>3. QED
      BY <3>1, <3>2, MailChanges
  <2>2. QED
    BY <1>1, <1>3, <2>1 DEF JobsFaithful
<1>4. CASE ChainCrash
  <2>1. mail' = mail /\ put' = put
    BY <1>4 DEF ChainCrash, serviceVars
  <2>2. ASSUME NEW p \in PutReq
        PROVE  Good(p)'
    <3>1. job'[p] = JobAt("failed", 0, {}) \/ job'[p] = job[p]
      BY <1>4 DEF ChainCrash
    <3>2. CASE job'[p] = JobAt("failed", 0, {})
      BY <1>0, <2>1, <3>2 DEF JobAt, AtBlock
    <3>3. QED
      BY <1>1, <2>1, <3>1, <3>2
  <2>3. QED
    BY <2>2 DEF JobsFaithful
<1>5. ASSUME NEW p \in PutReq,
             \/ FileQuery(p) \/ Lookup(p) \/ LookupError(p) \/ Compare(p) \/ Link(p)
             \/ LinkFails(p) \/ LinkUnanswered(p) \/ PurgeOwn(p) \/ Break(p)
             \/ BreakFails(p) \/ Sweep(p)
      PROVE  mail' \subseteq mail
  BY <1>5 DEF FileQuery, Lookup, LookupError, Compare, Link, LinkFails,
              LinkUnanswered, PurgeOwn, Break, BreakFails, Sweep, serviceVars
<1>6. QED
  BY <1>2, <1>3, <1>4, <1>5, JobsChange

LEMMA ReadersFaithfulStep ==
    ASSUME TypeOK, PutShape, ObjectsFaithful, ChainsFaithful, ReadersFaithful, [Next]_vars
    PROVE  ReadersFaithful'
<1> DEFINE Good(g) == /\ \A k \in DOMAIN get[g].list : Uploaded(get[g].list[k])
                      /\ Len(get[g].out) <= Len(get[g].list)
                      /\ \A k \in 1 .. Len(get[g].out) :
                             get[g].out[k] = Origin(get[g].list[k])
                      /\ get[g].pc = "idle" => get[g].list = <<>>
                      /\ get[g].pc = "missing" => get[g].list = <<>>
                      /\ get[g].pc = "read" => Len(get[g].out) < Len(get[g].list)
                      /\ get[g].pc = "ok" => Len(get[g].out) = Len(get[g].list)
<1>0. ASSUME NEW g \in GetReq
      PROVE  /\ Good(g) /\ get[g] \in Get
             /\ get[g].list \in Seq(BlockId) /\ get[g].out \in Seq(Content)
  BY DEF ReadersFaithful, TypeOK, ServiceTypeOK, Get
<1>1. ASSUME NEW g \in GetReq, get'[g].list = get[g].list, get'[g].out = get[g].out,
             get'[g].pc = get[g].pc \/ get'[g].pc = "broken"
      PROVE  Good(g)'
  <2>1. \A k \in DOMAIN get[g].list :
            Uploaded(get[g].list[k])' /\ Origin(get[g].list[k])' = Origin(get[g].list[k])
    <3>1. ASSUME NEW k \in DOMAIN get[g].list
          PROVE  Uploaded(get[g].list[k])' /\ Origin(get[g].list[k])' = Origin(get[g].list[k])
      <4>1. get[g].list[k] \in BlockId /\ Uploaded(get[g].list[k])
        BY <1>0
      <4>2. QED
        BY <1>1, <4>1, UploadSteady DEF Uploaded, Origin
    <3>2. QED
      BY <3>1
  <2>2. QED
    BY <1>0, <1>1, <2>1 DEF Uploaded, Origin
<1>2. ASSUME NEW g \in GetReq, GetList(g)
      PROVE  Good(g)'
  <2>1. PICK q \in Path :
            get' = [get EXCEPT ![g] =
                [pc |-> IF FileSelect(q) = <<>> THEN "missing" ELSE "read",
                 path |-> q, chain |-> files[q].chain,
                 list |-> FileSelect(q), out |-> <<>>]]
    BY <1>2 DEF GetList
  <2>2. get'[g] = [pc |-> IF FileSelect(q) = <<>> THEN "missing" ELSE "read",
                   path |-> q, chain |-> files[q].chain,
                   list |-> FileSelect(q), out |-> <<>>]
    BY <2>1 DEF TypeOK, ServiceTypeOK
  <2>3. files[q].chain \in PutReq \cup {None}
    BY DEF TypeOK, RepositoryTypeOK, FileRow
  <2>4. /\ FileSelect(q) \in Seq(BlockId)
        /\ \A k \in DOMAIN FileSelect(q) : Uploaded(FileSelect(q)[k])
    BY <2>3 DEF FileSelect, ChainsFaithful, TypeOK, RepositoryTypeOK
  <2>5. put' = put
    BY <1>2 DEF GetList
  <2>6. FileSelect(q) # <<>> => Len(FileSelect(q)) > 0
    BY <2>4
  <2>7. QED
    BY <2>2, <2>4, <2>5, <2>6 DEF Uploaded
<1>3. ASSUME NEW g \in GetReq, GetBlock(g)
      PROVE  Good(g)'
  <2> DEFINE out == Append(get[g].out, objects[NextRead(g)])
  <2>1. /\ get'[g] = [get[g] EXCEPT !.out = out,
                          !.pc = IF Len(out) = Len(get[g].list) THEN "ok" ELSE "read"]
        /\ put' = put
        /\ Stored(NextRead(g))
        /\ get[g].pc = "read"
    BY <1>3 DEF GetBlock, TypeOK, ServiceTypeOK
  <2>2. /\ get'[g].out = out /\ get'[g].list = get[g].list
        /\ get'[g].pc = IF Len(out) = Len(get[g].list) THEN "ok" ELSE "read"
    BY <1>0, <2>1 DEF Get
  <2>3. Len(get[g].out) < Len(get[g].list)
    BY <1>0, <2>1
  <2>4. NextRead(g) \in BlockId
    BY <1>0, <2>3 DEF NextRead
  <2>5. objects[NextRead(g)] = Origin(NextRead(g)) /\ objects[NextRead(g)] \in Content
    BY <2>1, <2>4 DEF ObjectsFaithful, Stored, TypeOK, StorageTypeOK
  <2>6. /\ Len(out) = Len(get[g].out) + 1
        /\ \A k \in 1 .. Len(out) : out[k] = Origin(get[g].list[k])
    BY <1>0, <2>5 DEF NextRead
  <2>7. (\A k \in DOMAIN get[g].list : Uploaded(get[g].list[k]))'
    <3>1. \A k \in DOMAIN get[g].list : Uploaded(get[g].list[k])
      BY <1>0
    <3>2. QED
      BY <2>1, <2>2, <3>1 DEF Uploaded
  <2>8. (\A k \in 1 .. Len(get[g].out) : get[g].out[k] = Origin(get[g].list[k]))'
    BY <2>1, <2>2, <2>6 DEF Origin
  <2>9. Len(out) \in Nat /\ Len(get[g].list) \in Nat /\ Len(out) <= Len(get[g].list)
    BY <1>0, <2>3, <2>5, <2>6
  <2>10. QED
    BY <2>2, <2>7, <2>8, <2>9
<1>4. ASSUME NEW g \in GetReq, GetBroken(g)
      PROVE  Good(g)'
  <2>1. get'[g].pc = "broken" /\ get'[g].list = get[g].list /\ get'[g].out = get[g].out
    BY <1>0, <1>4 DEF GetBroken, TypeOK, ServiceTypeOK, Get
  <2>2. QED
    BY <1>1, <2>1
<1>5. CASE BlockCrash
  <2>1. ASSUME NEW g \in GetReq
        PROVE  /\ get'[g].list = get[g].list /\ get'[g].out = get[g].out
               /\ get'[g].pc = get[g].pc \/ get'[g].pc = "broken"
    BY <1>0, <1>5 DEF BlockCrash, Get
  <2>2. QED
    BY <1>1, <2>1 DEF ReadersFaithful
<1>6. ASSUME NEW g \in GetReq, GetList(g) \/ GetBlock(g) \/ GetBroken(g), NEW h \in GetReq, h # g
      PROVE  get'[h] = get[h]
  BY <1>6 DEF GetList, GetBlock, GetBroken, TypeOK, ServiceTypeOK
<1>7. QED
  BY <1>1, <1>2, <1>3, <1>4, <1>5, <1>6, ReadersChange DEF ReadersFaithful

-----------------------------------------------------------------------------
(* The rows of files and the PUTs that named them.                         *)

\* Once begun, a PUT keeps its path and its row id.
LEMMA PathSteady ==
    ASSUME TypeOK, [Next]_vars, NEW p \in PutReq, put[p].pc # "idle"
    PROVE  /\ put'[p].path = put[p].path /\ put'[p].fid = put[p].fid
           /\ put'[p].pc # "idle"
           /\ put'[p].pc \in {"store", "update", "tx"} => put[p].pc \in {"store", "update", "tx"}
<1>0. put \in [PutReq -> Put]
  BY DEF TypeOK, ServiceTypeOK
<1>1. CASE put' = put
  BY <1>1
<1>2. ASSUME NEW r \in PutReq, PutFile(r)
      PROVE  put'[p] = put[p]
  BY <1>2 DEF PutFile
<1>4. CASE \E r \in PutReq : PutStore(r)
  BY <1>0, <1>4 DEF PutStore, Put
<1>5. CASE \E r \in PutReq : PutBegin(r)
  BY <1>0, <1>5 DEF PutBegin, Put
<1>6. ASSUME NEW r \in PutReq, PutNotFound(r) \/ PutError(r)
      PROVE  /\ put'[p].path = put[p].path /\ put'[p].fid = put[p].fid
             /\ put'[p].pc \in {put[p].pc, "failed"}
  <2>1. put' = [put EXCEPT ![r] = [@ EXCEPT !.pc = "failed", !.rank = NoRank]]
    BY <1>6 DEF PutNotFound, PutError
  <2>2. QED
    BY <1>0, <2>1 DEF Put
<1>7. ASSUME NEW r \in PutReq, PutCommit(r)
      PROVE  /\ put'[p].path = put[p].path /\ put'[p].fid = put[p].fid
             /\ put'[p].pc \in {put[p].pc, "message", "failed"}
  <2>1. PICK q \in Path, pc \in {"message", "failed"} :
            put' = [put EXCEPT ![r] = [@ EXCEPT !.pc = pc, !.rank = NoRank,
                                                !.old = files[q].chain]]
    BY <1>7 DEF PutCommit, FilesWithId
  <2>2. QED
    BY <1>0, <2>1 DEF Put
<1>8. CASE \E r \in PutReq : PutMessage(r)
  BY <1>0, <1>8 DEF PutMessage, Put
<1>9. CASE BlockCrash
  <2>1. put'[p] = IF put[p].pc \in {"store", "update", "tx", "message"}
                  THEN [put[p] EXCEPT !.pc = "failed", !.rank = NoRank] ELSE put[p]
    BY <1>9 DEF BlockCrash
  <2>2. QED
    BY <1>0, <2>1 DEF Put
<1>10. QED
  BY <1>1, <1>2, <1>4, <1>5, <1>6, <1>7, <1>8, <1>9, PutChanges

LEMMA RowsNamedStep ==
    ASSUME TypeOK, RowsNamed, [Next]_vars
    PROVE  RowsNamed'
<1>0. /\ put \in [PutReq -> Put] /\ files \in [Path -> FileRow]
      /\ \A q \in Path : files[q].id \in PutReq \cup {None}
      /\ \A p \in PutReq : put[p].fid \in PutReq \cup {None}
  BY DEF TypeOK, ServiceTypeOK, RepositoryTypeOK, FileRow, Put
<1>1. ASSUME NEW p \in PutReq, PutFile(p)
      PROVE  RowsNamed'
  <2>1. PICK q \in Path, s \in Bodies :
          /\ files' = [files EXCEPT ![q].id = FileId(q, p)]
          /\ put' = [put EXCEPT ![p] = [@ EXCEPT !.pc = "store", !.path = q,
                                                 !.fid = FileId(q, p), !.body = s]]
          /\ put[p].pc = "idle"
    BY <1>1 DEF PutFile, FileInsert
  <2>2. /\ put'[p].pc = "store" /\ put'[p].path = q /\ put'[p].fid = FileId(q, p)
        /\ \A r \in PutReq \ {p} : put'[r] = put[r]
        /\ files'[q].id = FileId(q, p)
        /\ \A r \in Path \ {q} : files'[r].id = files[r].id
    BY <1>0, <2>1 DEF Put, FileRow
  <2>3. /\ FileId(q, p) \in PutReq /\ FileId(q, p) # None
        /\ put'[FileId(q, p)].pc # "idle" /\ put'[FileId(q, p)].path = q
    <3>1. CASE files[q].id = None
      BY <2>2, <3>1, NoneAssumption DEF FileId
    <3>2. CASE files[q].id # None
      <4>1. files[q].id \in PutReq \ {p} /\ put[files[q].id].pc # "idle" /\ put[files[q].id].path = q
        BY <1>0, <2>1, <3>2 DEF RowsNamed
      <4>2. QED
        BY <2>2, <3>2, <4>1 DEF FileId
    <3>3. QED
      BY <3>1, <3>2
  <2>4. ASSUME NEW r \in Path, files'[r].id # None
        PROVE  put'[files'[r].id].pc # "idle" /\ put'[files'[r].id].path = r
    <3>1. CASE r = q
      BY <2>2, <2>3, <3>1
    <3>2. CASE r # q
      <4>1. /\ files'[r].id = files[r].id /\ files[r].id \in PutReq
            /\ put[files[r].id].pc # "idle" /\ put[files[r].id].path = r
        BY <1>0, <2>2, <2>4, <3>2 DEF RowsNamed
      <4>2. QED
        BY <2>1, <2>2, <4>1
    <3>3. QED
      BY <3>1, <3>2
  <2>5. ASSUME NEW r \in PutReq, put'[r].pc \in {"store", "update", "tx"}
        PROVE  /\ put'[r].fid # None
               /\ put'[put'[r].fid].pc # "idle"
               /\ put'[put'[r].fid].path = put'[r].path
    <3>1. CASE r = p
      BY <2>2, <2>3, <3>1
    <3>2. CASE r # p
      <4>1. /\ put'[r] = put[r] /\ put[r].fid \in PutReq \ {p}
            /\ put[put[r].fid].pc # "idle" /\ put[put[r].fid].path = put[r].path
            /\ put[r].fid # None
        BY <1>0, <2>1, <2>2, <2>5, <3>2 DEF RowsNamed
      <4>2. QED
        BY <2>2, <4>1
    <3>3. QED
      BY <3>1, <3>2
  <2>6. QED
    BY <2>4, <2>5 DEF RowsNamed
<1>2. ASSUME \A q \in Path : files'[q].id \in {None, files[q].id},
             \A p \in PutReq : put[p].pc = "idle" => put'[p].pc \in {"idle", "failed"}
      PROVE  RowsNamed'
  <2>1. ASSUME NEW q \in Path, files'[q].id # None
        PROVE  put'[files'[q].id].pc # "idle" /\ put'[files'[q].id].path = q
    <3>1. /\ files'[q].id = files[q].id /\ files[q].id \in PutReq
          /\ put[files[q].id].pc # "idle" /\ put[files[q].id].path = q
      BY <1>0, <1>2, <2>1 DEF RowsNamed
    <3>2. QED
      BY <3>1, PathSteady
  <2>2. ASSUME NEW p \in PutReq, put'[p].pc \in {"store", "update", "tx"}
        PROVE  /\ put'[p].fid # None
               /\ put'[put'[p].fid].pc # "idle"
               /\ put'[put'[p].fid].path = put'[p].path
    <3>1. put[p].pc # "idle"
      BY <1>2, <2>2
    <3>2. /\ put'[p].path = put[p].path /\ put'[p].fid = put[p].fid
          /\ put[p].pc \in {"store", "update", "tx"}
      BY <2>2, <3>1, PathSteady
    <3>3. /\ put[p].fid # None /\ put[p].fid \in PutReq
          /\ put[put[p].fid].pc # "idle" /\ put[put[p].fid].path = put[p].path
      BY <1>0, <3>2 DEF RowsNamed
    <3>4. QED
      BY <3>2, <3>3, PathSteady
  <2>3. QED
    BY <2>1, <2>2 DEF RowsNamed
<1>3. ASSUME ~ \E p \in PutReq : PutFile(p)
      PROVE  \A q \in Path : files'[q].id \in {None, files[q].id}
  <2>1. CASE files' = files
    BY <2>1
  <2>2. ASSUME NEW p \in PutReq, PutCommit(p)
        PROVE  \A q \in Path : files'[q].id \in {None, files[q].id}
    <3>1. PICK r \in Path : files' = [files EXCEPT ![r].chain = p]
      BY <2>2 DEF PutCommit, BlockInsert, FilesWithId
    <3>2. QED
      BY <1>0, <3>1 DEF FileRow
  <2>3. ASSUME NEW d \in DelReq, DeleteNothing(d) \/ DeleteFile(d) \/ DeleteUnanswered(d)
        PROVE  \A q \in Path : files'[q].id \in {None, files[q].id}
    <3>1. PICK r \in Path : FileRemove(r)
      BY <2>3 DEF DeleteNothing, DeleteFile, DeleteUnanswered
    <3>2. QED
      BY <1>0, <3>1 DEF FileRemove
  <2>4. QED
    BY <1>3, <2>1, <2>2, <2>3, FilesChange
<1>4. ASSUME ~ \E p \in PutReq : PutFile(p), NEW p \in PutReq, put[p].pc = "idle"
      PROVE  put'[p].pc \in {"idle", "failed"}
  <2>1. ASSUME NEW r \in PutReq,
               PutStore(r) \/ PutBegin(r) \/ PutCommit(r) \/ PutNotFound(r) \/ PutMessage(r)
        PROVE  put'[p] = put[p]
    <3>1. r # p
      BY <1>4, <2>1 DEF PutStore, PutBegin, PutCommit, PutNotFound, PutMessage
    <3>2. \E w : put' = [put EXCEPT ![r] = w]
      BY <2>1 DEF PutStore, PutBegin, PutCommit, PutNotFound, PutMessage
    <3>3. QED
      BY <1>0, <3>1, <3>2
  <2>2. ASSUME NEW r \in PutReq, PutError(r)
        PROVE  put'[p].pc \in {"idle", "failed"}
    BY <1>0, <1>4, <2>2 DEF PutError, Put
  <2>3. CASE BlockCrash
    BY <1>0, <1>4, <2>3 DEF BlockCrash, Put
  <2>4. QED
    BY <1>4, <2>1, <2>2, <2>3, PutChanges
<1>5. QED
  BY <1>1, <1>2, <1>3, <1>4

-----------------------------------------------------------------------------
(* The theorems.                                                           *)

LEMMA NextIInv == IInv /\ [Next]_vars => IInv'
  BY TypeOKStep, PutShapeStep, ObjectsFaithfulStep, ChainsFaithfulStep,
     CurrentLinkedStep, JobsFaithfulStep, ReadersFaithfulStep, RowsNamedStep DEF IInv

\* Whatever the requests, the messages, the failures and the order of things:
\* objects, chains, handlers and readers stay faithful to the uploads.
THEOREM Faithful == Spec => []IInv
  BY InitIInv, NextIInv, PTL DEF Spec

\* Every variable of the program keeps the type of its declaration.
THEOREM TypeCorrect == Spec => []TypeOK
<1>1. IInv => TypeOK
  BY DEF IInv
<1>2. QED
  BY <1>1, Faithful, PTL

\* Deduplication never changes what a chain spells, although Lookup trusts
\* hashes and Compare and Link happen in different steps (Chain.File).
THEOREM ContentKept == Spec => []ChainContent
<1>1. IInv => ChainContent
  <2> SUFFICES ASSUME IInv, NEW c \in PutReq, links[c] # <<>>
               PROVE  Assembled(c) = put[c].body
    BY DEF ChainContent
  <2>1. /\ put[c].body # <<>>
        /\ DOMAIN links[c] = 1 .. Len(put[c].body)
        /\ \A k \in DOMAIN links[c] : Origin(links[c][k]) = put[c].body[k]
    BY DEF IInv, ChainsFaithful
  <2>2. put[c].body \in Seq(Content)
    <3>1. put[c] \in Put
      BY DEF IInv, TypeOK, ServiceTypeOK
    <3>2. QED
      BY <2>1, <3>1, PutFields, BodyShape
  <2>3. QED
    BY <2>1, <2>2 DEF Assembled
<1>2. QED
  BY <1>1, Faithful, PTL

\* The list is never empty for the chain of a file.
LEMMA CurrentListed ==
    ASSUME TypeOK, CurrentLinked, NEW q \in Path, files[q].chain # None
    PROVE  DeleteStatus(Deleted(files[q].chain)) = "NoContent"
<1>1. files[q].chain \in PutReq
  BY DEF TypeOK, RepositoryTypeOK, FileRow
<1>2. links[files[q].chain] # <<>>
  BY DEF CurrentLinked
<1>3. QED
  BY <1>1, <1>2, ListsEveryLink DEF DeleteStatus

\* DELETE answers 404 only when there was no file with content to delete,
\* whatever fails and however many of its blocks other files keep: delete.go
\* reads an empty list as "not found", and no current chain is without links.
THEOREM NotFoundAbsent == Spec => []NotFoundMeansAbsent
<1> DEFINE Fresh == \A d \in DelReq : del[d].pc = "idle" => del[d].chain = None
<1>1. Init => Fresh /\ NotFoundMeansAbsent
  <2> SUFFICES ASSUME Init PROVE Fresh /\ NotFoundMeansAbsent
    OBVIOUS
  <2>1. del = [d \in DelReq |-> DelIdle]
    BY DEF Init, ServiceInit
  <2>2. QED
    BY <2>1 DEF DelIdle, NotFoundMeansAbsent
<1>2. IInv /\ Fresh /\ NotFoundMeansAbsent /\ [Next]_vars => (Fresh /\ NotFoundMeansAbsent)'
  <2> SUFFICES ASSUME IInv, Fresh, NotFoundMeansAbsent, [Next]_vars, NEW d \in DelReq
               PROVE  /\ del'[d].pc = "idle" => del'[d].chain = None
                      /\ del'[d].status = "NotFound" => del'[d].chain = None
    BY DEF NotFoundMeansAbsent
  <2>0. del \in [DelReq -> Delete] /\ del[d] \in Delete
    BY DEF IInv, TypeOK, ServiceTypeOK
  <2>1. CASE del'[d] = del[d]
    BY <2>1 DEF NotFoundMeansAbsent
  <2>2. ASSUME NEW e \in DelReq, e # d,
               \/ DeleteNothing(e) \/ DeleteFile(e) \/ DeleteUnanswered(e)
               \/ DeleteFails(e) \/ DeleteDeadlock(e) \/ DeletePurge(e)
        PROVE  del'[d] = del[d]
    BY <2>0, <2>2 DEF DeleteNothing, DeleteFile, DeleteUnanswered, DeleteFails,
       DeleteDeadlock, DeletePurge
  <2>3. CASE DeleteNothing(d)
    <3>1. /\ del' = [del EXCEPT ![d] = [@ EXCEPT !.pc = "done", !.status = DeleteStatus(<<>>)]]
          /\ del[d].chain = None
      BY <2>3 DEF DeleteNothing
    <3>2. QED
      BY <2>0, <3>1 DEF Delete
  <2>4. CASE DeleteUnanswered(d) \/ DeleteFails(d) \/ DeleteDeadlock(d)
    <3>1. PICK q \in Path :
            del' = [del EXCEPT ![d] =
                [@ EXCEPT !.pc = "done", !.chain = files[q].chain, !.status = "InternalError"]]
      BY <2>4 DEF DeleteUnanswered, DeleteFails, DeleteDeadlock
    <3>2. QED
      BY <2>0, <3>1 DEF Delete
  <2>5. CASE DeleteFile(d)
    <3>1. PICK q \in Path :
            /\ files[q].chain # None
            /\ del' = [del EXCEPT ![d] =
                  [pc |-> IF Ids(Deleted(files[q].chain)) = {} THEN "done" ELSE "purge",
                   chain |-> files[q].chain,
                   status |-> DeleteStatus(Deleted(files[q].chain)),
                   left |-> Ids(Deleted(files[q].chain))]]
      BY <2>5 DEF DeleteFile
    <3>2. DeleteStatus(Deleted(files[q].chain)) = "NoContent"
      BY <3>1, CurrentListed DEF IInv
    <3>3. QED
      BY <2>0, <3>1, <3>2
  <2>6. CASE DeletePurge(d)
    <3>1. PICK b \in del[d].left :
            del' = [del EXCEPT ![d] = [@ EXCEPT !.left = del[d].left \ {b},
                        !.pc = IF del[d].left \ {b} = {} THEN "done" ELSE "purge"]]
      BY <2>6 DEF DeletePurge
    <3>2. QED
      BY <2>0, <3>1 DEF Delete, NotFoundMeansAbsent
  <2>7. CASE BlockCrash
    <3>1. del'[d] = IF del[d].pc = "purge" THEN [del[d] EXCEPT !.pc = "done", !.left = {}]
                    ELSE del[d]
      BY <2>7 DEF BlockCrash
    <3>2. QED
      BY <2>0, <3>1 DEF Delete, NotFoundMeansAbsent
  <2>8. QED
    BY <2>1, <2>2, <2>3, <2>4, <2>5, <2>6, <2>7, DeletesChange
<1>3. QED
  BY <1>1, <1>2, Faithful, PTL DEF Spec

-----------------------------------------------------------------------------
(* NoCopy implements FileStore: the steps of its handlers are steps of a   *)
(* map of files, and deduplication is none that a client can see.          *)

\* The variables of FileStore.
Map == [q \in Path |-> FileOf(q)]
Writers == [p \in PutReq |-> WriterOf(p)]
Removers == [d \in DelReq |-> RemoverOf(d)]
Readers == [g \in GetReq |-> ReaderOf(g)]

-----------------------------------------------------------------------------
(* What a file is, and that deduplication does not change it.              *)

LEMMA FileIsUpload ==
    ASSUME IInv, NEW q \in Path
    PROVE  LET c == files[q].chain IN
           /\ c \in PutReq \cup {None}
           /\ c # None => /\ FileOf(q) = put[c].body
                          /\ put[c].body \in Bodies
                          /\ put[c].pc # "idle"
                          /\ FileOf(q) # None
                          /\ FileSelect(q) = links[c] /\ links[c] # <<>>
           /\ c = None => FileOf(q) = None /\ FileSelect(q) = <<>>
<1> DEFINE c == files[q].chain
<1>1. c \in PutReq \cup {None}
  BY DEF IInv, TypeOK, RepositoryTypeOK, FileRow
<1>2. ASSUME c # None
      PROVE  /\ FileOf(q) = put[c].body /\ put[c].body \in Bodies
             /\ put[c].pc # "idle"
             /\ links[c] # <<>>
  <2>1. c \in PutReq /\ links[c] # <<>>
    BY <1>1, <1>2 DEF IInv, CurrentLinked
  <2>2. /\ Committed(c) /\ put[c].body # <<>>
        /\ DOMAIN links[c] = 1 .. Len(put[c].body)
        /\ \A k \in DOMAIN links[c] : Origin(links[c][k]) = put[c].body[k]
    BY <2>1 DEF IInv, ChainsFaithful
  <2>3. put[c].body \in Bodies
    <3>1. put[c] \in Put
      BY <2>1 DEF IInv, TypeOK, ServiceTypeOK
    <3>2. QED
      BY <2>2, <3>1, PutFields
  <2>4. Assembled(c) = put[c].body
    <3>1. put[c].body \in Seq(Content)
      BY <2>3, BodyShape
    <3>2. /\ DOMAIN put[c].body = DOMAIN links[c]
          /\ put[c].body = [k \in DOMAIN put[c].body |-> put[c].body[k]]
      BY <2>2, <3>1
    <3>3. Assembled(c) = [k \in DOMAIN links[c] |-> Origin(links[c][k])]
      BY DEF Assembled
    <3>4. Assembled(c) = [k \in DOMAIN links[c] |-> put[c].body[k]]
      BY <2>2, <3>3
    <3>5. QED
      BY <3>2, <3>4
  <2>5. QED
    BY <1>2, <2>1, <2>2, <2>3, <2>4 DEF FileOf, Committed
<1>3. QED
  BY <1>1, <1>2, BodiesAssumption DEF FileOf, FileSelect

LEMMA FileSteady ==
    ASSUME IInv, [Next]_vars, NEW q \in Path, files'[q].chain = files[q].chain
    PROVE  FileOf(q)' = FileOf(q)
<1> DEFINE c == files[q].chain
<1>1. IInv'
  BY NextIInv
<1>2. CASE c = None
  BY <1>2 DEF FileOf
<1>3. CASE c # None
  <2>1. c \in PutReq /\ FileOf(q) = put[c].body /\ put[c].pc # "idle"
    BY <1>3, FileIsUpload
  <2>2. FileOf(q)' = put'[c].body
    <3>1. (/\ files[q].chain # None => FileOf(q) = put[files[q].chain].body)'
      BY <1>1, FileIsUpload, PTL
    <3>2. QED
      BY <1>3, <3>1
  <2>3. put'[c].body = put[c].body
    BY <2>1, PutSteady DEF IInv
  <2>4. QED
    BY <2>1, <2>2, <2>3
<1>4. QED
  BY <1>2, <1>3

LEMMA WantedSteady ==
    ASSUME IInv, [Next]_vars, NEW g \in GetReq, get'[g].list = get[g].list
    PROVE  Wanted(g)' = Wanted(g)
<1>1. get[g].list \in Seq(BlockId) /\ \A k \in DOMAIN get[g].list : Uploaded(get[g].list[k])
  BY DEF IInv, TypeOK, ServiceTypeOK, Get, ReadersFaithful
<1>2. ASSUME NEW k \in DOMAIN get[g].list
      PROVE  Origin(get[g].list[k])' = Origin(get[g].list[k])
  <2>1. get[g].list[k] \in BlockId /\ Uploaded(get[g].list[k])
    BY <1>1
  <2>2. QED
    BY <2>1, UploadSteady DEF IInv, Origin
<1>3. QED
  BY <1>2 DEF Wanted, Origin

\* A step that leaves the current chains alone leaves the files alone.
LEMMA MapSteady ==
    ASSUME IInv, [Next]_vars, \A q \in Path : files'[q].chain = files[q].chain
    PROVE  Map' = Map
<1>1. \A q \in Path : FileOf(q)' = FileOf(q)
  BY FileSteady
<1>2. QED
  BY <1>1 DEF Map

LEMMA ReadersSteady ==
    ASSUME IInv, [Next]_vars, get' = get
    PROVE  Readers' = Readers
<1>1. \A g \in GetReq : Wanted(g)' = Wanted(g)
  BY WantedSteady
<1>2. QED
  BY <1>1 DEF Readers, ReaderOf

\* The phase a PUT is in decides how it looks from outside.
LEMMA WritersSteady ==
    ASSUME IInv, NEW p \in PutReq, NEW v, put' = [put EXCEPT ![p] = v],
           v.path = put[p].path, v.body = put[p].body,
           \/ put[p].pc \in {"store", "update"} /\ v.pc \in {"store", "update", "tx"}
           \/ put[p].pc = "message" /\ v.pc = "done"
    PROVE  Writers' = Writers
<1>1. put'[p] = v /\ \A r \in PutReq \ {p} : put'[r] = put[r]
  BY DEF IInv, TypeOK, ServiceTypeOK
<1>2. WriterOf(p)' = WriterOf(p)
  BY <1>1 DEF WriterOf, WriterPhase
<1>3. \A r \in PutReq \ {p} : WriterOf(r)' = WriterOf(r)
  BY <1>1 DEF WriterOf, WriterPhase
<1>4. QED
  BY <1>2, <1>3 DEF Writers

\* A step that changes no file, no upload, no answer and no reader is invisible.
LEMMA Hidden ==
    ASSUME IInv, [Next]_vars, \A q \in Path : files'[q].chain = files[q].chain,
           Writers' = Writers, Removers' = Removers, Readers' = Readers
    PROVE  UNCHANGED Files!vars
<1>1. Map' = Map
  BY MapSteady
<1>2. QED
  BY <1>1 DEF Files!vars, Map, Writers, Removers, Readers

-----------------------------------------------------------------------------
(* The initial states, and the steps of the PUTs.                          *)

LEMMA InitFiles == Init => Files!Init
<1> SUFFICES ASSUME Init PROVE Files!Init
  OBVIOUS
<1>1. \A q \in Path : FileOf(q) = None
  BY DEF Init, RepositoryInit, FileOf
<1>2. \A p \in PutReq : WriterOf(p) = [phase |-> "idle", path |-> None, body |-> None]
  BY DEF Init, ServiceInit, PutIdle, WriterOf, WriterPhase
<1>3. \A d \in DelReq : RemoverOf(d) = "idle"
  BY DEF Init, ServiceInit, DelIdle, RemoverOf
<1>4. \A g \in GetReq : ReaderOf(g) = [phase |-> "idle", want |-> None, got |-> None]
  BY DEF Init, ServiceInit, GetIdle, ReaderOf, Wanted
<1>5. QED
  BY <1>1, <1>2, <1>3, <1>4 DEF Files!Init

LEMMA PutFileWrites ==
    ASSUME IInv, [Next]_vars, NEW p \in PutReq, PutFile(p)
    PROVE  \E q \in Path, s \in Bodies : Files!WriteBegin(p, q, s)
<1>1. PICK q \in Path, s \in Bodies :
        /\ files' = [files EXCEPT ![q].id = FileId(q, p)]
        /\ put' = [put EXCEPT ![p] = [@ EXCEPT !.pc = "store", !.path = q,
                                               !.fid = FileId(q, p), !.body = s]]
        /\ put[p].pc = "idle"
        /\ UNCHANGED <<del, get>>
  BY DEF PutFile, FileInsert
<1>2. Map' = Map
  <2>1. \A r \in Path : files'[r].chain = files[r].chain
    BY <1>1 DEF IInv, TypeOK, RepositoryTypeOK, FileRow
  <2>2. QED
    BY <2>1, MapSteady
<1>3. Removers' = Removers /\ Readers' = Readers
  BY <1>1, ReadersSteady DEF Removers, RemoverOf
<1>4. /\ put'[p].pc = "store" /\ put'[p].path = q /\ put'[p].body = s
      /\ \A r \in PutReq \ {p} : put'[r] = put[r]
  BY <1>1 DEF IInv, TypeOK, ServiceTypeOK, Put
<1>5. WriterOf(p).phase = "idle"
  BY <1>1 DEF WriterOf, WriterPhase
<1>6. WriterOf(p)' = [phase |-> "writing", path |-> q, body |-> s]
  BY <1>4, BodyShape DEF WriterOf, WriterPhase
<1>7. \A r \in PutReq \ {p} : WriterOf(r)' = WriterOf(r)
  BY <1>4 DEF WriterOf, WriterPhase
<1>8. Writers' = [Writers EXCEPT ![p] = [phase |-> "writing", path |-> q, body |-> s]]
  BY <1>6, <1>7 DEF Writers
<1>9. QED
  BY <1>2, <1>3, <1>5, <1>8 DEF Files!WriteBegin, Map, Writers, Removers, Readers

\* The row the commit finds by its id is the row of the path the PUT was sent for.
LEMMA PutCommitWrites ==
    ASSUME IInv, [Next]_vars, NEW p \in PutReq, PutCommit(p)
    PROVE  Files!Write(p)
<1>1. PICK q \in Path, pc \in {"message", "failed"} :
        /\ files[q].id = put[p].fid
        /\ files' = [files EXCEPT ![q].chain = p]
        /\ put' = [put EXCEPT ![p] =
                [@ EXCEPT !.pc = pc, !.rank = NoRank, !.old = files[q].chain]]
        /\ put[p].pc = "tx"
        /\ UNCHANGED <<del, get>>
  BY DEF PutCommit, BlockInsert, FilesWithId
<1>2. /\ put \in [PutReq -> Put] /\ files \in [Path -> FileRow]
      /\ \A r \in Path : files[r] \in FileRow
  BY DEF IInv, TypeOK, ServiceTypeOK, RepositoryTypeOK
<1>3. q = put[p].path
  BY <1>1 DEF IInv, RowsNamed
<1>4. /\ put'[p].pc = pc /\ put'[p].path = put[p].path /\ put'[p].body = put[p].body
      /\ \A r \in PutReq \ {p} : put'[r] = put[r]
  BY <1>1, <1>2 DEF Put
<1>5. /\ files'[q].chain = p
      /\ \A r \in Path \ {q} : files'[r].chain = files[r].chain
  BY <1>1, <1>2 DEF FileRow
<1>6. put[p].body \in Bodies /\ put[p].body # <<>>
  BY <1>1, <1>2, PutFields DEF IInv, PutShape
<1>7. FileOf(q)' = put[p].body
  <2>1. IInv'
    BY NextIInv
  <2>2. (files[q].chain # None => FileOf(q) = put[files[q].chain].body)'
    BY <2>1, FileIsUpload, PTL
  <2>3. QED
    BY <1>4, <1>5, <2>2, NoneAssumption
<1>8. Map' = [Map EXCEPT ![q] = put[p].body]
  <2>1. \A r \in Path \ {q} : FileOf(r)' = FileOf(r)
    BY <1>5, FileSteady
  <2>2. QED
    BY <1>7, <2>1 DEF Map
<1>9. WriterOf(p) = [phase |-> "writing", path |-> q, body |-> put[p].body]
  BY <1>1, <1>3, <1>6 DEF WriterOf, WriterPhase
<1>10. \E r \in {"ok", "failed"} : Writers' = [Writers EXCEPT ![p].phase = r]
  <2> DEFINE r == IF pc = "message" THEN "ok" ELSE "failed"
  <2>1. WriterOf(p)' = [WriterOf(p) EXCEPT !.phase = r]
    BY <1>1, <1>3, <1>4, <1>6, <1>9 DEF WriterOf, WriterPhase
  <2>2. \A w \in PutReq \ {p} : WriterOf(w)' = WriterOf(w)
    BY <1>4 DEF WriterOf, WriterPhase
  <2>3. Writers' = [Writers EXCEPT ![p].phase = r]
    BY <2>1, <2>2 DEF Writers
  <2>4. QED
    BY <2>3
<1>11. Removers' = Removers /\ Readers' = Readers
  BY <1>1, ReadersSteady DEF Removers, RemoverOf
<1>12. Writers[p] = WriterOf(p) /\ Writers[p].phase = "writing"
       /\ Writers[p].path = q /\ Writers[p].body = put[p].body
  BY <1>9 DEF Writers
<1>13. Map' = [Map EXCEPT ![Writers[p].path] = Writers[p].body]
  BY <1>8, <1>12
<1>14. QED
  BY <1>10, <1>11, <1>12, <1>13 DEF Files!Write, Map, Writers, Removers, Readers

\* Any PUTs and any readers at work may be cut off together.
LEMMA CutOff ==
    ASSUME IInv, [Next]_vars,
           NEW P \in SUBSET PutReq,
           NEW G \in SUBSET {g \in GetReq : get[g].pc \in {"idle", "read"}},
           files' = files,
           \A d \in DelReq : RemoverOf(d)' = RemoverOf(d),
           \A p \in PutReq : put'[p] = IF p \in P
                   THEN [put[p] EXCEPT !.pc = "failed", !.rank = NoRank] ELSE put[p],
           \A g \in GetReq : get'[g] = IF g \in G
                   THEN [get[g] EXCEPT !.pc = "broken"] ELSE get[g]
    PROVE  Files!Fail
<1>0. /\ \A p \in PutReq : put[p] \in Put
      /\ \A g \in GetReq : get[g] \in Get
  BY DEF IInv, TypeOK, ServiceTypeOK
<1>1. Map' = Map
  BY MapSteady
<1>2. Removers' = Removers
  BY DEF Removers
<1>3. ASSUME NEW p \in PutReq
      PROVE  WriterOf(p)' = IF p \in P THEN [WriterOf(p) EXCEPT !.phase = "failed"]
                                       ELSE WriterOf(p)
  <2>1. CASE p \in P
    <3>1. put'[p].pc = "failed" /\ put'[p].path = put[p].path /\ put'[p].body = put[p].body
      BY <1>0, <2>1 DEF Put
    <3>2. QED
      BY <2>1, <3>1 DEF WriterOf, WriterPhase
  <2>2. CASE p \notin P
    BY <2>2 DEF WriterOf, WriterPhase
  <2>3. QED
    BY <2>1, <2>2
<1>4. ASSUME NEW g \in GetReq
      PROVE  ReaderOf(g)' = IF g \in G THEN [ReaderOf(g) EXCEPT !.phase = "broken"]
                                       ELSE ReaderOf(g)
  <2>1. get'[g].list = get[g].list
    BY <1>0 DEF Get
  <2>2. Wanted(g)' = Wanted(g)
    BY <2>1, WantedSteady
  <2>3. CASE g \in G
    <3>1. get'[g].pc = "broken" /\ get[g].pc \in {"idle", "read"}
      BY <1>0, <2>3 DEF Get
    <3>2. QED
      BY <2>2, <2>3, <3>1 DEF ReaderOf
  <2>4. CASE g \notin G
    BY <2>2, <2>4 DEF ReaderOf
  <2>5. QED
    BY <2>3, <2>4
<1>5. G \in SUBSET {g \in GetReq : ReaderOf(g).phase \in {"idle", "reading"}}
  BY DEF ReaderOf
<1>6. Writers' = [p \in PutReq |->
            IF p \in P THEN [Writers[p] EXCEPT !.phase = "failed"] ELSE Writers[p]]
  BY <1>3 DEF Writers
<1>7. Readers' = [g \in GetReq |->
            IF g \in G THEN [Readers[g] EXCEPT !.phase = "broken"] ELSE Readers[g]]
  BY <1>4 DEF Readers
<1>8. G \in SUBSET {g \in GetReq : Readers[g].phase \in {"idle", "reading"}}
  BY <1>5 DEF Readers
<1>9. QED
  BY <1>1, <1>2, <1>6, <1>7, <1>8 DEF Files!Fail, Map, Writers, Removers, Readers

LEMMA PutSteps ==
    ASSUME IInv, [Next]_vars, NEW p \in PutReq, PutFile(p) \/ PutStep(p) \/ PutError(p)
    PROVE  [Files!Next]_Files!vars
<1>0. put \in [PutReq -> Put] /\ put[p] \in Put
  BY DEF IInv, TypeOK, ServiceTypeOK
<1>1. CASE PutFile(p)
  BY <1>1, PutFileWrites DEF Files!Next
<1>2. CASE PutCommit(p)
  BY <1>2, PutCommitWrites DEF Files!Next
<1>3. CASE PutStore(p) \/ PutBegin(p) \/ PutMessage(p)
  <2>1. /\ files' = files /\ del' = del /\ get' = get
        /\ put' = [put EXCEPT ![p] = put'[p]]
        /\ put'[p].path = put[p].path /\ put'[p].body = put[p].body
        /\ \/ /\ put[p].pc \in {"store", "update"}
              /\ put'[p].pc \in {"store", "update", "tx"}
           \/ put[p].pc = "message" /\ put'[p].pc = "done"
    <3>1. CASE PutStore(p)
      BY <1>0, <3>1 DEF PutStore, dbVars, Put
    <3>2. CASE PutBegin(p)
      BY <1>0, <3>2 DEF PutBegin, Put
    <3>3. CASE PutMessage(p)
      BY <1>0, <3>3 DEF PutMessage, dbVars, Put
    <3>4. QED
      BY <1>3, <3>1, <3>2, <3>3
  <2>2. Writers' = Writers
    BY <2>1, WritersSteady
  <2>3. Removers' = Removers /\ Readers' = Readers
    BY <2>1, ReadersSteady DEF Removers, RemoverOf
  <2>4. QED
    BY <2>1, <2>2, <2>3, Hidden
<1>4. CASE PutNotFound(p) \/ PutError(p)
  <2>1. /\ put' = [put EXCEPT ![p] = [@ EXCEPT !.pc = "failed", !.rank = NoRank]]
        /\ files' = files /\ del' = del /\ get' = get
    BY <1>4 DEF PutNotFound, PutError, dbVars
  <2>2. \A r \in PutReq : put'[r] = IF r \in {p}
            THEN [put[r] EXCEPT !.pc = "failed", !.rank = NoRank] ELSE put[r]
    BY <1>0, <2>1
  <2>3. \A d \in DelReq : RemoverOf(d)' = RemoverOf(d)
    BY <2>1 DEF RemoverOf
  <2>4. \A g \in GetReq : get'[g] = IF g \in {}
            THEN [get[g] EXCEPT !.pc = "broken"] ELSE get[g]
    BY <2>1
  <2>5. {p} \in SUBSET PutReq /\ {} \in SUBSET {g \in GetReq : get[g].pc \in {"idle", "read"}}
    OBVIOUS
  <2>6. Files!Fail
    BY <2>1, <2>2, <2>3, <2>4, <2>5, CutOff
  <2>7. QED
    BY <2>6 DEF Files!Next
<1>5. QED
  BY <1>1, <1>2, <1>3, <1>4 DEF PutStep

-----------------------------------------------------------------------------
(* The steps of the DELETEs.                                               *)

\* A DELETE that ends at once answers for itself alone.
LEMMA RemoverAnswers ==
    ASSUME IInv, NEW d \in DelReq, del[d].pc = "idle",
           del' = [del EXCEPT ![d] = del'[d]], del'[d].pc # "idle"
    PROVE  /\ Removers[d] = "idle"
           /\ Removers' = [Removers EXCEPT ![d] = Answered[del'[d].status]]
<1>1. \A e \in DelReq \ {d} : del'[e] = del[e]
  BY DEF IInv, TypeOK, ServiceTypeOK
<1>2. QED
  BY <1>1 DEF Removers, RemoverOf

\* Removing the row of a path removes its file and no other.
LEMMA FileRemoved ==
    ASSUME IInv, [Next]_vars, NEW q \in Path, FileRemove(q)
    PROVE  Map' = [Map EXCEPT ![q] = None]
<1>1. /\ files'[q].chain = None
      /\ \A r \in Path \ {q} : files'[r].chain = files[r].chain
  BY DEF FileRemove, IInv, TypeOK, RepositoryTypeOK
<1>2. FileOf(q)' = None
  BY <1>1 DEF FileOf
<1>3. \A r \in Path \ {q} : FileOf(r)' = FileOf(r)
  BY <1>1, FileSteady
<1>4. QED
  BY <1>2, <1>3 DEF Map

LEMMA DeleteSteps ==
    ASSUME IInv, [Next]_vars, NEW d \in DelReq,
           \/ DeleteNothing(d) \/ DeleteFile(d) \/ DeleteUnanswered(d)
           \/ DeleteFails(d) \/ DeleteDeadlock(d) \/ DeletePurge(d)
    PROVE  [Files!Next]_Files!vars
<1>0. del \in [DelReq -> Delete] /\ del[d] \in Delete
  BY DEF IInv, TypeOK, ServiceTypeOK
<1>1. CASE DeleteNothing(d)
  <2>1. PICK q \in Path : files[q].chain = None /\ FileRemove(q)
    BY <1>1 DEF DeleteNothing
  <2>2. /\ del[d].pc = "idle" /\ put' = put /\ get' = get
        /\ del' = [del EXCEPT ![d] = del'[d]]
        /\ del'[d].pc = "done" /\ del'[d].status = "NotFound"
    BY <1>0, <1>1 DEF DeleteNothing, DeleteStatus, Delete
  <2>3. Removers[d] = "idle" /\ Removers' = [Removers EXCEPT ![d] = "missing"]
    BY <2>2, RemoverAnswers DEF Answered
  <2>4. Map[q] = None /\ Map' = [Map EXCEPT ![q] = None]
    BY <2>1, FileRemoved DEF Map, FileOf
  <2>5. Writers' = Writers /\ Readers' = Readers
    BY <2>2, ReadersSteady DEF Writers, WriterOf, WriterPhase
  <2>6. Files!Remove(d, q)
    BY <2>3, <2>4, <2>5 DEF Files!Remove, Map, Writers, Removers, Readers
  <2>7. QED
    BY <2>6 DEF Files!Next
<1>2. CASE DeleteFile(d)
  <2>1. PICK q \in Path :
          /\ files[q].chain # None /\ FileRemove(q)
          /\ del' = [del EXCEPT ![d] =
                [pc |-> IF Freed(files[q].chain) = {} THEN "done" ELSE "purge",
                 chain |-> files[q].chain, status |-> "NoContent",
                 left |-> Freed(files[q].chain)]]
    BY <1>2, IdsOfDeleted, CurrentListed DEF DeleteFile, IInv
  <2>2. /\ del[d].pc = "idle" /\ put' = put /\ get' = get
        /\ del' = [del EXCEPT ![d] = del'[d]]
        /\ del'[d].pc # "idle" /\ del'[d].status = "NoContent"
    BY <1>0, <1>2, <2>1 DEF DeleteFile
  <2>3. Removers[d] = "idle" /\ Removers' = [Removers EXCEPT ![d] = "ok"]
    BY <2>2, RemoverAnswers DEF Answered
  <2>4. Map[q] # None /\ Map' = [Map EXCEPT ![q] = None]
    BY <2>1, FileRemoved, FileIsUpload DEF Map
  <2>5. Writers' = Writers /\ Readers' = Readers
    BY <2>2, ReadersSteady DEF Writers, WriterOf, WriterPhase
  <2>6. Files!Remove(d, q)
    BY <2>3, <2>4, <2>5 DEF Files!Remove, Map, Writers, Removers, Readers
  <2>7. QED
    BY <2>6 DEF Files!Next
<1>3. CASE DeleteUnanswered(d)
  <2>1. PICK q \in Path : FileRemove(q) /\ del' = [del EXCEPT ![d] =
                [@ EXCEPT !.pc = "done", !.chain = files[q].chain, !.status = "InternalError"]]
    BY <1>3 DEF DeleteUnanswered
  <2>2. /\ del[d].pc = "idle" /\ put' = put /\ get' = get
        /\ del' = [del EXCEPT ![d] = del'[d]]
        /\ del'[d].pc = "done" /\ del'[d].status = "InternalError"
    BY <1>0, <1>3, <2>1 DEF DeleteUnanswered, Delete
  <2>3. Removers[d] = "idle" /\ Removers' = [Removers EXCEPT ![d] = "failed"]
    BY <2>2, RemoverAnswers DEF Answered
  <2>4. Map' = [Map EXCEPT ![q] = None]
    BY <2>1, FileRemoved
  <2>5. Writers' = Writers /\ Readers' = Readers
    BY <2>2, ReadersSteady DEF Writers, WriterOf, WriterPhase
  <2>6. Files!Remove(d, q)
    BY <2>3, <2>4, <2>5 DEF Files!Remove, Map, Writers, Removers, Readers
  <2>7. QED
    BY <2>6 DEF Files!Next
<1>4. CASE DeleteFails(d) \/ DeleteDeadlock(d)
  <2>1. PICK q \in Path : del' = [del EXCEPT ![d] =
                [@ EXCEPT !.pc = "done", !.chain = files[q].chain, !.status = "InternalError"]]
    BY <1>4 DEF DeleteFails, DeleteDeadlock
  <2>2. /\ del[d].pc = "idle" /\ put' = put /\ get' = get /\ files' = files
        /\ del' = [del EXCEPT ![d] = del'[d]]
        /\ del'[d].pc = "done" /\ del'[d].status = "InternalError"
    BY <1>0, <1>4, <2>1 DEF DeleteFails, DeleteDeadlock, Delete, dbVars
  <2>3. Removers[d] = "idle" /\ Removers' = [Removers EXCEPT ![d] = "failed"]
    BY <2>2, RemoverAnswers DEF Answered
  <2>4. Map' = Map /\ Writers' = Writers /\ Readers' = Readers
    BY <2>2, MapSteady, ReadersSteady DEF Writers, WriterOf, WriterPhase
  <2>5. Files!RemoveFail(d)
    BY <2>3, <2>4 DEF Files!RemoveFail, Map, Writers, Removers, Readers
  <2>6. QED
    BY <2>5 DEF Files!Next
<1>5. CASE DeletePurge(d)
  <2>1. /\ files' = files /\ put' = put /\ get' = get
        /\ del' = [del EXCEPT ![d] = del'[d]]
        /\ del[d].pc # "idle" /\ del'[d].pc # "idle" /\ del'[d].status = del[d].status
    <3>1. PICK left \in {del[d].left \ {b} : b \in del[d].left} :
             del' = [del EXCEPT ![d] = [@ EXCEPT !.left = left, !.pc = IF left = {} THEN "done" ELSE "purge"]]
      BY <1>5 DEF DeletePurge
    <3>2. del[d].pc = "purge" /\ UNCHANGED <<dbVars, put, get>>
      BY <1>5 DEF DeletePurge
    <3>3. del'[d] = [del[d] EXCEPT !.left = left, !.pc = IF left = {} THEN "done" ELSE "purge"]
      BY <1>0, <3>1
    <3>4. del' = [del EXCEPT ![d] = del'[d]]
      BY <1>0, <3>1, <3>3
    <3>5. del'[d].pc # "idle" /\ del'[d].status = del[d].status
      BY <1>0, <3>3 DEF Delete
    <3>6. QED
      BY <3>2, <3>4, <3>5 DEF dbVars
  <2>2. \A e \in DelReq \ {d} : del'[e] = del[e]
    BY <1>0, <2>1
  <2>3. Removers' = Removers
    BY <2>1, <2>2 DEF Removers, RemoverOf
  <2>4. Writers' = Writers /\ Readers' = Readers
    BY <2>1, ReadersSteady DEF Writers, WriterOf, WriterPhase
  <2>5. QED
    BY <2>1, <2>3, <2>4, Hidden
<1>6. QED
  BY <1>1, <1>2, <1>3, <1>4, <1>5

-----------------------------------------------------------------------------
(* The steps of the GETs.                                                  *)

LEMMA GetListReads ==
    ASSUME IInv, [Next]_vars, NEW g \in GetReq, GetList(g)
    PROVE  \E q \in Path : Files!ReadBegin(g, q)
<1>0. get \in [GetReq -> Get]
  BY DEF IInv, TypeOK, ServiceTypeOK
<1>1. PICK q \in Path :
        get' = [get EXCEPT ![g] =
                [pc |-> IF FileSelect(q) = <<>> THEN "missing" ELSE "read",
                 path |-> q, chain |-> files[q].chain,
                 list |-> FileSelect(q), out |-> <<>>]]
  BY DEF GetList
<1>2. get[g].pc = "idle" /\ files' = files /\ put' = put /\ del' = del
  BY DEF GetList, dbVars
<1>3. Map' = Map /\ Writers' = Writers /\ Removers' = Removers
  BY <1>2, MapSteady DEF Writers, WriterOf, WriterPhase, Removers, RemoverOf
<1>4. /\ get'[g].pc = IF FileSelect(q) = <<>> THEN "missing" ELSE "read"
      /\ get'[g].list = FileSelect(q)
      /\ \A h \in GetReq \ {g} : get'[h] = get[h]
  BY <1>0, <1>1
<1>5. FileSelect(q) = <<>> <=> FileOf(q) = None
  BY FileIsUpload
<1>6. Wanted(g)' = FileOf(q)
  <2>1. CASE FileSelect(q) = <<>>
    BY <1>4, <1>5, <2>1 DEF Wanted
  <2>2. CASE FileSelect(q) # <<>>
    BY <1>2, <1>4, <1>5, <2>2 DEF Wanted, FileOf, FileSelect, Assembled, Origin
  <2>3. QED
    BY <2>1, <2>2
<1>7. ReaderOf(g).phase = "idle"
  BY <1>2 DEF ReaderOf
<1>8. ReaderOf(g)' = [phase |-> IF FileOf(q) = None THEN "missing" ELSE "reading",
                     want |-> FileOf(q), got |-> None]
  BY <1>4, <1>5, <1>6 DEF ReaderOf
<1>9. \A h \in GetReq \ {g} : ReaderOf(h)' = ReaderOf(h)
  <2>1. \A h \in GetReq \ {g} : Wanted(h)' = Wanted(h)
    BY <1>4, WantedSteady
  <2>2. QED
    BY <1>4, <2>1 DEF ReaderOf
<1>10. Readers' = [Readers EXCEPT ![g] =
            [phase |-> IF Map[q] = None THEN "missing" ELSE "reading",
             want |-> Map[q], got |-> None]]
  BY <1>8, <1>9 DEF Readers, Map
<1>11. Readers[g].phase = "idle"
  BY <1>7 DEF Readers
<1>12. QED
  BY <1>3, <1>10, <1>11 DEF Files!ReadBegin, Map, Writers, Removers, Readers

\* The last block completes the answer; the others leave it in the making.
LEMMA GetBlockReads ==
    ASSUME IInv, [Next]_vars, NEW g \in GetReq, GetBlock(g)
    PROVE  [Files!Next]_Files!vars
<1>0. get \in [GetReq -> Get] /\ get[g] \in Get
  BY DEF IInv, TypeOK, ServiceTypeOK
<1>1. /\ get[g].pc = "read" /\ files' = files /\ put' = put /\ del' = del
      /\ get' = [get EXCEPT ![g] = get'[g]]
      /\ get'[g].list = get[g].list /\ get'[g].pc \in {"read", "ok"}
  BY <1>0 DEF GetBlock, Get, dbVars
<1>2. Map' = Map /\ Writers' = Writers /\ Removers' = Removers
  BY <1>1, MapSteady DEF Writers, WriterOf, WriterPhase, Removers, RemoverOf
<1>3. \A h \in GetReq \ {g} : get'[h] = get[h]
  BY <1>0, <1>1
<1>4. \A h \in GetReq : Wanted(h)' = Wanted(h)
  BY <1>1, <1>3, WantedSteady
<1>5. \A h \in GetReq \ {g} : ReaderOf(h)' = ReaderOf(h)
  BY <1>3, <1>4 DEF ReaderOf
<1>6. ReaderOf(g) = [phase |-> "reading", want |-> Wanted(g), got |-> None]
  BY <1>1 DEF ReaderOf
<1>7. CASE get'[g].pc = "read"
  <2>1. ReaderOf(g)' = ReaderOf(g)
    BY <1>4, <1>6, <1>7 DEF ReaderOf
  <2>2. Readers' = Readers
    BY <1>5, <2>1 DEF Readers
  <2>3. QED
    BY <1>1, <1>2, <2>2, Hidden
<1>8. CASE get'[g].pc = "ok"
  <2>1. ReadersFaithful' /\ TypeOK'
    BY NextIInv DEF IInv
  <2>2. get'[g].out \in Seq(Content) /\ get'[g].list \in Seq(BlockId)
    BY <2>1 DEF TypeOK, ServiceTypeOK, Get
  <2>3. /\ Len(get'[g].out) = Len(get[g].list)
        /\ \A k \in 1 .. Len(get'[g].out) : get'[g].out[k] = Origin(get[g].list[k])
    BY <1>1, <1>8, <2>1 DEF ReadersFaithful, Origin
  <2>4. get[g].list # <<>>
    BY <1>0, <1>1 DEF IInv, ReadersFaithful, Get
  <2>5. get'[g].out = Wanted(g)
    <3>1. Wanted(g) = [k \in 1 .. Len(get[g].list) |-> Origin(get[g].list[k])]
      BY <1>1, <2>2, <2>4 DEF Wanted
    <3>2. get'[g].out = [k \in 1 .. Len(get'[g].out) |-> get'[g].out[k]]
      BY <2>2
    <3>3. QED
      BY <2>3, <3>1, <3>2
  <2>6. ReaderOf(g)' = [phase |-> "ok", want |-> Wanted(g), got |-> Wanted(g)]
    BY <1>4, <1>8, <2>5 DEF ReaderOf
  <2>7. Readers' = [Readers EXCEPT ![g].phase = "ok", ![g].got = Readers[g].want]
    <3> DEFINE R == [Readers EXCEPT ![g].phase = "ok", ![g].got = Readers[g].want]
    <3>1. Readers[g] = [phase |-> "reading", want |-> Wanted(g), got |-> None]
      BY <1>6 DEF Readers
    <3>2. R[g] = [phase |-> "ok", want |-> Wanted(g), got |-> Wanted(g)]
      <4> DEFINE S == [Readers EXCEPT ![g].phase = "ok"]
      <4>1. S[g] = [phase |-> "ok", want |-> Wanted(g), got |-> None] /\ DOMAIN S = GetReq
        BY <3>1 DEF Readers
      <4>2. R = [S EXCEPT ![g].got = Readers[g].want]
        OBVIOUS
      <4> HIDE DEF S, R
      <4>3. R[g] = [S[g] EXCEPT !.got = Wanted(g)]
        BY <3>1, <4>1, <4>2
      <4>4. QED
        BY <4>1, <4>3
    <3>3. \A h \in GetReq : ReaderOf(h)' = R[h]
      <4>1. \A h \in GetReq \ {g} : R[h] = ReaderOf(h)
        BY DEF Readers
      <4>2. QED
        BY <1>5, <2>6, <3>2, <4>1
    <3>4. R = [h \in GetReq |-> R[h]]
      BY DEF Readers
    <3> HIDE DEF R
    <3>5. QED
      <4>1. Readers' = [h \in GetReq |-> R[h]]
        BY <3>3 DEF Readers
      <4>2. QED
        BY <3>4, <4>1 DEF R
  <2>8. Readers[g].phase = "reading"
    BY <1>6 DEF Readers
  <2>9. Files!ReadEnd(g)
    BY <1>2, <2>7, <2>8 DEF Files!ReadEnd, Map, Writers, Removers, Readers
  <2>10. QED
    BY <2>9 DEF Files!Next
<1>9. QED
  BY <1>1, <1>7, <1>8

LEMMA GetSteps ==
    ASSUME IInv, [Next]_vars, NEW g \in GetReq, GetList(g) \/ GetStep(g)
    PROVE  [Files!Next]_Files!vars
<1>1. CASE GetList(g)
  BY <1>1, GetListReads DEF Files!Next
<1>2. CASE GetBlock(g)
  BY <1>2, GetBlockReads
<1>3. CASE GetBroken(g)
  <2>1. /\ get[g].pc \in {"idle", "read"} /\ get' = [get EXCEPT ![g].pc = "broken"]
        /\ files' = files /\ put' = put /\ del' = del
    BY <1>3 DEF GetBroken, dbVars
  <2>2. \A h \in GetReq : get'[h] = IF h \in {g} THEN [get[h] EXCEPT !.pc = "broken"]
                                                ELSE get[h]
    BY <2>1 DEF IInv, TypeOK, ServiceTypeOK
  <2>3. \A p \in PutReq : put'[p] = IF p \in {}
            THEN [put[p] EXCEPT !.pc = "failed", !.rank = NoRank] ELSE put[p]
    BY <2>1
  <2>4. \A d \in DelReq : RemoverOf(d)' = RemoverOf(d)
    BY <2>1 DEF RemoverOf
  <2>5. {} \in SUBSET PutReq /\ {g} \in SUBSET {h \in GetReq : get[h].pc \in {"idle", "read"}}
    BY <2>1
  <2>6. Files!Fail
    BY <2>1, <2>2, <2>3, <2>4, <2>5, CutOff
  <2>7. QED
    BY <2>6 DEF Files!Next
<1>4. QED
  BY <1>1, <1>2, <1>3 DEF GetStep

-----------------------------------------------------------------------------
(* The steps nobody sees, and the theorem.                                 *)

LEMMA CrashSteps ==
    ASSUME IInv, [Next]_vars, BlockCrash
    PROVE  Files!Fail
<1> DEFINE P == {p \in PutReq : put[p].pc \in {"store", "update", "tx", "message"}}
           G == {g \in GetReq : get[g].pc = "read"}
<1>1. files' = files
  BY DEF BlockCrash, dbVars
<1>2. \A d \in DelReq : RemoverOf(d)' = RemoverOf(d)
  <2>1. \A d \in DelReq : del[d] \in Delete
    BY DEF IInv, TypeOK, ServiceTypeOK
  <2>2. \A d \in DelReq : /\ del'[d].status = del[d].status
                          /\ del'[d].pc = "idle" <=> del[d].pc = "idle"
    <3> SUFFICES ASSUME NEW d \in DelReq
                 PROVE  /\ del'[d].status = del[d].status
                        /\ del'[d].pc = "idle" <=> del[d].pc = "idle"
      OBVIOUS
    <3>1. del'[d] = IF del[d].pc = "purge" THEN [del[d] EXCEPT !.pc = "done", !.left = {}]
                    ELSE del[d]
      BY DEF BlockCrash
    <3>2. QED
      BY <2>1, <3>1 DEF Delete
  <2>3. QED
    BY <2>2 DEF RemoverOf
<1>3. \A p \in PutReq : put'[p] = IF p \in P
        THEN [put[p] EXCEPT !.pc = "failed", !.rank = NoRank] ELSE put[p]
  BY DEF BlockCrash
<1>4. \A g \in GetReq : get'[g] = IF g \in G THEN [get[g] EXCEPT !.pc = "broken"]
                                           ELSE get[g]
  BY DEF BlockCrash
<1>5. P \in SUBSET PutReq /\ G \in SUBSET {g \in GetReq : get[g].pc \in {"idle", "read"}}
  OBVIOUS
<1>6. QED
  <2> HIDE DEF P, G
  <2> QED
    BY <1>1, <1>2, <1>3, <1>4, <1>5, CutOff

LEMMA UnseenSteps ==
    ASSUME IInv, [Next]_vars, UNCHANGED <<files, put, del, get>>
    PROVE  UNCHANGED Files!vars
<1>1. Writers' = Writers /\ Removers' = Removers
  BY DEF Writers, WriterOf, WriterPhase, Removers, RemoverOf
<1>2. QED
  BY <1>1, ReadersSteady, Hidden

LEMMA StepIsFileStep ==
    ASSUME IInv, [Next]_vars
    PROVE  [Files!Next]_Files!vars
<1>1. ASSUME NEW p \in PutReq, PutAction(p)
      PROVE  [Files!Next]_Files!vars
  BY <1>1, PutSteps DEF PutAction
<1>2. ASSUME NEW d \in DelReq, DelAction(d)
      PROVE  [Files!Next]_Files!vars
  BY <1>2, DeleteSteps DEF DelAction, DelStep
<1>3. ASSUME NEW g \in GetReq, GetAction(g)
      PROVE  [Files!Next]_Files!vars
  BY <1>3, GetSteps DEF GetAction
<1>4. ASSUME NEW p \in PutReq, JobAction(p)
      PROVE  UNCHANGED <<files, put, del, get>>
  BY <1>4 DEF JobAction, JobStep, HandlerStep, FileQuery, Lookup, LookupError, Compare, Link,
              LinkFails, LinkUnanswered, PurgeOwn, Break, BreakFails, Sweep, Lose,
              dbVars, serviceVars
<1>5. CASE Crash
  <2>1. CASE ChainCrash
    BY <2>1, UnseenSteps DEF ChainCrash, dbVars, serviceVars
  <2>2. CASE BlockCrash
    BY <2>2, CrashSteps DEF Files!Next
  <2>3. QED
    BY <1>5, <2>1, <2>2 DEF Crash
<1>6. CASE Rest \/ UNCHANGED vars
  BY <1>6, UnseenSteps DEF Rest, vars, dbVars, serviceVars
<1>7. QED
  BY <1>1, <1>2, <1>3, <1>4, <1>5, <1>6, UnseenSteps DEF Next

\* Clients of nocopy cannot tell it from a map of files: a PUT replaces its
\* file at the commit of Repository.Update, a DELETE removes it at the commit of
\* Repository.Delete, a GET answers with the upload its list was read from
\* although Chain.File relinks and purges blocks meanwhile.
THEOREM Implements == Spec => IsFileStore
  BY InitIInv, InitFiles, Faithful, StepIsFileStep, PTL DEF Spec, IsFileStore, Files!Spec

=============================================================================
