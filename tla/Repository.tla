------------------------------ MODULE Repository ------------------------------
(***************************************************************************)
(* The PostgreSQL repository of nocopy: the tables files, chains, links    *)
(* and blocks of repository/postgres/postgres.sql and the stored functions *)
(* the Go methods of repository/postgres/postgres.go call.                 *)
(*                                                                         *)
(* One call is one transaction.  Under READ COMMITTED the row locks taken  *)
(* by the statements (select ... for update on files, update on blocks,    *)
(* update/delete on links) make conflicting calls wait for one another and *)
(* re-read the rows they waited for, so a call is modelled as one atomic   *)
(* step at its commit.  The one thing that is NOT fixed at the commit is   *)
(* blocks.updated: its default now() is the start of the transaction,      *)
(* which is why a row carries a rank drawn earlier (DrawRanks).            *)
(*                                                                         *)
(* Identifiers are fresh UUIDs.  A PUT request names the chain it creates  *)
(* and the files row it inserts; the k-th block it stores is <<p, k>>.     *)
(***************************************************************************)
EXTENDS Naturals, Sequences, FiniteSets

CONSTANTS
    Path,       \* names of files (files.path)
    PutReq,     \* PUT requests
    MaxBlocks,  \* a bound on the blocks one PUT stores
    Hash,       \* values of the pair (hash, size)
    None        \* SQL NULL and uuid.Nil: no file row, no chain, no hash

ASSUME MaxBlocksAssumption == MaxBlocks \in Nat \ {0}

VARIABLES
    files,   \* files[q]: id and chain_id of the row with path q
    links,   \* links[c]: the block_id of every ordinal of chain c
    blocks,  \* blocks[b]: hash, refer, rank of the row; refer = 0: no row
    now      \* how many ranks have been drawn

dbVars == <<files, links, blocks, now>>

BlockId == PutReq \X (1 .. MaxBlocks)

ASSUME NoneAssumption == None \notin PutReq /\ None \notin Hash /\ None \notin BlockId

NoRow == [hash |-> None, refer |-> 0, rank |-> 0]

FileRow == [id : PutReq \cup {None}, chain : PutReq \cup {None}]
BlockRow == [hash : Hash \cup {None}, refer : Nat, rank : Nat]

RepositoryTypeOK ==
    /\ files \in [Path -> FileRow]
    /\ links \in [PutReq -> Seq(BlockId)]
    /\ blocks \in [BlockId -> BlockRow]
    /\ now \in Nat

RepositoryInit ==
    /\ files = [q \in Path |-> [id |-> None, chain |-> None]]
    /\ links = [c \in PutReq |-> <<>>]
    /\ blocks = [b \in BlockId |-> NoRow]
    /\ now = 0

-----------------------------------------------------------------------------
(* Rows *)

Exists(b) == blocks[b].refer > 0

\* The ordinals of chain c at which block b is linked.
LinksTo(c, b) == {k \in DOMAIN links[c] : links[c][k] = b}

\* blocks.updated, then blocks.id: the order of the rows of equal refer.  All
\* rows of one transaction share now(), and their random ids order them, so a
\* transaction draws MaxBlocks consecutive ranks in an arbitrary permutation.
RankDraws ==
    {r \in [1 .. MaxBlocks -> (now + 1) .. (now + MaxBlocks)] :
        \A j, k \in 1 .. MaxBlocks : r[j] = r[k] => j = k}

DrawRanks == now' = now + MaxBlocks

-----------------------------------------------------------------------------
(* file_insert(path): the row of the path, inserted when it is missing.    *)

FileId(q, p) == IF files[q].id = None THEN p ELSE files[q].id

FileInsert(q, p) == files' = [files EXCEPT ![q].id = FileId(q, p)]

(* file_select(path): the blocks of the current chain, by ordinal.  The    *)
(* join with blocks drops no link: the foreign key links_block_id_fk.      *)

FileSelect(q) == IF files[q].chain = None THEN <<>> ELSE links[files[q].chain]

(* block_insert(file, blocks, hashes, sizes): a new chain with its links   *)
(* and block rows becomes the chain of the file with this id; the          *)
(* exception 'not found' undoes all of it when there is no such file.      *)

FilesWithId(f) == {q \in Path : files[q].id = f}

BlockInsert(q, c, hashes, ranks) ==
    /\ links' = [links EXCEPT ![c] = [k \in 1 .. Len(hashes) |-> <<c, k>>]]
    /\ blocks' = [b \in BlockId |->
            IF b[1] = c /\ b[2] <= Len(hashes)
            THEN [hash |-> hashes[b[2]], refer |-> 1, rank |-> ranks[b[2]]]
            ELSE blocks[b]]
    /\ files' = [files EXCEPT ![q].chain = c]

(* block_select(hash, size): the rows "order by refer desc, updated, id",  *)
(* each with the values the order was computed from.                       *)

Before(r, s) ==
    \/ r.refer > s.refer
    \/ r.refer = s.refer /\ r.rank < s.rank

BlockSelect(h) ==
    {[id |-> b, refer |-> blocks[b].refer, rank |-> blocks[b].rank] :
        b \in {x \in BlockId : Exists(x) /\ blocks[x].hash = h}}

(* block_update(chain, o, n): relinks the chain from block o to block n.   *)
(* It raises 'not found' when n has no row or the chain no link to o, and  *)
(* the foreign key forbids deleting the row of o while it is linked.       *)

ForeignKeyHolds(b, c) == \A d \in PutReq \ {c} : LinksTo(d, b) = {}

DropsOld(o) == blocks[o].refer = 1

CanRelink(c, o, n) ==
    /\ Exists(n)
    /\ LinksTo(c, o) # {}
    /\ DropsOld(o) => ForeignKeyHolds(o, c)

\* Slip: every link of the chain moves, "and block_id = o_block_id" forgotten.
BlockUpdateWholeChain(c, o, n) ==
    /\ links' = [links EXCEPT ![c] = [k \in DOMAIN links[c] |-> n]]
    /\ blocks' = [b \in BlockId |->
            CASE b = n -> [blocks[n] EXCEPT !.refer = @ + 1]
              [] b = o /\ b # n /\ DropsOld(o) -> NoRow
              [] OTHER -> blocks[b]]

\* Slip: the block that is kept is not counted up.
BlockUpdateUncounted(c, o, n) ==
    /\ links' = [links EXCEPT ![c] =
            [k \in DOMAIN links[c] |-> IF links[c][k] = o THEN n ELSE links[c][k]]]
    /\ blocks' = [b \in BlockId |-> IF b = o /\ b # n /\ DropsOld(o) THEN NoRow
                                     ELSE blocks[b]]

BlockUpdate(c, o, n) ==
    /\ links' = [links EXCEPT ![c] =
            [k \in DOMAIN links[c] |-> IF links[c][k] = o THEN n ELSE links[c][k]]]
    /\ blocks' = [b \in BlockId |->
            CASE b = n -> [blocks[n] EXCEPT !.refer = @ + 1]
              [] b = o /\ b # n /\ DropsOld(o) -> NoRow
              [] OTHER -> blocks[b]]

(* block_delete(chain): unlinks the chain and counts every link down; a    *)
(* row that reaches zero is deleted and its id returned.  Foreign keys     *)
(* abort it when such a row is still linked, or the chain still current.   *)

\* Slip: a row that reaches zero is not recognised.
FreedBelowZero(c) ==
    {b \in BlockId : /\ LinksTo(c, b) # {}
                     /\ blocks[b].refer < Cardinality(LinksTo(c, b))}

\* Slip: a block linked twice is counted down once.
FreedOnce(c) == {b \in BlockId : LinksTo(c, b) # {} /\ blocks[b].refer = 1}

Freed(c) ==
    {b \in BlockId : /\ LinksTo(c, b) # {}
                     /\ blocks[b].refer <= Cardinality(LinksTo(c, b))}

CanDelete(c, qs) ==
    /\ \A b \in Freed(c) : ForeignKeyHolds(b, c)
    /\ \A q \in Path \ qs : files[q].chain # c

\* The link of chain c to block b whose turn comes last: the order in which
\* "delete ... returning" yields the links is open.
LastTurn(c, b) == CHOOSE k \in LinksTo(c, b) : TRUE

\* The turn of the k-th link deletes the row it leads to.
FreesAt(c, k) == links[c][k] \in Freed(c) /\ k = LastTurn(c, links[c][k])

\* Slip: a row that stays adds nothing to the list, instead of a NULL.
DeletedNoNulls(c) ==
    [k \in {j \in DOMAIN links[c] : FreesAt(c, j)} |-> links[c][k]]

\* What block_delete returns: an entry per link, the id of the row whose last
\* count it was, NULL for a row that stays.
Deleted(c) == [k \in DOMAIN links[c] |-> IF FreesAt(c, k) THEN links[c][k] ELSE None]

\* The ids of such a list; NULL is read as uuid.Nil, which names no object.
Ids(list) == {list[k] : k \in DOMAIN list} \ {None}

\* Slip: a block linked twice by the chain is counted down once.
BlockDeleteOnce(c) ==
    /\ links' = [links EXCEPT ![c] = <<>>]
    /\ blocks' = [b \in BlockId |->
            CASE LinksTo(c, b) = {} -> blocks[b]
              [] b \in Freed(c) -> NoRow
              [] OTHER -> [blocks[b] EXCEPT !.refer = @ - 1]]

BlockDelete(c) ==
    /\ links' = [links EXCEPT ![c] = <<>>]
    /\ blocks' = [b \in BlockId |->
            CASE LinksTo(c, b) = {} -> blocks[b]
              [] b \in Freed(c) -> NoRow
              [] OTHER -> [blocks[b] EXCEPT !.refer = @ - Cardinality(LinksTo(c, b))]]

(* file_delete(path): deletes the files row, then the chain it named.      *)

FileRemove(q) == files' = [files EXCEPT ![q] = [id |-> None, chain |-> None]]

=============================================================================
