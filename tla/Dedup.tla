--------------------------------- MODULE Dedup ---------------------------------
(***************************************************************************)
(* Why deduplication loses nothing while PUTs commit one at a time and     *)
(* calls do not fail: the invariants behind NoLoss, RefersExact,           *)
(* StoreMatchesRows, DedupComplete and NothingLeftBehind.  Blocks only     *)
(* ever move to the oldest row that holds the same, so a row that others   *)
(* were moved to has nowhere to go, and the one that is purged was         *)
(* nobody's but its own.                                                   *)
(***************************************************************************)
EXTENDS NoCopy

\* When this holds; the runs pool (two connections) and what an error does to
\* Compare show that neither part can be left out.
Serial == MaxOpen = 1 /\ "error" \notin Faults

Alike(a, b) == Origin(a) = Origin(b)

Older(a, b) == blocks[a].rank < blocks[b].rank

\* There is no older row that holds the same.
Oldest(b) == \A a \in BlockId : Exists(a) /\ Alike(a, b) => ~Older(a, b)

-----------------------------------------------------------------------------
(* Rows *)

\* A row has a link exactly as long as an object is needed: what is linked has a
\* row (links_block_id_fk), and what has a row was committed and is stored.
RowsFaithful ==
    \A b \in BlockId :
        /\ Linked(b) => Exists(b)
        /\ Exists(b) => /\ Committed(b[1])
                        /\ Uploaded(b)
                        /\ Stored(b)
                        /\ blocks[b].hash = Digest[Origin(b)]

InTx(p) == put[p].pc = "tx"

\* One PUT at a time is in its transaction, and what it inserts is younger than
\* what there is (the default of blocks.updated).
RanksOrdered ==
    /\ \A b \in BlockId : Exists(b) => blocks[b].rank <= now
    /\ \A a, b \in BlockId : Exists(a) /\ Exists(b) /\ a # b => blocks[a].rank # blocks[b].rank
    /\ \A p \in PutReq : InTx(p) =>
        /\ \A r \in PutReq : InTx(r) => r = p
        /\ \A j, k \in 1 .. MaxBlocks : put[p].rank[j] = put[p].rank[k] => j = k
        /\ \A k \in 1 .. MaxBlocks :
            /\ put[p].rank[k] <= now
            /\ \A b \in BlockId : Exists(b) => blocks[b].rank < put[p].rank[k]

\* What another chain is linked to, or is counted twice, is the oldest.
SharedIsOldest ==
    \A b \in BlockId :
        blocks[b].refer > 1 \/ (\E c \in PutReq \ {b[1]} : LinksTo(c, b) # {}) => Oldest(b)

-----------------------------------------------------------------------------
(* Objects *)

\* An upload under way has its objects.
UploadsStored ==
    \A p \in PutReq : put[p].pc \in {"store", "update", "tx"} =>
        \A k \in 1 .. put[p].n : Stored(<<p, k>>)

\* What is about to be purged had a row, and has it no more.
Gone(b) == Committed(b[1]) /\ ~Exists(b)

PurgedIsGone ==
    /\ \A p \in PutReq : job[p].pc = "purge" => Gone(Own(p))
    /\ \A p \in PutReq : \A b \in job[p].left : Gone(b)
    /\ \A d \in DelReq : \A b \in del[d].left : Gone(b)

-----------------------------------------------------------------------------
(* Handlers *)

HasOwn(p) == LinksTo(p, Own(p)) # {}

\* The candidates that hold what the own block holds.
Twins(p) == {r \in job[p].similar : Alike(r.id, Own(p))}

\* A candidate is what its row was when it was listed.
Listed(p) ==
    \A r \in job[p].similar :
        /\ r.refer > 0
        /\ Committed(r.id[1]) /\ Uploaded(r.id)
        /\ Exists(r.id) => blocks[r.id].rank = r.rank

\* A twin that was counted twice was the oldest.
SharedFirst(p) == \A r, t \in Twins(p) : r.refer > 1 => r.rank <= t.rank

\* The twins are older than the own block, ...
TwinsOlder(p) == \A r \in Twins(p) : r.rank < blocks[Own(p)].rank

\* ... the list still has every older row that holds the same, but for the one
\* that is about to be linked, ...
NoneMissed(p) ==
    \A a \in BlockId : Exists(a) /\ Alike(a, Own(p)) /\ Older(a, Own(p)) =>
        \/ \E r \in job[p].similar : r.id = a
        \/ job[p].pc = "link" /\ job[p].new = a

\* ... and that one is older than the twins left.
NewFirst(p) ==
    job[p].pc = "link" /\ Exists(job[p].new) =>
        /\ Older(job[p].new, Own(p))
        /\ \A t \in Twins(p) : blocks[job[p].new].rank <= t.rank

CandidatesOrdered ==
    \A p \in PutReq : job[p].pc \in {"compare", "link"} =>
        /\ Listed(p)
        /\ SharedFirst(p)
        /\ job[p].pc = "link" => Committed(job[p].new[1])
        /\ HasOwn(p) => TwinsOlder(p) /\ NoneMissed(p) /\ NewFirst(p)

SerialInv ==
    /\ RowsFaithful
    /\ RanksOrdered
    /\ SharedIsOldest
    /\ UploadsStored
    /\ PurgedIsGone
    /\ CandidatesOrdered

-----------------------------------------------------------------------------
(* Counts *)

\* The places where block b is linked.
Places(b) == {l \in PutReq \X (1 .. MaxBlocks) : l[2] \in LinksTo(l[1], b)}

PlacesCounted ==
    \A b \in BlockId : IsFiniteSet(Places(b)) /\ blocks[b].refer = Cardinality(Places(b))

-----------------------------------------------------------------------------
(* Nothing forgotten: when no answer is lost and no service stops, either. *)

\* At worst a message gets lost.
Steady == Faults \subseteq {"lost"}

\* A message finds its handler at rest: it is sent once and delivered once.
MessageFirst ==
    \A p \in PutReq : put[p].pc # "done" \/ p \in mail => job[p].pc = "idle"

Accepted(p) == put[p].pc \in {"message", "done"}

\* Somebody is about to purge block b.
Purging(b) ==
    \/ job[b[1]].pc = "purge" /\ Own(b[1]) = b
    \/ \E p \in PutReq : b \in job[p].left
    \/ \E d \in DelReq : b \in del[d].left

\* A committed block has a row, or its object is gone or soon will be; an upload
\* that was not committed keeps its objects.
NothingForgotten ==
    /\ \A p \in PutReq : job[p].pc # "sweep" => job[p].left = {}
    /\ \A d \in DelReq : del[d].pc # "purge" => del[d].left = {}
    /\ \A b \in BlockId :
        /\ Exists(b) \/ Purging(b) => Accepted(b[1])
        /\ Stored(b) /\ Accepted(b[1]) => Exists(b) \/ Purging(b)
    /\ \A p \in PutReq : ~Accepted(p) => \A k \in 1 .. put[p].n : Stored(<<p, k>>)

\* The handler of the chain that block b was uploaded for has yet to come to b,
\* or to an end with it.
Pending(b) ==
    LET p == b[1] IN
    \/ put[p].pc = "message" \/ p \in mail
    \/ AtBlock(p) /\ job[p].i < b[2]
    \/ AtBlock(p) /\ job[p].i = b[2] /\ job[p].pc # "purge"

\* Of two rows that hold the same the younger is still to be moved.
TwinsPending ==
    \A a, b \in BlockId :
        Exists(a) /\ Exists(b) /\ Alike(a, b) /\ Older(a, b) => Pending(b)

-----------------------------------------------------------------------------
(* Nothing left behind: when nothing fails at all, deadlocks included.     *)

\* The handler of PUT p has yet to break the chain that p replaced.
Breaking(p) ==
    put[p].pc = "message" \/ p \in mail \/ AtBlock(p) \/ job[p].pc = "break"

\* A chain is current for one path at most; what was replaced was committed and is
\* current no longer.
ReplacedOnce ==
    /\ \A q, r \in Path : files[q].chain # None /\ files[q].chain = files[r].chain => q = r
    /\ \A p \in PutReq : Old(p) # None => Committed(Old(p)) /\ ~Current(Old(p))

\* And a chain that has links is current, or there is a handler that will break it.
ReplacedPending ==
    /\ ReplacedOnce
    /\ \A c \in PutReq : links[c] # <<>> =>
            Current(c) \/ \E p \in PutReq : Old(p) = c /\ Breaking(p)

\* No Break is the victim of a deadlock.
NoVictim == \A p \in PutReq : BreakFails(p) => ~Deadlocks(Old(p), DelReq)

=============================================================================
