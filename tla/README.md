# nocopy, in TLA+

nocopy is a file store. A *block service* answers HTTP (PUT, GET, HEAD, DELETE),
cuts uploads into blocks, keeps the blocks as objects in MinIO and the file
tables in PostgreSQL. After a PUT it sends a `file` message, through a *proxy
service*, to a *chain service*, which looks for blocks that hold the same bytes,
relinks the new file's chain to them and purges the copies. This directory
models that program, checks the models with TLC and proves the central ones with
TLAPS.

    tlc -config dedup.cfg MCNoCopy.tla       # a run: see the table of runs
    tlapm NoCopyProofs.tla                   # the proofs

## Inventory

| Part | State it keeps | Operations | What it talks to |
|---|---|---|---|
| PostgreSQL schema (`repository/postgres/*.sql`, `postgres.go`) | tables `files`, `chains`, `links`, `blocks` | `file_insert`, `block_insert`, `file_select`, `block_select`, `block_update`, `block_delete`, `file_delete` | called by block and chain service, 12 connections each unless the URL says otherwise |
| Object store (`storage/`) | an object per block id | `Store`, `Load`, `Purge` | the same |
| Block service (`service/{block,put,get,delete,head}.go`) | locals of one goroutine per request | PUT, GET, HEAD, DELETE | database, objects, broker |
| Chain service (`service/{chain,file,head}.go`) | locals of one goroutine per message | `FileQuery`/`File`, `HeadQuery` | database, objects, broker |
| Proxy service (`service/{proxy,head,file,echo}.go`) | none | forward queries, send answers backward | broker |
| Exchange (`broker/exchange`, `internal/map.go`) | topics, children, replies, the finish flag | `Message`, `Request`, `Send`, `Do`, `Run`, `Listen`, `Finish`, `Shutdown` | NATS |
| Message (`broker/message`) | none | builder, addresses, `Encode` and `Decode` of frames | middleware |
| Middleware (`service/middleware.go`) | the user, in contexts | `Authorize`, `Signature`: write, read and refuse parts of frames | frames |
| NATS transport (`broker/transport/nats`) | subscriptions | `Publish`, `Subscribe`, `QueueSubscribe`, `Unsubscribe` | external server |
| Ranges (`internal/multipart`, `io.CopyRange`) | locals of a GET | `ParseRange`, `BlocksOfRange`, part headers | - |
| Echo (`service/echo.go`) | a queue of slots, a channel of numbers, a wait group | a load generator: a loop, workers, a catcher | broker |
| Logging, compression, flags, API types | - | wording and plain I/O | - |

Handlers share no memory: what makes this hard is that a request is several
calls to two stores that know nothing of each other, that deduplication rewrites
chains under the feet of requests, and that the message that starts it may be
late, lost or handled by another process. Per part, the behaviours that are hard
and what makes it correct:

* **Database.** Transactions commit in an order that differs from their `now()`;
  reference counts are kept by three functions at once; `block_update` and
  `block_delete` lock rows in different orders and deadlock. Correct: counts
  equal links, a row lives exactly as long as its links.
* **PUT / GET / DELETE.** Each may stop between any two calls. Correct: together
  with everything behind them they behave as an atomic map of files.
* **Chain service.** Compares objects now and relinks later; purges what it
  thinks nobody needs. Correct: chains keep spelling their upload, linked blocks
  keep their objects, nothing is left behind.
* **Exchange.** Timeouts race late answers; `Finish` races requests, callbacks
  and goroutines. Correct: an answer reaches its own request once, every request
  returns, every `Finish` returns.
* **Routing.** The way back is computed hop by hop, over queue groups. Correct:
  nothing waits for nothing.
* **Frames and middleware.** Parts have places and no names; either side may use
  middleware the other has not, some of it mandatory. Correct: a frame is
  understood exactly by those who should, and the user of a context survives
  every hop.
* **Topics.** A process listens on every prefix of its address, in a queue group
  and for broadcasts. Correct: one process is reached by a query, each by a
  broadcast, once; nobody answers a broadcast.
* **Echo.** A loop, workers and answers wait for one another. Correct: slots are
  given back exactly once, everything comes back, the end is reached.
* **Ranges.** Relative seeks and lengths at block boundaries; a length counted
  before anything is written. Correct: the answer is the ranges, as long as
  announced.

The hazards, each at its line, are listed in `PROJECT.json`.

## Modules

    FileStore          what clients are promised           (abstract)
    NoCopy             the store: everything below together
      ChainService     Chain.File and its messages
        BlockService   PUT, GET, DELETE
          Repository   the tables and their functions
          Storage      the objects
    MCNoCopy           small instances for TLC
    Dedup              why deduplication loses nothing: its invariants
    NoCopyProofs       theorems: the invariant, NoCopy implements FileStore
    DedupProofs        theorems: no loss, exact counts
    RestProofs         theorems: what is left when all is done

    Rpc                what a caller is promised           (abstract)
    Routing            HEAD and "file" through the services; start, stop, crash
      Exchange         exchanges and the NATS server between them
        Message        addresses of messages
    MCRouting          small instances for TLC
    MessageProofs      theorems: addresses
    RoutingProofs      theorems: traces, sources, Routing implements Rpc

    Broker             topics, broadcasts and contexts, as users of exchanges see them
      Frames           Encode and Decode with middleware
        Message        addresses of messages
    MCBroker           a small instance for TLC
    BrokerProofs       theorems: users, frames, broadcasts, delivery

    Echo               the load generator
    EchoProofs         theorems: slots, and what comes back
    Ranges             GET with a Range header
    RangesProofs       theorems: the right bytes, as many as announced

### Repository, Storage

`files`, `links` and `blocks` are the tables, as functions; a chain is named by
the PUT that makes it and a block by that PUT and its position, since the code
draws a fresh uuid for each. `Deleted(c)` is the list that `block_delete`
returns: an entry per link of the chain, the id of a row at the turn that took
its last count, `None` for NULL at any other. `Delete` takes the empty list, and
only that, for "not found" (`DeleteStatus`), and purges its `Ids`; `Break` gets
the same list. Each stored function is one action, as one
statement is one transaction, with two exceptions. `block_insert` has a start,
where `now()` is fixed, and a commit, because `block_select` orders candidates
by `blocks.updated` and ties are broken by random ids: `DrawRanks` gives the
blocks of a transaction ranks that respect the order of starts and are otherwise
arbitrary. `MaxOpen` bounds the transactions between the two, the pool's limit.
And where two transactions lock rows in opposite orders the server aborts one:
`Deadlocks` in ChainService says when (`block_update` of a relinking against
`block_delete`, or two `block_delete` that share two blocks), and the victim
gets an error. Foreign keys are guards: a transaction that would break one is
the failing branch of its caller.

### BlockService, ChainService, NoCopy

One record per request (`put`, `del`, `get`) and one per message (`job`) holds
the program counter and the locals. A step is one call to the database, the
object store or the broker: goroutines share nothing, so they interleave only
there. `PutFile, PutStore*, PutBegin, PutCommit, PutMessage` is the loop of
put.go; `Lookup, Compare, Link, PurgeOwn, Break, Sweep` is Chain.File, with its
early `continue`s in `AfterBlock` and `LookupError`; it ends `"done"`, or
`"failed"` when `Break` did, which is not tried again. A content stands for the
bytes of a block; `Digest` maps it to its hash and size, and two contents of the
instances share one, so only `Compare` tells them apart. `put[p].body` keeps
what was uploaded, to say what the program must preserve; `Origin(b)` is the
content block `b` was stored with.

`Faults` selects what may fail: `"error"` (a call fails without effect),
`"reply"` (a transaction commits and its answer is lost), `"lost"` (the message
is lost), `"crash"` (a service stops; its handlers end where they are and the
stores stay).

### Exchange, Routing

A node is a process with a role, its subject and queue group. `net` holds the
messages on their way, `inbox[n]` what the client of n has buffered, `child[n]`
the goroutines of `Do`, `reply[n]` the map of outstanding requests and
`answer[i]` the channel of request i. `caller[i]` is the HTTP handler behind
message i. `phase[n]` follows Run, Finish and Shutdown: `Finish` drops the
topics and the client's buffer, but for a callback that is under way; the two
waits follow, replies first, as the defers run. The contexts of all children
derive from the one Listen was given, which is done before (`Signal`, phase
`stopped`), so children that are stored later start cancelled (`Cancelled`) and
the cancelling loop of `Finish` adds nothing. Between the topic read of `Request` and its `Store` there is a step,
because Finish may come between; between `Store` and `Send` there is none, since
nobody can answer before. The end of `Run`, `child.Delete`, is one step with its
last effect: no other process can tell them apart. A handler that a message
reaches before `Chain.Run` has opened the database ends the process
(`NoRepository`). Handlers on a block service may begin while it finishes:
`Server.Shutdown` waits for them, and `Run` for it, but only after
`Broker.Finish`.

### Frames, Broker

`Encode` and `Decode` are operators on records: a frame has the message, the
names of the sender's middleware, a part for each and the digest in the header.
A part knows in the model which middleware wrote it; `Accepts` and `UserIn` use
that only for what the text of a part would tell (a part of another middleware
is valid JSON and changes nothing). Decode walks the receiver's middleware and
takes the next part for each that the sender named, as the code does:
`Expected` are the places of these, and `Part` is the part with the number of
expected places so far. That this pairs each part with its own writer holds
because all stacks name their middleware in one order and none has a name twice
(`StacksAssumption`, what `UseMiddleware` is given in the services); it is
proved (`PartIs`).
Answers and failures carry no middleware (message.go:283).

Broker looks at exchanges from above: an address has several words, and
`Subjects`, `Queue` and `Wide` are the subscriptions of Listen. `net` holds each
frame with the set of exchanges the server may hand it to: one set for a queue
group, one of a single member for each wide subscription, never the connection
that sent it. `child` holds the goroutines with their context: the message that
made it, which silences a broadcast, and the user. Handlers of relays pass on,
others answer or fail; `call[i]` and `handled[i]` record what the sender knows
and who served it. Timeouts, failures and stops are in Exchange and are not
repeated here. `via`, which no frame of the code has, names the exchanges a
message came through: two answers to a broadcast, passed on by two relays to one
server, are equal in the code and two on the wire, and `via` keeps them two in
the set.

### Echo

`main` is the loop of echo.go with its own `i`, `quantity` and `concurrency`,
`worker` the goroutines, `c` the channel of numbers, `q` the slots taken, `w` the
wait group and `msg[n]` what became of message n. A worker's `q <-` and `w.Add`
are two steps, since another may run between them; `<-q` and `w.Done` of the
catcher, and of a worker whose send failed, are one, since nobody waits for the
group before the loop has collected every worker. `Turn` looks at the context and `Give`,
`Collect` are the two arms of the inner select, which may take either when both
are ready. A returned `Echo` is `ended`, or `panicked` when there is nothing to
divide by; `exited` is the `os.Exit` of AfterFunc. Stop of a proxy that runs does
nothing (proxy.go:47-51), so a signal is only the cancelled context.

### Ranges

A GET as a loop: `Parse` sorts, refuses and plans; `Piece` is a turn of the
inner loop, with the part header when one is due, the relative seek (`From`), what
CopyN finds of the object (`Copied`; less than asked is an error) and the
counters; `Block` opens the next block; `Broken` is a read error; `Footer` ends.
Bytes are numbered by their place in the file; a header and the footer are one
item of `out` each, and `sent` counts all bytes of all of them. `HeaderLength`
and `FooterLength` follow WriteHeader and WriteFooter line by line (`Width` is
what `%d` prints, `BoundaryLength` what `%020d` does), `ContentLength` counts
with the constants of get.go and with `Digits`, which divides by ten; `mime` is
the length of the file's type. Requests are what the (external) range parser
returns for a file of that size, ranges of no bytes (`bytes=-0`) included;
`Sorted` leaves open how ranges with one start are ordered, as the sort of the
code does.

Of a range of no bytes `LengthKept` says what the code does with it: it counts
its header (get.go:59-65), but finds no piece for it, so it never comes to the
header (get.go:107-115), the range stays in `ranges`, and the footer is not
written either (get.go:132). An answer of several ranges of which some are empty
is therefore shorter than its Content-Length, by `Missing`: those headers and the
footer. Nothing in the repository says what such a request should get, so it is
a term of the property and no finding.

Sums and concatenations (`EndOf`, `LengthOf`, `PlanOf`, and `Answer` of the
properties) are recursive functions.

## Runs

| Run | Instance | Shows |
|---|---|---|
| `dedup` | 3 PUTs of one-block files, 2 paths, 1 DELETE, commits in order of start, no failures | `ChainContent`, `NoLoss`, `RefersExact`, `NothingLeftBehind`, `DedupComplete` |
| `repeat` | 2 PUTs that repeat blocks (full full tail, full twin), 1 DELETE | `NoLoss`, `RefersExact`, `BreakAllowed`, `StoreMatchesRows`, `IsFileStore` where one chain links a block twice, with the deadlocks two-block chains make possible |
| `failures` | 2 PUTs of one block, DELETE, GET, all failures, commits in any order | `TypeOK`, `IInv`, `NotFoundMeansAbsent`, `IsFileStore` |
| `reclaim` | 2 PUTs of two-block files that share and repeat blocks, 1 path, 1 DELETE, calls fail, deadlocks; fair handlers | `ReplacedIsBroken` |
| `exchange` | 1 block, 2 proxies, 2 chains; 2 HEADs, 1 `file` message; timeouts only | `OneTrace`, `OneSource`, `WaitedFor`, `IsRpc` |
| `services` | 1 block, 1 proxy, 1 chain that starts late; 1 HEAD; everything stops, fails, crashes | `TypeOK`, `OneSource`, `IsRpc`, `RequestReturns`, `FinishReturns` |
| `ranges` | all files of 0 to 11 bytes in blocks of 4, all requests of 0 to 2 ranges in any order, empty ones included, types of 0 and 10 letters | `RightSoFar`, `LengthKept`, `PiecesFit` |
| `broker` | 2 clients, 2 relays and 2 servers in groups of two; 1 message of any kind to any subject; 7 stacks of middleware in any combination | `TypeOK`, `UserKept`, `Understood`, `Delivered`, `Silent` |
| `echo` | 2 workers, 4 messages, 2 slots; sends fail, messages get lost, a signal comes at any time | `SlotsMatch`, `AllCameBack`, `EchoReturns`, `CancelEnds` |
| `pool` | 3 PUTs of one content to 3 paths, 2 connections, no failures | **violated**: `FilesReadable` |
| `readers` | 2 PUTs, 1 GET | **violated**: `ReadersUndisturbed` |
| `replicas` | 2 blocks, 1 proxy, 1 chain, 1 HEAD, no failures | **violated**: `WaitedFor` |

Why the bounds are enough. A dangerous relinking takes two chains that pick each
other's block, and a third to pull a row between them; two paths give both
replacement and independence; a block that occurs twice in one chain and one
that ends an upload appear from three blocks on. Requests of the exchange meet
only in the reply map of their node, so two of one method and one of another are
all the kinds of meeting there are, and two members make a queue group. Three
blocks have a first, a middle and a last one, four bytes room for two pieces of
one block with a gap between them, and two ranges one header after another;
eleven bytes take numbers of one and of two digits, and the theorems of Ranges
know no such bounds. A GET that reads several blocks
while they are relinked and purged has too many states for TLC; `readers` and
`failures` have one of one block, and the theorem `Implements` has them all.
Messages of Broker meet only in NATS, which keeps them apart, so one is enough;
what its stacks differ in is an optional, a mandatory and a signing middleware,
alone and together, and two algorithms. Four messages are more than the channel
and the slots of Echo hold together, so that its loop, its workers and its
answers come to wait for one another, and two slots are lost one after the other.

`dedup`, `repeat` and `reclaim` have `MaxOpen = 1`: then PUTs commit in the order
in which they started, handlers agree which of two equal blocks is older, and
nothing is lost. This is not the default of the code, which is 12 (16, cut to three quarters
when the URL has no `max_idle`, postgres.go:94-102); `pool` shows what two
connections are enough for. The run of what clients see, `failures`, has
`MaxOpen = 2`, since a client never gets a wrong file in any
case: an object that was lost is a visible failure of a GET.

Symmetry: requests of one kind, paths, and nodes of one role are interchangeable
in all formulas; it is not used in the runs that check liveness, nor in `broker`
and `echo`.

For each property a *slip* (a definition marked so, used by no module) is a
plausible mistake in the code that the run would find: an uncounted reference, a
purge after a failed link, a hash that is trusted, a search that ends at the
first difference, a key that is left in the map, a proxy that forwards and
answers, and so on. `PROJECT.json` names them under `mutants`.

### What the violated runs say

* `pool`: Chain.File purges the object of its own block after every `Link`
  (file.go:94), although `block_update` keeps the row of that block when another
  chain was linked to it meanwhile (postgres.sql:139). With two PUTs whose
  transactions overlap, the handler of one is linked to the block of the other
  while the other moves away and purges it. A file that was answered 201 cannot
  be read. Errors do it without overlap (`"error"` with `MaxOpen = 1`
  violates `NoLoss`): a read error while comparing is reported as "different"
  (io.go:29), the handler goes on to a younger candidate, and that one's own
  handler, whose comparison succeeded, relinks and purges it. With `"lost"`,
  `"reply"` and `"crash"` and `MaxOpen = 1`, `NoLoss` holds.
* `readers`: GET reads its list of blocks once (get.go:25); a PUT's deduplication
  purges a block of it before the object is opened (get.go:86): the answer is cut
  short though nobody touched the file.
* `replicas`: Request is answered to the name `block`, which is also a queue
  group: with two block services the other one may get the answer, and drops it.

## What is promised: the refinements

`NoCopy!IsFileStore` says NoCopy implements FileStore: each PUT writes its file
at one instant (the commit of `block_insert`) and at most once, each DELETE
removes one at one instant, each GET returns the upload its file had when the
GET read the list, or fails; no other step of any service changes a file. The
mapping reads a file off its chain: `Assembled(c)` is the upload the links of c
lead to. That deduplication is a stuttering step is the content of it.

`Routing!IsRpc` says the same of calls: `Rpc` has a call that is served at most
once, whose success has the result it was served with, and which may fail.

## Fairness

`NoCopy!FairSpec` and `Routing!FairSpec` have weak fairness of the running
goroutines: Go schedules them, the calls they make return, and timers fire
(head.go:19 sets a minute). Nothing makes a client ask, a failure happen, NATS
deliver, or a service start or stop; what must hold in the end holds without. So
the fairness of the chain service is that of `HandlerStep`, what a handler does
once it has its message, and `ReplacedIsBroken` starts there: a handler that has
its message breaks the chain its PUT replaced, or ends because `Break` failed,
from an error or as the victim of a deadlock, which Chain.File does not try again
(file.go:115-118).

`Echo!FairSpec` has weak fairness of the loop, of each worker, of the exit, and
of the answer to each message: what NATS does not lose it delivers, and a proxy
answers. Nothing makes a send fail, a message get lost or a signal come. A wait
that nobody ends is not helped by any of it: `EchoReturns` excepts lost answers
and a queue of no slots, `CancelEnds` excepts as many lost answers as slots,
after which the loop is stuck in front of a worker that never comes
(echo.go:72-79).

## Proofs

`NoCopyProofs` proves for all constants - any set of requests and paths, any
contents and hashes, any `MaxOpen`, any faults - from the named
assumptions of the modules:

* `TypeCorrect`: `Spec => []TypeOK`;
* `Faithful`: `Spec => []IInv`, the inductive invariant;
* `ContentKept`: `Spec => []ChainContent`: deduplication never changes what a
  chain spells.

`ChainContent` is not inductive: `Link` relies on what `Compare` saw some steps
before. `IInv` says what survives of it. `ObjectsFaithful`: an object, while it
exists, holds what was uploaded under its id, so equal objects mean equal
uploads. `JobsFaithful`: the candidate that a handler is about to link was
uploaded and has the content of its own block - a fact about uploads, which
never change, so no later step can spoil it even if it purges the object.
`ChainsFaithful`: a chain with links was committed and spells its upload.
`PutShape`: an upload is complete when it commits. `CurrentLinked` and
`ReadersFaithful` carry this to files and to readers. `RowsNamed`: the row that a
PUT finds by its id at the commit is the row of the path it was sent for, though
the file may have been deleted and made again by others in between. The proof
has one lemma per conjunct and one step per action of Next, and `PTL` closes it.
TLC checks `IInv` first, in the run `failures`.

Its second part proves `Implements`, `Spec => IsFileStore`, for the same
constants. From `IInv` a file is the upload of its chain's PUT (`FileIsUpload`),
so it stays the same as long as the chain of its path does (`FileSteady`),
whatever happens to links and blocks, and what a reader is to return stays the
same as long as its list does (`WantedSteady`): all steps of the chain service
stutter (`UnseenSteps`). Then there is one lemma for each thing that is seen: a
PUT begins (`PutFileWrites`) and commits (`PutCommitWrites`, where `RowsNamed`
is needed), requests are cut off (`CutOff`, `CrashSteps`), a DELETE answers
(`DeleteSteps`), a GET begins (`GetListReads`) and completes (`GetBlockReads`,
where `ReadersFaithful` after the step says that it wrote the upload).

`DedupProofs` and `RestProofs` prove what keeps deduplication from losing or
keeping too much, under `Serial`: one PUT at a time is in its transaction
(`MaxOpen = 1`) and calls do not fail (`"error"` is not in `Faults`). Both are
needed: the run `pool` breaks the first, what errors do is told with it. Any
number of requests, paths and contents, colliding hashes, repeated blocks, lost
messages and answers, deadlocks and crashes are allowed:

* `NothingLost`: `NoLoss`, no linked block loses its object;
* `Readable`: `FilesReadable`, which `pool` violates with two connections, holds;
* `Exact`: `RefersExact`, `blocks.refer` is the number of links; it follows from
  `Counted`, which says that of places, (chain, ordinal) pairs, so that a chain
  that links one block twice counts twice;
* `RowsMatchObjects`: `StoreMatchesRows`, rows and objects agree at rest, if
  moreover no answer is lost and nobody stops (`Steady`: each would leave an
  object that nobody purges);
* `Complete`: `DedupComplete`, at rest no two rows hold the same, if nothing
  fails at all: a lost message is a file nobody deduplicates;
* `Tidy`: `NothingLeftBehind`, at rest only current files have links and rows, if
  nothing fails at all and no `Break` is the victim of a deadlock (`NoVictim`).
  A Break is not tried again: where the server picks it, the chain it was to
  break stays, so the condition cannot be dropped. For files of one block it is
  no condition (`TidyShort`).

Nothing of this is inductive alone. The code purges its own block after every
Link without asking whether others were moved to it, and is right because a row
that others were moved to is never moved itself: `SharedIsOldest`, what another
chain is linked to, or is counted twice, is the oldest row of its content. This
in turn rests on ranks: commits in order of start make them grow with every PUT
(`RanksOrdered`), a list that `block_select` made is in that order and misses no
older twin until it is linked (`CandidatesOrdered`), and what was listed as
shared was the oldest then and can only be overtaken by rows that go. So `Link`
moves to the oldest (`Relinks`, for each of the three effects of
`block_update`), and the block it leaves was nobody's but its own.
`NothingForgotten` adds that a row which went leaves its object with someone
about to purge it, and `TwinsPending` that the younger of two equal rows has a
handler that has yet to come to it; with everybody at rest there are none.
`ReplacedPending` says of a chain with links that it is current or that the PUT
that replaced it has a handler which has yet to break it; the rows that are left
are then those of current files, because `Counted` makes every row linked.
`NeverForbidden` proves `BreakAllowed`: a chain that a handler is about to break is
current for no path, since a PUT replaces its predecessor once (`ReplacedOnce`),
and a row it counts down to zero is linked by nobody else, since counts are
exact; so nothing but a deadlock, or an error, makes a Break fail.
The invariants are in `Dedup`.

`NotFoundAbsent` in `NoCopyProofs` proves `NotFoundMeansAbsent` without any
condition. The list of `block_delete` has an entry for each link of the chain
(`ListsEveryLink`), so it is empty only for a chain without links, and
`CurrentLinked` of the invariant says that the chain of a file has some: no step
of deduplication, and no Break of another handler, takes the last link of a
current chain.

`RoutingProofs` proves, for any services, roles, messages, late starts, stops and
faults, `RoutingTypes` (`TypeOK`), `Traced` (`OneTrace`), `Sourced` (`OneSource`)
and `RoutingIsRpc`: `Spec => IsRpc`, with each step mapped to one of Rpc or a
stutter. `OneSource` counts three places where an answer can come from; the
invariant `RoutingInv` says instead that any two traces, and any two sources, of
an id are the same, which a step that takes one and makes one keeps.
`Matched` and `Owned` say that what was taken out of the map of a process is an
answer with the id of a request of that process, `Told` that a query is a message
no chain has handled and an `Answer` one that it has - from the message itself,
wherever it is - and so success means served. `Awaited` proves `WaitedFor` under
`Undisturbed`: nothing fails, starts late or stops, there are a proxy and a chain
service, and one block service. `WayInv` says that a message is on one of four
legs, asked, passed on, answered, sent back, and on its leg with a process of the
role it is addressed to; that each leg ends in the next is `Onward`. With a
second block service the last leg may end with the wrong one: that is the run
`replicas`.

`MessageProofs` proves, for any message, service and way back, that the answer
to a forwarded query, sent backward, is the answer its sender would have got
directly (`RoundTrip`), that addresses stay addresses, and that whatever becomes
of a message keeps its id (`Kinship`).

`BrokerProofs` proves, for any exchanges, addresses, relays, stacks (with
`StacksAssumption`) and messages, `BrokerTypes` (`TypeOK`), `UsersKept`
(`UserKept`), `FramesUnderstood` (`Understood`), `Hush` (`Silent`) and `Arrived`
(`Delivered`). First a fact about data: where a frame is accepted, the k-th
expected place of the receiver and the k-th place of the sender have the same
name. A receiver that
expects as many parts as there are expects all of the sender's names, and as
both stacks are in one order, the number of expected places up to k is the place
of its partner (`Partner`, `AllThere`, `Placed`). Hence `Taken`, which is
`Accepts` without frames, and `UserGoesOn`. The invariant then says that a
query's user is wherever the message is (`Written` of frames, `Contexts` of
goroutines, `UserKept` of handlers that ran), and that for a message asked as a
broadcast there are no more messages of another type, on the way, running or
come back, than relays that handled it (`Hushed`): a relay's handling makes one,
and every later step makes one out of one.

`Delivered` counts handlers exactly, which takes an invariant of its own,
`Tracked`. A message leaves a trace, from frame to goroutine to the frame its
handler sends, and each trace begins at one exchange: of a broadcast one at each
that listens, of another message one in all (`Begun`). `Paths` says which
exchanges a trace comes through: first one that the message is for, then, only
behind a relay, one of `Beyond`, which is never a relay of the same name
(`NodeAssumption`). `Apart` says that no two things on their way belong to one
trace, `Once` that a trace is handled once on a leg, and `Ahead` that what was
handled is behind what is on its way; so nothing is handled twice. The other half,
`NoneLost`, says that every trace that should have begun, and every one a relay
passed on, is on its way or was handled; it needs `OneStack`, since a stack that
does not fit drops frames, and is an implication of it. `Returns` does the same
for the answer of a request whose last topic is its own. When all is quiet there
is nothing on its way, and what was handled on the second leg pairs up with what
relays handled on the first (`AsMany`, a bijection), which gives the counts. TLC
checked `Tracked` on the instance of `broker`.

`RangesProofs` proves, for blocks of any size, files of any number of blocks and
requests of any number of ranges, `AnswersRight` (`RightSoFar`), `LengthsKept`
(`LengthKept`) and `AllPiecesFit` (`PiecesFit`). Three layers carry it. First,
data: the library's induction rules take a predicate, which the provers cannot
instantiate, so the module derives from the least member of a set of naturals
(`LeastOfNat`) an induction over sets (`SetInduction`), which is first-order, and
from it that functions defined by recursion satisfy their equations. Second, what
BlocksOfRange cuts: the blocks of a range are the ones it reaches into (`Span`),
its pieces cover it without a gap and lie within their blocks (`PieceSpan`), the
blocks of two ranges that do not overlap share one block at most (`BlocksApart`),
and so the pieces planned for a block are those of the ranges in order, and the
last piece of one range in it is the one before the first of the next
(`PieceAt`). Third, the loop: at any time either the parts up to one are sent
whole and the loop is at or before the first block of the next (`Whole`), or one
part is cut at the end of a block, what is missing is what `m` counts, and the
next piece is the first of the next block (`Cut`). `Piece` relies on `z` and
`pos` being equal, which relative seeks keep as long as every piece is copied
whole, which `PieceAt` says it is. Ranges of no bytes come last once sorted
(`FilledFirst`) and add no piece (`PlanFilled`), so the loop ends with the parts
of the `Filled` ones. Lengths go along: `sent` is at any time what `LengthOf` counts for the
parts begun, less what is missing of the last and the 26 of the footer
(`Noted`), because the 49 and 15 of get.go are the fixed letters of
WriteHeader (`HeaderCounts`) and `Digits(n) = Width(n)` (`DigitsOK`), by induction
from the powers of ten.

`EchoProofs` proves, for any number of workers, messages and slots, and any
failures, `Slots` (`SlotsMatch`) and `CameBack` (`AllCameBack`, with a worker at
all: with none, `concurrency` is 0 and Echo returns before it has sent
anything). A worker that adds its number twice would break the sums, so the
invariant is about numbers first: those in the channel and with the workers are
different ones, which the loop has passed and nobody has sent (`NumbersOnce`).
For the end, workers end only after the channel is closed and empty (`EndsLast`),
the loop counts those that have not (`WorkersCounted`), and what was passed is
somewhere (`NumbersKept`).

Each of these inductive invariants was checked by TLC on the instances of the
runs before it was proved.

Every invariant and action property that a passing run checks is a theorem. Only
model-checked is liveness (`ReplacedIsBroken`, `RequestReturns`, `FinishReturns`,
`EchoReturns`, `CancelEnds`), which is out of the prover's reach.

## Not modelled

* The text of frames, and frames that no `Encode` writes: short ones, foreign
  ones, and stacks that name the same middleware in different orders, which no
  service does.
* `WithID`, with which a caller picks the id of a message himself: none does.
* `postgres.1.sql`, an alternative `block_delete` that no code installs.
* What HEAD answers (date, length, blocks), and the scan error that
  `Repository.Get` overwrites.
* Two processes of echo on one host: their answers would mix in the queue group,
  as those of two block services do in `replicas`.
* A pool without a limit (`max_open` of 1 to 3 and no `max_idle`).
* `Server.Shutdown`'s own timeout of a minute.
* Logging, compression, flags, API types: no state the store depends on.
* Retries and reconnection inside the PostgreSQL, MinIO and NATS clients.

## Plan

1. HEAD's data: the aggregate over a missing path, composed with NoCopy.
2. Compare: readers that return their last bytes with and without EOF.
