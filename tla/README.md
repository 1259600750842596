# A verification project for xpt

xpt is a set of three Go services around BitTorrent: a DHT node that finds
infohashes (`services/dht-service`), a UDP tracker (`services/tracker-service`) and a
web front end (`services/web-server`), with shared packages (`pkg/`) for bencode,
sqlite and configuration. This directory holds TLA+ modules that model the parts with
state and concurrency, TLC configurations that check them on small instances, and
proofs, checked by TLAPS, of what must hold for every instance.

Paths below are relative to the repository; `dht/` stands for `services/dht-service/`.

## 1. The system

### DHT service

One process. `Run` (`dht/service/dht.go:77`) starts these goroutines:

| goroutine | code | what it does |
|---|---|---|
| receive loop | `dht.go:113` | reads each datagram into one reused buffer, decodes it there, checks it, hands queries to `recvCh` and responses to the waiting `DoSend` |
| workers (one per CPU) | `Handler_Request.go:18` | take queries from `recvCh`, read and write the two tables, offer replies to `sendCh` |
| send loop | `dht.go:218` | encodes and writes what is in `sendCh` |
| ticker | `Time_Handler.go:16` | every `cron_time` seconds: sweeps the 160 buckets |
| `Run` itself | `dht.go:97` | sweeps once, then waits for the end |

State: `recvCh` and `sendCh` (2048 places each, full means drop), the pending table
(transaction id to request, under a mutex), the receive buffer, and the sqlite tables
`dht_nodes` and `dht_infohash`, the only state that survives the process. The second is never
written: verifying an announcement always panics (section 4), before anything is stored.

Interactions: a sweep calls `DoSend` (`handler_Response.go:16`) per node it asks.
`DoSend` puts a request into the pending table, offers the packet to `sendCh`, and
waits for the request's channel (capacity one) or the timer; the receive loop finds
the request with `Match` and sends to its channel *without a default branch*. Workers
and sweeps share the tables; each SQL statement is atomic, a handler is not. A panic
in any goroutine ends the process, since nothing recovers.

Start and stop: `run` (`dht/cmd/main.go`) opens the database, migrates it, starts the
node and waits for a signal. Then it cancels the context and closes the socket, and
the deferred calls close the database while workers and the ticker may still run.

### Tracker

One process (`services/tracker-service/cmd/main.go`). `UDPTracker.Run` reads datagrams
and starts a goroutine for each. A connect takes the next connection id, stores it in a map
under a mutex and is answered with it; an announce looks its id up under the same mutex and
answers nothing yet. The gRPC handlers run one statement per count on the table of peers,
which no code writes yet, and `CleanupLoop` deletes expired ones from it. On a signal,
`GracefulStop` waits for the calls, and the deferred calls end the loop, the socket and
the database in that order.

### Web service

One process (`services/web-server/cmd/main.go`). Handlers of gin run concurrently, each
with a single statement on `users` or `torrents`, or a single gRPC call to the tracker or
the DHT service. A token is signed and checked without the database, so it outlives the
process. On a signal `Shutdown` waits up to five seconds for the handlers; then main closes the
connections and the database.

### Shared packages

`pkg/db` opens sqlite and runs a service's migrations at every start. `pkg/bencode`
decodes and encodes messages; decoded strings are slices of the input.

### What is hard, and what makes a component correct

| component | hard behaviour | correct when |
|---|---|---|
| pending requests | late, duplicated, stray responses; timer against response; colliding transaction ids; full queue | the receive loop never blocks; a response reaches only a request it fits; a waiting caller can be found; `DoSend` returns; entries go away |
| packet pipeline | one buffer shared by packets in flight; several workers; full queues | one answer per query at most, and no more errors than wrong arguments; nothing is left in flight; what is read belongs to the packet |
| query handlers | statements of several workers and a sweep interleave; errors half-way; panics; the database closed under them | one answer per query at most; a token is not lost; every handler ends |
| bucket sweep | deletes by a list read earlier; two sweeps at once; two statements per victim; nodes that do not answer | no bucket shrinks below eight; the sweep ends |
| K buckets | bucket number to bit position and back, at byte boundaries | a probe asks for an id of the bucket it is meant to fill; every bucket is swept |
| tables | upserts with and without token, stamps taken before statements | a token is not lost while its row exists |
| migrations | stop between any two statements, failing statements, restarts | records are true; order; no second execution; the service only runs on a complete schema; a restart succeeds |
| bencode | integer range, nesting, repeated and unsorted keys, raw bytes kept or not | accepts exactly the values of the grammar, and nothing behind one; round trip keeps the meaning; one encoding per meaning |
| UDP tracker | handlers of concurrent datagrams on one counter and one map | ids are unique in a process and known to announce; the mutex is given back |
| tracker, start and stop | calls under way when the signal comes | no call meets a closed database; the tracker stops |
| web service | concurrent registers and uploads, lost answers, paging while others upload, calls that hang during Shutdown | a 201 is true for good; a reader misses no torrent; who is done in five seconds is served; the server stops |

`PROJECT.json` lists every component and, under `hazards`, every place in the code
where something of this kind bites.

## 2. Plan

Order: the concurrent core first, then what survives the process, then pure code.

1. `RequestReply`, `PendingTable` - **done**, proved
2. `NodeStore`, `BucketSweep`, `QueryWorkers`, composed by `DHTNode` - **done**, proved, `BucketFloor` included
3. `PacketPipeline` - **done**, proved
4. `Migrations` - **done**, proved, what `splitStatements` returns included
5. `Bencode` - **done**, proved
6. two overlapping sweeps and the orderly stop of the DHT service - **done** in `DHTNode`, run `dht_buckets`
7. K bucket arithmetic, composed with the sweep - **done** (`KBucket`, `DHTBuckets`), proved
8. the tracker: `UDPTracker`, composed by `TrackerService` - **done**, proved
9. the web service: `WebService` - **done**, proved, `PagesComplete` included
10. what `ORDER BY` returns: `OrderBy` - **done**, proved for rows that tie and for rows that do not;
    `BucketFloor`, `PagesComplete` and `SplitsWell` rest on it
11. theorems about `Bencode`, its recursion written as recursive functions on positions and
    pointers - **done** (`BencodeProofs`)
12. left: the tracker's announce once it stores peers

## 3. Modules

| module | models | composed of |
|---|---|---|
| `RequestReply` | abstract: a query is asked of one address, at most one packet is accepted for it, and only a fitting one; the caller closes it once | - |
| `PendingTable` | `DoSend`, `PendingTable.Put/Remove/Match`, response side of the receive loop, `sendCh` | refines `RequestReply` |
| `OrderBy` | the rows of a query in the order of its `ORDER BY` clause; rows may tie | - |
| `NodeStore` | the table of nodes, the repository statements, panic of the process | extends `OrderBy` |
| `BucketSweep` | `startCleanExpiredNodes`, `cleanExpiredNode`, `deleteNodes`, `sendFindNode`, storing of responses | extends `NodeStore` |
| `QueryWorkers` | ping, find_node, get_peers, announce_peer | extends `NodeStore` |
| `DHTNode` | one process of sweepers and workers; orderly stop, kill, restart | extends `BucketSweep`, `QueryWorkers` |
| `KBucket` | `xorBucket`, `GenerateNodeIDInBucket` | - |
| `DHTBuckets` | the node with the bucket numbers the code computes | extends `DHTNode`, `KBucket` |
| `PacketPipeline` | receive buffer, `recvCh`, what workers read and when, `sendCh`, send loop | - |
| `Migrations` | `RunMigrations`, `splitStatements`, stop, restart | extends `OrderBy` |
| `Bencode` | `Decode`, `Encode`, `EncodeInt`, `EncodeString`, `EncodeList`, `EncodeDict` | extends `OrderBy` (sorted keys) |
| `UDPTracker` | `Run`, `handlePacket`, `handleConnect`, `handleAnnounce`, `Close` | - |
| `TrackerService` | the tracker's process: UDP side, gRPC calls, clean-up loop, main | extends `UDPTracker` |
| `WebService` | handlers, repositories and main of the web server, its clients | extends `OrderBy` |
| `*Proofs` | theorems about the component of the name; `DHTNodeProofs` also those about `KBucket` and `DHTBuckets`, `TrackerProofs` about `UDPTracker` and `TrackerService`. `SharedProofs`: what `ORDER BY` returns, induction and recursion on a measure | extend the module, and `SharedProofs` where they use it |
| `MC*` | the instance for TLC; it extends the module, or its proofs where these state assumptions to be evaluated | |

Names follow the code. A definition such as `Lock_free` or `Timeout_none` stands
before the one it varies (`Lock`, `Timeout`) and is never used by the specification: it
is the same step with a mistake in it, kept to show that a property notices. Each is
listed with its property under `mutants` in `PROJECT.json`.

### How state and actions correspond to the code

**PendingTable.** `items` is `PendingTable.items` with both kinds of keys that the code
uses: `Put` and `Match` use the hexadecimal form, `Remove` the raw bytes, so `Remove`
deletes nothing. `pc`, `cur` and `taken` are the local state of a `DoSend` call;
`DoSendPut` is lines 16-64, `Enqueue`/`EnqueueFull` the non-blocking send,
`TakeResponse`/`Timeout` the `select`. What a received packet is good for is left out, except
that it is a response: the receive loop hands over nothing else, so the error reply of
`dht/service/handler_Response.go:101` is never sent. Every path out of `DoSend` goes through
`Return`, which is the deferred `Remove`. In the receive loop, `Receive` is `Match`
(under its mutex) and `Deliver` the channel send, a step that waits. The network may
answer a query that was sent any number of times, or deliver a response from before a
restart.

**NodeStore, BucketSweep, QueryWorkers, DHTNode.** `nodes` is `dht_nodes`. `dht_infohash` needs no
variable, because it is empty whenever it is read; reading it and deleting from it are steps all the same.
One action is one SQL statement with what the goroutine does before the next one. An
upsert is two steps, because `time.Now()` is evaluated before the statement runs
(`pend`). `ListRecentNodes` is the bucket in the order of `last_seen`, the latest first; rows of
one time stamp come in any order, one of which TLC chooses. `proc` is the process: `UpsertPanics`, `Verify` and `TakeGetPeers` end it where the code
dereferences nil, indexes an empty slice, or converts too short a slice. `Verify` always does:
`verifyTokenAndIp` gives `GetNode` a plain `[20]byte`, which `database/sql` takes for no argument, and
`&nodes[0]` is evaluated before anyone looks at the error. The rest of `handleAnnouncePeer` (lines 136-191)
and the answer of get_peers with peers (lines 295-341) are unreachable, and so not modelled. With `FALSE` in `DbOutcomes` any
statement may fail, and the code's error path is taken. `BucketSweep` uses `DoSend`
through `RequestReply`'s promise: it fails, or one response from the asked address
comes. Which rows are past the deadline is left open: any number of the oldest ones.
In a query, an argument has the right length, is too long, or is too short (absent
counts as that: `GetDictValue` of an absent key is no error), or the dictionary of
arguments is missing; the transaction id is a string or not (`t`), and without a string no handler replies.

`Stop`, `CloseDb` and `Exit` are the return of `run`: cancel and `Close`, then the deferred
`sqlDB.Close`, then the end of the process. Until then the goroutines run on: a worker may
take what is queued (`select` picks any ready case), and the ticker has no context. With
the database closed every statement fails, so an upsert panics (`UpsertPanics`).
`raced` is a history, read by `BucketFloor` only.

**KBucket, DHTBuckets.** A byte is the set of the positions of its one bits: `1 << b` is
`{b}`, xor the symmetric difference, `& (1<<b - 1)` the part below `b`. `random` is what
`rand.Read` fills in, any id. In `DHTBuckets` the constant `Bucket` of `NodeStore` is
`xorBucket(selfID, id)`, and there is one bucket per bit of an id.

**PacketPipeline.** A datagram is its number. The buffer consists of six cells, cut where the
fields of the messages begin and end (for ids of 20 and transaction ids of two bytes; the module
names the bytes). A cell holds the number of the datagram that
wrote it last, and the copy into the buffer goes cell by cell in any order while
workers read. `Bytes(n, f)` is what a reader of field `f` of packet `n` finds: the same
field of the datagram that now fills its cell, where that has it at the same place (`SamePlace`), or bytes
that are no datagram's field (`None`). Parts of two messages are assumed never to spell a method or a type.
Datagrams are of nine kinds: the four queries, with get_peers also in a form with arguments too long
and one with arguments too short; a response; a query without transaction id (`no_t`), at which `Check` panics;
and `junk`. A worker goes through `handleQueryMessage` and the handler of the method it read. A reply
is the datagram it answers and which of the handler's replies it is: the error for the id, the error for the
infohash, or the answer.

**Migrations.** `text` is the embedded files, as lines (`skip`: blank or comment,
`part`, `last`: ends with a semicolon) with the table the statement creates. `Exec`,
`Record` and the reads are the separate statements they are in the code, so that
`Stop` can come between them. `After` is what `splitStatements` has in `stmts` and `cur` after
each line; `SplitsWell` compares the statements with a definition without recursion, the lines
between two lines that end a statement. sqlite in WAL mode keeps a prefix of the statements
executed, which is what a stop at an earlier step leaves.

**Bencode.** Nodes refer to each other by pointers, as in Go. The pointer to a decoded node is
the position it was decoded at, so `Decode` returns a function from positions to nodes, and
two nodes are the same object only when they were decoded at the same place. `Parsed` is what
each of the three parsers (a value, the rest of a list, the rest of a dictionary) returns at each position;
it and `Encode` are recursive functions where the code has functions that call each other. The
parsers return the node and the position, as the Go functions do with
`pos`. `IntMax` stands for the greatest int: a string whose end exceeds it is the
overflow of `i+n` (`decode.go:91`), with outcome `panic`. Numbers are parsed as `strconv`
does, with sign and leading zeros. A node that was decoded keeps its bytes in `raw`; one
that the program builds (`Built`) has none, and is encoded anew.

**UDPTracker, TrackerService.** A handler goes step by step through what it does under the
mutex (`ReadNext`, `Bump`, `Store`, `Check`), so that a missing lock would show. The table
holds the ids only, since nobody reads their time stamps. `proc` is how far `main` is;
`Phases` names the deferred calls in their order. A call is at one of its statements (`rpc`);
a statement has an outcome and no effect, because no code stores a peer. `ReadError` is the
`return` of `Run` on any error but a timeout: from then on nobody reads datagrams.
`ProcessEnds` loses the table, and the next process numbers connections from 1 again.

**WebService.** `req` and `ans` are, for each client, the request being served and its answer
before the client has it; `Reply` delivers the answer or loses it. A handler that passes
the checks of the middleware and of gin's binding runs one statement. Names stand for
users' ids too. `created_at` is any second of a small set, because the wall clock can be
set back, and rows of the same second come in the order of their row ids, as sqlite
returns them from a sorted scan. The reader asks for page 1, 2, ... of a size of its
choice until a page is empty; `walk` keeps what was there when it began (`base`), what it has seen
(`got`) and how many torrents it saw that it had seen before (`again`). `Remote` is a gRPC call that is answered, fails or
hangs. `ShutdownTimeout` is the end of the five seconds.

## 4. What the runs check

| run | instance | result |
|---|---|---|
| `pending_table` | two callers, two requests, two transaction ids, two addresses, queue of one | passes, 21,000 states |
| `dht_node` | one bucket that keeps two rows, three nodes, two addresses, ticker with one sweep, two workers, two queries out of 16, failing statements, kill, restart | passes, 274,000 states |
| `dht_buckets` | ids of two bytes of two bits, five nodes in four buckets, `Run`'s sweep and the ticker's, one worker, two queries, an orderly stop, kill, restart | passes, 117,000 states |
| `packet_pipeline` | two workers, queues of one, a query, a datagram of any of nine kinds, and a third that overwrites both | passes, 423,000 states |
| `migrations` | two files: the dht-service's, all files of up to three lines that create one table, one without final semicolon; three starts; failing statements | passes, 9,000 states |
| `bencode` | concatenations of up to three of 13 pieces, dictionaries around up to four | passes, 67,000 states |
| `tracker` | two handlers, three datagrams of three kinds, one gRPC call at a time, read error, stop, kill, two starts | passes, 115,000 states |
| `web` | two clients with two requests and the reader, two users, three torrents, two seconds, failing statements, lost answers, Shutdown, kill, two starts | passes, 387,000 states |
| `pending_entry_removed`, `reply_transaction_id`, `migrations_restart`, `bencode_strict` | as above | each violated: see findings |

Properties (stated in the modules, each with a comment):

- `PendingTable`: `ReceiverNeverBlocks`, `ResponseFitsRequest`, `WaiterRegistered`,
  `ImplementsRequestReply` (refinement), `DoSendReturns`.
- `DHTNode`: `BucketFloor` and `TokenKept` (steps), `SingleReply`, `SweepEnds`, `QueryEnds`.
- `DHTBuckets`: `ProbeTargets`, `OnlySelfUnswept`, with `BucketFloor` and `SweepEnds` for two
  sweeps over several buckets and a database that is closed under them. `BucketFloor` excepts the one
  case in which two sweeps delete from the same bucket, each by a list of its own.
- `PacketPipeline`: `OneAnswer`, `NeverOlder`, `Handled`. `OneAnswer` and `SingleReply` say the same of
  the two ends of the send queue: a get_peers with `n` arguments of the wrong length may get `n` errors
  besides its answer, every other query gets one reply at most.
- `Migrations`: `RecordedComplete`, `UpComplete`, `InOrderOnce`, `SplitsWell`, `Ends`.
- `Bencode`: `AgreesWithGrammar`, `RoundTrip`, `Canonical`. `AgreesWithGrammar` is about `DecodeValue` at any
  position, which may leave bytes behind the value; what `Decode` promises of a whole input is
  `DecodesStrictly`, which does not hold.
- `UDPTracker`, `TrackerService`: `UniqueIds`, `ReplyUsable`, `TableComplete`, `RpcServed`,
  `HandlerEnds`, `StopEnds`.
- `WebService`: `Acknowledged`, `PagesComplete`, `RequestsDrained`, `StopEnds`.

Findings: entries of unanswered requests stay in the pending table
(`RemovedOnReturn`); replies can carry another query's transaction id (`OriginalTxid`); a stop at the wrong
moment makes every later start fail (`StartSucceeds`); `Decode` accepts bytes after the value, which
`pkg/bencode/decode.go:17` and `bencode_test.go:331` exclude, and panics where a string length overflows
(`DecodesStrictly`).

Observations made while modelling; the models contain this behaviour and no property
forbids it:

- Every announce_peer with arguments of the right form ends the process (`Verify`), whether or not its node is
  known, so no announcement is ever stored; the comment in `dht/service/Handler_Request.go:68` describes
  what was meant.
- A query without a transaction id ends the process (`Check` of a `no_t`), where `dht/service/dht.go:166` wants malformed
  packets dropped; so does a get_peers with too short an argument.
- A get_peers whose id or infohash is too long is answered with an error for it and then with nodes, although
  lines 264 and 270 of `Handler_Request.go` say that it is not answered.
- `deleteNodes` deletes a node before its infohashes, the comment in
  `dht/service/Time_Handler.go:176` wants the other order. `OnlySelfUnswept` shows the one row no sweep
  ever reaches: our own id, when another node lists it to us.
- A goroutine that upserts on the closed database panics, so an orderly stop of the DHT service
  can end in a panic.
- A UDP read error ends the tracker's read loop for good while the process goes on. The
  table of connection ids only grows. Ids repeat after a restart.
- The web server answers 409 to every failing register and upload, whatever the error was, and login does not
  look at the password yet. A page size over 100 silently becomes 20, so a reader that stops at the
  first short page misses torrents; the reader of `PagesComplete` stops at an empty one.

### Bounds

- Two callers, two requests: everything between requests goes through one table key, so
  two colliding ones show every overwriting. Queue of one: full and empty are one step
  apart. A third address or transaction id adds nothing to tell apart.
- One bucket of two rows and three nodes: one victim, and one node that can come or go
  while the sweep works; `KFew = 1` gives each of the four branches of the sweep. The
  initial tables have one row too many, one row, none. Two workers and two queries
  give every pair of handlers, in every interleaving with the sweep. 16 queries cover
  every early return.
- Three datagrams: one in a queue or handler, one that overwrites it and may be in flight at the same
  time, and one that overwrites both. The first is one of the three forms that differ in where their fields lie and in how many
  replies they get; the second is of any kind. Their number is a bound on a history, not on the system.
- Two files and three starts: a stop in the first, a stop in the second, a start that
  can get through.
- Ids of two bytes of two bits: the first and the last bucket, and one on each side of the
  boundary between bytes. Two sweeps: a third would only repeat what one of the two does.
- Tracker: two handlers show every interleaving on the mutex; the third datagram comes after
  a restart or needs a handler that was freed. Two starts: ids before and after.
- Web: two clients for one row, and a token of the same user on two. Page sizes of
  `MaxSize` two and `DefaultSize` one, asked with three: the size that is replaced. Three
  torrents and a page of one: at least four pages, uploads between any two of them, in
  front and behind. Two requests: both may win, or one may come twice after a lost answer.
- Bencode pieces: every delimiter, empty and one-character strings, a string that is a
  delimiter, a leading zero, signs, `-0`, a length that overflows. Four pieces in a
  dictionary are two pairs: sorted, unsorted, repeated.
- Counters (`MaxReq`, `MaxQueries`, `MaxSweeps`, `MaxStops`, the length of `Arriving`, `MaxStarts`) are guards of the
  actions that count; deadlock checking is off where these bounds stop the system.

### Fairness

Weak fairness for each goroutine that can take a step: the Go scheduler runs every
runnable goroutine. The timer of `DoSend` belongs to the caller's step, since it fires by
itself. There is no fairness for the network (datagrams, responses), for the ticker,
for kills, for restarts or for failing statements. The liveness properties are therefore conditional:
a `DoSend` that has begun returns, a handler or sweep that has begun ends or its
process has, a packet in flight gets out of flight. `DoSendReturns` does not need the
receive loop or the network.

The tracker's handlers, statements and `main` after its signal are weakly fair. `Lock` is strongly
fair: Go's `sync.Mutex` hands itself to a goroutine that has waited for a millisecond, so
others cannot take it for ever. In the web service only `main` is fair: a handler may hang in
a call to another service, which is why `Shutdown` has its limit.

## 5. What is proved

Every invariant and every action property that a passing run checks is stated by a theorem. All theorems hold for all values of the constants that satisfy the named
assumption of the module. The assumptions say of what kind the constants are: natural bounds, a
`None` outside the other sets, `DbOutcomes` contains `TRUE`, workers and sweepers are different
goroutines. Ids are finitely many (a table has finitely many rows), the bootstrap addresses form a sequence,
responses name nodes of the modelled ids, and the tables a service finds hold rows of its types, with
unique hashes, as the schema demands.

**PendingTableProofs** (`ConstantsAssumption`). The safety invariants do not carry
themselves: that the channel is empty when the receive loop delivers follows only
from knowing *where a request can be*. `IInv` adds that allocated requests are
`1 .. nReq`, that a caller waits for a request of its own, that a request in the table is
under its own key and has neither a packet in its channel, nor on the way, nor taken,
and that the packet of a request is in one of these three places. `Receive` moves a
request from the table to "on the way", `Deliver` to the channel; since `Match` deleted
the entry, nothing can be matched for it again. From `IInv`: `TypeOK`,
`ReceiverNeverBlocks`, `ResponseFitsRequest`, `WaiterRegistered`; and with it each step is a
step of `RequestReply` or leaves its variables alone (`Refinement`).

**PacketPipelineProofs** (`PipelineAssumption`). `NeverOlder` and `OneAnswer` need: the cells
of a datagram under copy that are not still to be written hold it (`Reading`); the cells of
every packet in flight hold it or a later datagram (`AllIntact`); `recvCh` is in the order of arrival,
every worker's packet is older than all in it, no packet is in two places, and what was sent for the
packet of a worker was sent earlier in its handler than where the worker is (`OnePlace`). A later datagram's copy only raises cells, so intactness survives.

**SharedProofs** (no assumption). A row's place is one more than the number of rows before it;
of two rows the earlier one has the lower place, so places are one to one, and the rows by
their places are in order (`SomeOrder`). Ties are broken by any numbering of the rows
(`TiesBreak`). `OrderByReturns`: a query returns each row once and in order, ties or not;
`OrderByPlaces`: without ties each row is at its place, so there is no choice.

The library states induction and recursion for operators, which no installed prover can
instantiate. `SetInduction` and `MeasureInduction` say the same of a set of numbers, or of things
with a measure, from the least element of a set. `Recursion`: when what a step computes at a place
depends only on places of a smaller measure (which has a bound), a function satisfies its equation.

**MigrationsProofs** (`MigrationsAssumption`). `SplitsWell` is an induction over the lines of a file.
With `SetInduction` the recursive function `After`
exists and unfolds (`AfterUnfolds`), and after `n` lines `stmts` is what is between the semicolons
so far and `cur` what is behind the last one (`AfterIs`). The last statement needs no semicolon
(`SplitIs`). That a statement is never empty, on which `Exec` relies, follows. `IInv` adds `Progress`: while a file is under
way, the files before it are recorded and what its statements so far create exists.
Tables and records only grow, so stops and failures keep it, and `Record` turns it into
`RecordedComplete`. `InOrderOnce` is inductive with it: a file is begun where the one before it is recorded, and only when
it is not recorded itself.

**DHTNodeProofs** (`StoreAssumption`, `SweepAssumption`, `WorkersAssumption`,
`NodeAssumption`). The properties speak of one step or of a handler's last one; what they rest
on is what a goroutine may rely on between two statements. `IInv`: a goroutine about to
run an upsert has its own stamped one in `pend` (`Stamps`), so nobody else's token or address
is written; between two statements a handler has sent nothing but errors for arguments of the wrong
length, and no more than there are of those (`Busy`). From it: `SingleReply`, and the step
`TokenKept` (a row with a token is written only by `Merged`).

`BucketFloor` needs to know what a sweep does *not* delete. When it lists a bucket, the first eight
rows of the list are no victims: that these are eight different rows of the bucket is what
`OrderByReturns` gives (`ListSpares`). `Spared` says that there is such a set until the sweep is through: no
step takes a row from it but a deletion, the sweep's own deletions are of its list, and
those of the other sweep, in the same bucket, set `raced` (`OthersSpared`, `SelfSpared`). Which rows
the eight are may be forgotten, as upserts may add and refresh rows at any moment. `Fitting`
says that what a sweep deletes is of its bucket. Hence a deletion leaves eight rows or
more (`FloorHolds`), for any number of rows, buckets and sweepers; with the types (`NodeTyped`).

In the same module, about bucket numbers (`KBucketAssumption`, `BucketsAssumption`).
`BucketOfDistance`: the bucket of an id whose distance has its highest one bit `t` in byte `i`. The mask has that bit where
`InRange` and the division of the index put it, and xor with the same id twice gives the
mask back, so `DrawnInBucket` holds for every index and filling; conversely every
distance but zero has such a byte and bit (`BucketRange`). From these, `ProbeTargets`
(a sweeper is always at a bucket that exists) and `OnlySelfUnswept`.

**TrackerProofs** (`UDPTrackerAssumption`, `TrackerAssumption`). `TableComplete` does not hold inside
the mutex. `IInv` says how far its holder has brought the table: before `Bump` it is complete,
then the holder's id is missing and is the one below the counter. Ids on their way to a client, in
handlers and in `sent`, are different and in the table. From it: `UniqueIds`, `ReplyUsable`,
`TableComplete`, `TypeOK`; and `RpcServed` from the order of main's calls.

**WebProofs** (`WebAssumption`). `Acknowledged` speaks of answers that arrived, and a step before that
decides which do. `WonRows` says the same of those whose statement has succeeded and whose answer is
on its way: their row is there, no one else has won it and no one was told. Lost answers
and ends of the process drop such requests; nothing deletes a row.

`PagesComplete` speaks of the end of a long walk. `Paged` says what holds before each page: what the
reader wants and has not seen is behind the first `n` places of the list, `n` the offset of the page; and
the torrents seen twice, together with those seen that are behind again and may come twice, are no more than
the uploads since it began. An upload takes one place and moves at most one row from the first
`n` places behind them, where it may be seen again: one upload pays for it. A page
takes the next places. An empty page means that nothing is behind. `Reads` adds that the
answer under way to the reader still is such a page, for uploads come between the statement and the answer
(`PageComes`). Places are those of `OrderByPlaces`.

**BencodeProofs** (`BencodeAssumption`: the alphabet has no character twice and contains those
of the syntax, inputs are no longer than the greatest int, `None` is no number). A recursive function of TLA+ is
whatever satisfies its equation, if anything does. So the first step, for `Parsed`, `Ends`, `Encode`,
`Same` and the two loops of `strconv`, is that each looks only ahead, or only below
(`ParseLooksAhead`, `EndsLookAhead`, `EncodeLooksAhead`, `SameLooksAhead`): then `Recursion` gives the
equations (`ParsedUnfolds`, ...). It also says that no call of `Decode` or `Encode` leads back to itself.

- `ReadsTheGrammar`: by induction on the position from the end (`FromTheEnd`), each parser accepts at each place
  what the grammar allows there and nothing else (`AgreesEverywhere`), and panics only where a string
  behind that place has a length that overflows (`PanicsOverflow`).
- `DecodesBack`: a heap is what has well-formed leaves, and lists and dictionaries that point only
  ahead (`Heap`); decoding gives one (`DecodedHeap`), and so does dropping the bytes (`BuiltHeap`).
  `EverythingReread` says of every heap: wherever the encoding of a node is written in a
  text, with anything around it, the parsers read there a node of the same meaning, up to the end of
  the encoding, that is encoded the same. It needs that numbers are read back
  (`DecimalReadBack`), that a number, a string and a closing `e` are read without a look behind their
  end (`IntMoves`, `StringMoves`), that joined pieces can be found again (`FlattenIs`) and what the
  loops do between two items (`ItemsLoop`, `PairsLoop`).
- The overflow of `i+n` stands in the way: a text longer than the greatest int would be misread.
  `Fits` excludes it: an encoding, also one built anew, is no longer than what it
  was decoded from. Decimal notation without sign and leading zeros is the shortest that is read as the
  number (`FormatShortest`), and a repeated key only saves room (`AddedFits`, by `FlattenWithout`).
- `EncodesCanonically`: the second encoding is the first (`EncodedAgain`), and the order of bytes is total
  on strings (`KeyLessTotal`, `KeyLessTransitive`), so that sorted keys ascend (`SortedKeysAre`).

## 6. What is only model-checked

- Liveness (`DoSendReturns`, `SweepEnds`, `QueryEnds`, `Handled`, `Ends`, `HandlerEnds`, both
  `StopEnds`): fairness is beyond the prover.
- `StartSucceeds`, `RemovedOnReturn`, `OriginalTxid`, `DecodesStrictly` do not hold: see findings.

## 7. What is not modelled, and why

- Real time: that `pending_time` is missing from `config.yaml`, so that the timeout is zero, cannot
  be seen where the timer may fire at any moment; nor can the deadline of the sweep.
- Ports: an address in `QueryWorkers` is an IP, which is what `verifyTokenAndIp` compares.
  The limit of eight rows in reads of replies, and the bytes of the node lists.
- `DoSend`'s packets in `PacketPipeline`, and workers' replies in `PendingTable`: each
  appears in the other only as a place taken in `sendCh`.
- A response is read by the `DoSend` caller from the shared buffer too; in `BucketSweep` a
  response is any of a set, so overwritten contents are other members of the set.
- Page numbers near the greatest int, whose offset overflows to a negative one: no reader comes
  near by asking for one page after the other.
- In the tracker, what statements on the peer table return, since nothing fills it; announce
  and scrape beyond the look-up of the connection id, which do nothing yet.
- In the web service, the signature of tokens and their 24 hours, the routes' group for
  administrators, which has no route, and the bodies of answers: register's carries id 0.
- Code behind the verification of an announcement (`dht/service/Handler_Request.go` 136-191), the reply with peers
  (295-341), `UpsertInfoHash` and what `ListByInfoHash` would return: no request reaches it.
- Code without a caller: `CleanExpired`, `sendPing`, `GetExpireNodes`, the branches for get_peers
  responses, `UpsertPeer`, `Count`, `GetByID`, `GetByInfoHash`, `SoftDelete`, `SetAdmin`, the
  packing functions of `pkg/netutil`. Generated code, logging, configuration, error codes.
