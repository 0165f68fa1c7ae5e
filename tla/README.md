# Muonbase in TLA+

Muonbase is a persistent in-memory database of JSON documents behind a small
HTTP server. One thread runs an epoll loop that accepts connections, parses
requests, executes handlers, sends responses, and serves a timer and a signal
descriptor; one further thread, started by the timer, rolls a full journal over
into a new snapshot. This directory models the parts of it that are hard to
test, checks the models with TLC and proves what matters most with TLAPS.

Paths below are relative to the repository (`src/`); `service.cc:97` is line 97
of `source/service.cc`.

## 1. Inventory

| component | code | state | operations | correct when |
|---|---|---|---|---|
| document storage | `service.cc`, `journal.h` | the tree, four files (base, journal, closed journal, snapshot), two atomic flags, the worker thread | Initialize, Insert, Update, Erase, Find, Tick (Rollover, RotateJournal), Shutdown | no answered change is lost or invented over kills, restarts, rotations and rollovers; shutdown and rollover end |
| B+ tree | `map.h` (`InnerNode`, `OuterNode`, `Map`, `MapIterator`) | nodes with parent and leaf links, root, size | Insert, Update, Find, Erase by key and by iterator, iteration, Serialize, Deserialize | it behaves as a sorted map; every leaf at one depth, nodes neither too full nor too sparse, leaf chain in key order, iterators stay valid over Erase |
| multimap | `map.h` (`Multimap`) | a Map of value vectors, a size | Insert, Erase by key, value, iterator | the size is the number of values, no key keeps an empty vector |
| HTTP server | `http.cc` (`HttpServer`) | connections by descriptor, epoll interest, a batch of events, running flag | accept, client, timer, signal and error events, expiry, shutdown | a response goes to the connection whose request it answers; connections and descriptors match; idle connections go; the loop never stops serving |
| HTTP connection | `http.cc` (`HttpConnection`), `tcp.cc` (`TcpReader`, `TcpWriter`) | stage, header count, buffers with three indices | ParseRequest, ParseResponse, Restart, ReadSome, SendSome | what is parsed does not depend on how the bytes were cut into reads |
| sockets, epoll | `tcp.cc` | descriptors | Accept, Connect, Receive, Send, Add, Modify, Delete | no descriptor leaks |
| API | `api.cc` | none | Insert, Update, Erase, Find of the REST routes | unauthorised or malformed requests touch nothing |
| users | `service.cc` (`UserPool`) | one JSON object read at the start | AccessPermitted | only who knows the password gets in |
| JSON | `json.cc` | an object or array | parse, print, Serialize, Deserialize | what is written to disk reads back as it was |
| client | `client.cc`, `http.cc` (`SendRequest`) | none between calls | Insert, Update, Erase, Find over one connection each | a call returns what the server did, or throws |
| test program | `test.cc` | by thread, the documents it believes are stored | insertions, updates, erasures, searches in cycles | every result is what the thread's own copy says |
| utilities, start | `utils.cc`, `rand.cc`, `log.cc`, `trace.cc`, `clock.cc`, `server.cc` | - | strings, base64, hash, identifiers, logging, registration, daemonising | - |

How they interact: the loop (`HttpServer::Serve`) calls the handlers of
`api.cc`, which call `DocumentDatabase` synchronously; the same loop calls
`Tick` and, after it ends, `Shutdown`. The tree is touched by the main thread
only; the worker builds a tree of its own. Main thread and worker share the
files and the two atomic flags, nothing else. Nothing catches an exception that
leaves a handler or the worker, so a failed append aborts the process: for the
files that is the same as a kill.

The behaviours that are hard: a kill at any step of a start, a rotation or a
rollover; an append cut short; a snapshot that cannot be written; a worker that
is cancelled at any point; ticks and requests between any two of its steps; in
the server, events of one batch for a descriptor that an earlier event of the
batch closed or reused, clients that half-close, pipeline or fall silent, and
the pool of connections at its limit; in the tree, chains of splits, moves and
merges over several levels; between a client and the server, requests and
responses cut anywhere, answers that are lost after the request was executed,
messages of exactly the size limit or past it, documents that have to come
through a printer, two parsers and a binary form unchanged.

## 2. Modules

| module | models | composed of |
|---|---|---|
| `Journal` | the records of a journal and what replaying a file of them does | - |
| `Storage` | `DocumentDatabase`: main thread, worker, files, kills | extends `Journal` |
| `Store` | what the database promises: a map that only requests change | extends `Journal` |
| `StorageRefinesStore` | the documents a start would load, read off any state of `Storage` | `Storage`, instance of `Store` |
| `StorageInvariant` | the inductive invariant of the proofs | `Storage` |
| `MCStorage` | instances for TLC | both of the above |
| `StorageProofs` | types, the rollover flag, durability: theorems about `Storage` | `StorageInvariant`, `TLAPS` |
| `RefinementProofs` | that `Storage` implements `Store` | `StorageProofs`, `StorageRefinesStore` |
| `HttpServer` | `HttpServer`, its connections, epoll, clients | - |
| `MCHttpServer` | its instances | `HttpServer` |
| `HttpServerProofs` | types and tables, for any clients and descriptors | `HttpServer`, `TLAPS` |
| `HttpServerInvariant` | what buffers, counts and batch say of each other | `HttpServer` |
| `HttpAnswersProofs` | theorems about requests and answers | `HttpServerInvariant`, `HttpServerProofs` |
| `OrderedMap` | what `Map` promises: keys with values, one of which changes at a time | - |
| `BTree` | `Map`, its nodes, the iterator that `Erase` returns | - |
| `BTreeRefinesMap` | the map a tree stands for, read off its leaves | `BTree`, instance of `OrderedMap` |
| `MCBTree` | instances of `BTree` | `BTreeRefinesMap` |
| `BTreeInvariant` | the inductive invariant of the proofs | `BTree` |
| `BTreeNodeProofs` | what each operation on nodes does: splits, insertion of a kid, moves, merges | `BTreeInvariant`, `TLAPS` |
| `BTreeMoveProofs` | what it leaves of the tree: a split, a kid linked in or taken out, a move, a merge | `BTreeNodeProofs` |
| `BTreeProofs` | the theorems about `BTree` | `BTreeMoveProofs`, `BTreeRefinesMap` |
| `Text` | the string functions of `utils.cc`, over sequences of tokens | - |
| `HttpMessage` | printing and resumable parsing of HTTP over a `TcpReader` | `Text` |
| `HttpMessageProofs` | that the parser does not see where a message is cut | `HttpMessage`, `TLAPS` |
| `Json` | `json.cc`: values, their text and their binary form | `Text` |
| `Exchange` | a call from end to end: client, network, connection, API, database, disk | `HttpMessage`, `Json` |
| `MCExchange` | instances of `Exchange` | `Exchange` |

Definitions that model code come with a broken twin where a run needs one:
an operator below a comment that begins with "Mutant" is what the definition
after it would be with a plausible bug, and no specification uses it.
`PROJECT.json` pairs each property with the twin that violates it.

### Storage

`main` and `worker` are the program counters of the two threads; `base`,
`closed`, `journal` and `snapshot` are the database's file and those with the
suffixes `.closed`, `.journal` and `.snapshot` (service.h:34-36); `database` and `copy` are
the trees of the threads; `inProgress` and `cancel` are
`rollover_in_progress_` and `rollover_cancel_`. A file is `Absent` or has a
content: a database for `base` and `snapshot`, a sequence of records for the
journals. `promised`, `rotated` and `cut` are history: the states the records
of journal and closed journal lead through, and whether the last append was cut.

| actions | code |
|---|---|
| `Start`, `LoadBase`, `LoadDamagedBase`, `SkipMissingJournal`, `ReplayRecord`, `ReplayFails`, `ReplayDone`, `NothingToRollOver`, `BeginSnapshot`, `EndSnapshot`, `SnapshotFails`, `InstallSnapshot`, `UnlinkClosed`, `UnlinkJournal`, `OpenJournal` | `Initialize`, service.cc:57-111, one step for each system call that changes a file and for each record replayed |
| `Receive`, `AppendRecord` (in `Request`), `ApplyRecord`, `Answer` | `Insert`, `Update`, `Erase`, service.cc:203-288: the record, then the tree, item by item |
| `TickRotates`, `ReopenJournal`, `TickKeeps`, `LaunchWorker`, `NothingToLaunch` | `Tick`, `Rollover`, `RotateJournal`, service.cc:113-155 |
| `Worker...` | the thread of `Rollover`, service.cc:156-200 |
| `BeginShutdown`, `FinishShutdown` | `Shutdown`, service.cc:115-121 |
| `Crash` | a kill, or an exception nobody catches |

The tree is a function here and the B+ tree of `BTree` is not instantiated: the
two meet in what `OrderedMap` and `Store` promise.

### HttpServer

`connections` is `connections_`, `interest` what epoll was told, `batch` the
events of one `epoll_wait` that are still to be handled, in any order;
`owner`, `link`, `backlog`, `clogged`, `sent`, `got` and `peer` are the kernel
and the clients. A descriptor is a number that is given again, lowest first,
once it is closed. A request is a head (with its `Connection` header) and a
tail; `Stage` is how far `ParseRequest` gets with what is in the reader's
buffer. Of a response only the number of sends it still takes is kept.

`kTcpMaximumPayloadSize` bounds what a connection takes in before a `Restart` and
what a response may hold. `MaxPayload` is this limit in ordinary pieces; a tail
may also be `exact`, with its head as much as the limit, or `excess`, which is
more, and the sum of their `Weight`s is the size of a buffer. A read that fills
the buffer ends with `OVERFLOW`: the request in it is executed if it is complete,
and the connection is closed unanswered (http.cc:983). A response past the limit
is `Oversize`: nothing of it is sent and the connection is closed (http.cc:1011).
`Large` says which of the three an instance has.

| actions | code |
|---|---|
| `Wait`, `Stop` | `Serve`, http.cc:614-668 |
| `HandleTimerEvent`, `HandleSignalEvent` | http.cc:835-894 |
| `HandleTimerError`, `HandleSignalError` | http.cc:670-744: the descriptor is replaced, or the loop ends |
| `HandleServerEvent` (`Accept`, `Refuse`), `HandleServerError` | http.cc:896-945, `TcpSocket::Accept` |
| `HandleClientEvent` (`Receive`, `Transmit`) | http.cc:947-1021, `TcpReader::ReadSome`, `TcpWriter::SendSome`, `Restart` |
| `Connect`, `SendPiece`, `Leave`, `MakeRoom`, `TimePasses`, `TimerFires`, `Signal`, `Breaks` | clients, kernel, clock |

Two things the model brought to light are visible in how its properties are
stated. Events that are stale by the time they are handled do reach new
connections: a writable event meant for a connection that was closed finds the
new one's writer empty and closes it. `ClosedForAReason` says how far this can
go: only a connection nothing was received from yet. The other reasons it allows
are those of the code: the client left, spoke too early or sent what does not
parse, was silent, was answered, or met the size limit. And `Restart` drops what
is in the buffer, so a client that sends a request before it has the last
answer may lose it; `PatientClientsLoseNothing` says the others do not.

### BTree

`heap` maps addresses to nodes, which name their parent, kids and, for leaves,
neighbours by address, as the pointers of the code do; `root` and `size` are
`root_` and `size_`. Operators named after the node classes' methods
(`OuterSplit`, `InnerCoalesce`, ...) return the heap a call leaves. An insertion
is `Insert` followed by one `PropagateUpwards` or `PropagateToRoot` per level;
an erasure is `Erase` followed by one of `EnoughKeys`, `RedistributeLeft`,
`RedistributeRight`, `CoalesceLeft`, `CoalesceRight` or `EndAtRoot` per round
of its loop, tried in the order of the code. `next` is the iterator that
`Erase` hands back, adjusted round by round. A guard that fails where the code
would throw one of its "tree: ..." errors, or would go round its loop without a
change, leaves no action enabled: `CallsGoOn` says that this never happens, and
TLC's deadlock check is on in this run. The addresses are a finite set, so
`HasRoom` bounds every action that allocates; the run has more of them than its
keys can fill. What follows pointers down the tree or along the leaves recurs
over `Live`, the addresses of nodes that are not freed: a pointer to a freed one
has no value there. `Update` replaces a value in place and `Clear`
deletes what it reaches from the root; a value is the key it came with or
`Updated`, so that a key that takes another's value along a move is seen.

### Text, HttpMessage, Json, Exchange

A text is a sequence of tokens: the characters a parser looks for, and words
that nothing looks into. A line feed is two tokens, `": "` is two, a number is
one, and a length counts tokens. So a message can be cut between the two
characters of a line feed, inside a body or between any two words; only a cut
within a word is left out, and the parser treats it as it treats a cut before
the word's delimiter.

`HttpMessage` follows `TcpReader` index by index (`base`, `peak`, `next`) and
`ParseRequest`/`ParseResponse`/`ParseMessage` stage by stage. `Parse` is what
one call does; a `Connection` keeps stage, header count, buffer and packet, and
`Resume` is one read followed by one call. The three words of a first line are
one stage with a counter. A content length is the `size_t` that the code makes of
an `int` (`AsSize`), so one below zero is larger than any body: `Tok(length)`
then takes all there is and the message never ends, or, where the sum of
position and length wraps around to before the position, the constructor of a
string throws. The stage is then `thrown`, and `Exchange!Receive` lets the process
end, as it does when a document cannot be written. Of the headers printed, those that nothing reads
(`Date`, `Server`, `Access-Control-...`) are left out.

`Json` gives the values, `String`, the two `Parse`s with the position after a
value and what was read before an exception (`Client::Insert` goes on with it),
and `Serialize`/`Deserialize` over cells. Three facts of the code are kept as
they are: an integer is read by `atoi` and loses its upper half, a floating
point number is printed with six digits, and an empty object or array prints
but does not parse. The operators are recursive, so no proofs are made here.

`Exchange` puts them together for connections of one request each:

| actions | code |
|---|---|
| `CallSome` (`Call`) | a step of a thread of test.cc:159-249, `SendRequest` up to its `Send` |
| `Return`, `GiveUp` (`Conclude`) | the end of `SyncRead`, tcp.cc:459, by the server's close or by time; `ParseResponse`; the result or the exception of `Client` |
| `Receive` (`Execute`) | `HandleClientEvent`, http.cc:957-988, with the handler of `api.cc` and the database's operation |
| `Send` | http.cc:989-1015, `TcpSocket::Send` |
| `Expire`, `Restart` | `DeleteExpiredConnections`; a process that ends and `Initialize` |
| `Speak` | HTTP from another client than this one |

`call` is what a thread waits for, `mirror` the map test.cc keeps per thread,
`database` the tree, `disk` the records the next start replays. A request whose
documents cannot be written (`Kills`: an array inside an array) ends the
process between two records, as the code does. `HttpServer` is the same
connection seen from the loop: there batches, descriptors and keep-alive count
and a request is head and tail; here one connection per call and every token
counts. `Storage` is the same disk seen from the files: here it never fails.

## 3. Runs

| run | instance | shows |
|---|---|---|
| `storage_kill` | 2 keys, documents of size 1 and 2, journals of at most 2 records, kills and torn appends anywhere but in a start that has installed its base and still has both journals to unlink | `TypeOK`; `Durable`: a loaded database is what the journal promised; `FlagTellsTheWorker`; `ClosedGoesOnlyOnceMerged` |
| `storage_live` | 1 key, kills, fairness | `ImplementsStore`: what a start would load changes only with a request; shutdown, rollover and rotation come to an end |
| `storage_faults` | 1 key, every fault: snapshots that fail noticed or not, kills before the unlinks too, torn appends | the flag stays right and shutdown ends even on damaged files |
| `storage_cleanup` | 2 keys, kills also before the unlinks of a start | violates `Durable` (finding 1) |
| `storage_torn` | 2 keys, torn appends | violates `AnswersSurvive` (finding 2) |
| `storage_write_fault` | 2 keys, a snapshot that fails and is noticed | violates `Durable` (finding 3) |
| `http_reuse` | 2 clients, 2 descriptors, 2 pieces each, responses of one send or past the limit, hang-ups, failing accepts, a listening socket that breaks | the tables agree, answers go to requests, nobody is closed without a reason, over stale events and reused descriptors |
| `http_keep_alive` | 1 client, 6 pieces, tails of the limit and past it, responses of two sends or past the limit, every way to leave | three requests on one connection, cut and pipelined in any way: executed and answered once, none lost, none cut off but for a reason |
| `http_live` | 2 clients, room for one, fairness | every connection ends, who waits gets in or is refused, a signal stops the server |
| `btree` | keys 1 to 11 of which one is updated, 12 nodes, fanouts 3 and 4, clearing | chain, balance, search, iterator, that no call gets stuck, and that `Map` implements `OrderedMap` |
| `exchange` | 2 threads and a stranger, three calls or letters or restarts, or one and a cut anywhere; ints of 10 bits, messages of at most 59 tokens; fairness | `CutsDoNotMatter`: a request parsed in pieces is the request parsed at once; `MirrorsAgree`: between its calls a thread's copy is what the database holds; `ExecutedOnce`; `RestartKeepsDocuments`; `ResultsMatchMirror`: the checks of test.cc; `OnlyCallsChangeDocuments`; `EveryCallEnds` |
| `json_boolean` | 1 thread that stores `false` | violates `RestartKeepsDocuments` (finding 4) |

Distinct states: `storage_kill` 1.4 million (with symmetry), `storage_live`
119 thousand, `storage_faults` 475 thousand, `http_reuse` 3.1 million (with
symmetry), `http_keep_alive` 2.3 million, `http_live` 268 thousand, `btree` 203
thousand, `exchange` 43 thousand large ones; the longest takes about three
minutes on two cores.

Bounds and why they are enough. *Storage*: with two keys, an operation on one
can be told from one on the other; two records in a journal make an insert and
a later erase or update of the same key, which is what goes wrong when a file
is replayed twice; sizes 1 and 2 make a journal that outgrows its base and one
that does not. Rollovers, kills and restarts are not bounded. Liveness runs
without symmetry on one key. *HttpServer*: two clients and two descriptors are
the least with which a number can be given again within a batch, in either
order; a third of each adds only another copy. The numbers of pieces let one
client have a complete request and a cut one, or three requests on one
connection. `MaxPayload` is 4 in `http_keep_alive`: two ordinary requests
that a client runs together fill the buffer as well as a large one does, and a
third does not fit; it is 3 in the other runs, where a
client sends two pieces and never comes to it. `http_live` has nothing large:
what meets the limit is closed in the step that meets it, and the run is about
connections that are not. Rounds of the loop are not bounded. Each run lets one of the server's
own descriptors break, any number of times: the listening socket in
`http_reuse`, the timer in `http_keep_alive`, the signal descriptor in
`http_live`. Deadlock is not checked there
because the server may have stopped and the clients may have nothing left to do.
*BTree*: the code's fanouts are 8. The run takes 4 for leaves, the least with
which a leaf still has keys when its siblings are looked at, and 3 for inner
nodes. Eleven keys are then enough for three levels: inner nodes are split,
redistributed and merged, and the root is replaced in both directions. The
`VIEW` takes two trees that differ only in addresses for one, and drops the
iterator between calls; no property looks at either. One key whose
value is replaced is enough to follow it through every move, and it sits in the
middle. Runs with an even inner
fanout, whose splits leave one half sparse, were simulated with 24 keys and
showed no error, but an exhaustive one takes too long to keep.

*Exchange*: `MaxEvents` is 3, and a call, a letter and a restart count one, a
cut two. Three calls are an insertion, an update and a search or an erasure of the
same document, or calls of two threads with a restart between them. One cut is
enough: `CutsDoNotMatter` says that after any first piece the connection is in
the state it would be in had the piece come at once, so every further piece
meets a state that the run covers as a whole prefix. `Draws` are the orders in
which the generator may give identifiers: in either of two opposite orders of
four, of which at most two are in use by then, a second draw collides with
the first or does not. `MaxPayload` is 59 tokens because then an insertion of the
instance is exactly that long (executed, not answered), an update is too long
to be sent, and an answer to a search is too long to be sent back. `MaxHeaders`
is 4, and one letter has more. Ten bits for an int make 600 an integer that does
not survive `atoi`; of the 16 bits of a `size_t` it only matters that they are
more. One letter has a content length below zero, on which the parser waits;
none has one on which it throws. Deadlock is not checked: the bound stops the threads.

Fairness. `Storage`: each thread that can take a step does (weak fairness of
`Startup`, `Handler`, `Join` and `Worker`: no step of the code waits for
anything but `join`, whose condition is the worker's end); the tick is strongly
fair, because the timer of ten seconds is served by the same loop between two
requests, so that a loop that keeps returning to `serving` keeps coming by it.
Requests, stops, kills and starts are never forced. `HttpServer`: the loop
(weak, `epoll_wait` returns when there is an event), the timer, and time for
each descriptor, and its own descriptors do not break for ever; clients and
signals are never forced to do anything. `Exchange`: epoll is level-triggered, so no connection
stays readable or writable for ever, and a client whose connection was closed
goes on. This is stated as `[]<>~Readable(p)` and so on, which is weak fairness
of `Receive`, `Send` and `Return`, because each of these steps consumes what
makes it possible; TLC evaluates it much faster than `ENABLED` of steps that
parse. No timeout is fair: `EveryCallEnds` does not wait for one. It asks
nothing of a call whose request went out in part only, because `SendRequest`
never sends the rest: such a call ends by `SyncRead`'s time limit.

## 4. Findings

1. service.cc:97: a start installs the new base before it removes the two
   journals it merged. Killed in between, the next start replays the closed
   journal onto a base that is past it; documents can come back or change
   (`storage_cleanup`).
2. journal.h:58: one record cut short by a kill makes the next start set the
   whole journal aside, with every change answered since the last rotation
   (`storage_torn`).
3. service.cc:125: when a rollover could not write its snapshot, the next one
   renames the current journal onto the closed one that is still needed
   (`storage_write_fault`).

4. json.cc:648 and :757: a boolean is written to journal and snapshot as the
   first byte of the `std::string` object that holds the word `true` or `false`,
   a part of a pointer; read back it is whatever that byte amounts to as a
   `bool` (`json_boolean`). The model takes two bytes that are not 0, with
   which every `false` becomes `true`; the other runs store no boolean.

What `exchange` shows beside that, and a reader of the code may not expect: an
insertion that the limit or a lost connection leaves without an answer has been
made, and its thread never learns the identifiers; the library's calls never
repeat anything, so at most once is what holds. `GiveUp` never returns a result: the
last `Send` and the close of the connection are one step of the server, so
a client that runs out of time has at best a part of the answer.

## 5. Proofs

All theorems hold for any values of the constants that satisfy the named
assumptions.

- `StorageProofs!TypeCorrect`, `FlagCorrect`: the types of `Storage` and that
  `rollover_in_progress_` is set exactly while a worker is at work, with every
  fault switched on. Neither is inductive alone: `Shape` adds where the
  threads may be relative to each other (a worker only runs while the main
  thread serves, applies, or joins).
- `StorageProofs!Durability`, `ClosedIsMerged`: under
  `NoLoss == ~CleanupCrashes /\ WriteFaults = {}`, that is, in the absence of
  findings 1 and 3, but with kills everywhere else and torn appends. The
  invariant `IInv` (module `StorageInvariant`) ties files, trees and program
  counters together. Its core is that `promised` and `rotated` are *walks*
  along the files' records: replaying a file over the state it began with
  follows the walk. A kill between the worker's installing a base and its
  unlinking the closed journal makes a start replay that file over its final
  state; `Overlay` says what the database is then after each record, and the
  lemmas `OverlayStep` and `OverlayEnd` that it either throws or comes back to
  the final state. TLC checked `IInv` as an invariant before it was proved.
- `HttpServerProofs!TypeCorrect`, `TablesAgree`: types and the agreement of
  `connections_`, epoll and sockets, by the invariant
  `TablesInv == Slots /\ Queue /\ Rest`. `Slots` says in addition that a
  descriptor without a connection that still has an owner is one `Accept`
  lost, and `Queue` that the backlog holds waiting clients without repetition:
  without it an accepted client could be one that is connected already.

- `RefinementProofs!StoreIsImplemented`: under `NoLoss` and `~TornAppends`
  every step of `Storage` is a step of `Store` or none (`ImplementsStore`). The
  refinement mapping is `Recoverable`: what a start would read off the files as
  they are. `Journal!Replay` defines that without recursion, by the last record
  of each key, while `IInv` speaks of walks; the first part of the module shows
  the two to be the same (`ReplayWalks`), and that replaying a file over its
  own result changes nothing (`ReplayAgain`), by an induction over the number
  of records (`Climb`: a set that contains 0 and each successor is `Nat`, from
  the well-foundedness of `<`). The second part concludes from `IInv` that
  `Recoverable = Target`, the last state the journals promised, with which only
  `AppendRecord` can do anything. Both assumptions are needed: they are what
  findings 1 to 3 turn on.
- `HttpAnswersProofs!AnswersAreRight`, `NothingIsLost`, `PromiseIsKept`,
  `NoneIsDroppedByChance`: all properties of `HttpServer` that are not liveness.
  None is inductive. `TablesInv` is strengthened by `Conversations` and `Events`
  (module `HttpServerInvariant`). The first relates a connection's buffer to
  what its client sent: the buffer holds the last pieces that came in, those
  before it hold a request for every answer, and of a patient client no more
  than that. Without it `Restart`, which clears the buffer, could lose a request
  that a later state should have executed. The second says which events can
  still be in the batch: one that was reported for the connection now at its
  descriptor and agrees with its interest, or one for a connection that is
  fresh. Without it a stale event could close any connection. What a read takes
  is bounded by `Fitting`, a beginning of what waits, and what it leaves is
  compared with the limit by `TooLarge`, so that the two excuses of size hold in
  the state before the step that closes. TLC checked the
  invariant on the instances of the runs before it was proved.
- `HttpMessageProofs!CutsAreHealed`: parsing after a cut leads to the same
  connection as parsing the whole, for any texts, headers and cuts. A delimiter
  that was found is found at the same place when the buffer goes on
  (`FoundStays`), so a step of the parser before a piece comes in and the same
  step after it give the same; a body that is not all there is made up for by
  the next step (`BodyProceeds`). Every step reads on or is the last that changes
  anything, so `Parse`, which takes one step more than there are tokens left, has
  come to its end (`RunSettles`), and steps taken in advance can be left out one
  by one. The theorem covers any number of cuts, because it also says that the
  connections it is about are closed under pieces. Content lengths below zero are
  among the texts: the sum of position and missing length stays the same while a
  body grows, so it wraps around at every read or at none (`UntilIs`), and then
  the parser throws at the first token after the head wherever the cuts are. For
  this the body must be shorter than its length while it is read (`Unfilled`).
  The hypothesis `PowersOfTwo` says that the powers of two by which `atoi` and
  `size_t` wrap are natural numbers, an arithmetic fact about `^` that the provers
  do not have.
  `Exchange!CutsDoNotMatter` is this for the messages of a run; it cannot be
  stated as a theorem there, because `Exchange` reaches the recursive `Json`.
- `BTreeProofs!TypeIsKept`, `Balanced`, `CallsProceed`, `Found`,
  `MapIsWritten`, `EraseReturns`, `MapIsImplemented`: every property of run
  `btree`, for any keys and nodes and any fanouts from 3 (inner nodes) and 4
  (leaves) on, those of the code included. None is inductive: what a search finds
  depends on separators that may be older than any key, and `TreeIsBalanced`
  and `EveryKeyIsFound` hold only between calls, while the invariant has to hold
  between the rounds of a call. `Inv` (module `BTreeInvariant`) describes a tree
  by three functions of its nodes: a height `t`, and bounds `lo` and `hi` of the
  keys that may be below a node. Kids are one less high than their parent and know
  it (`Shape`); the keys of a parent are where the bounds of its kids meet, and
  nodes of one height have bounds that do not overlap (`Ordered`); a leaf is
  followed by the one whose bounds begin where its own end (`Chained`); sizes are
  right but for the node the loop of `Erase` looks at (`Filled`). While
  `PropagateUpwards` is on its way, the new node `kin` is beside the tree: the
  parent still has `current` stand for both.

  That picture carries all steps. A split divides the bounds of a node between it
  and `kin`, and linking `kin` into the parent ends the picture or moves it one
  level up. A move between siblings is taken apart: the right one leaves the
  parent and is beside the tree, the two are joined, divided at another key, and
  the right one is linked in again; a merge is the first half of that. So one
  lemma for each of these parts, on leaves and on inner nodes, serves all four
  kinds of rebalancing. Each also says that `Content`, the keys in the leaves with
  their values, stays what it is, which makes the step a stutter of `OrderedMap`;
  only `InsertFirst`, `Insert`, `Update`, `Erase` and `Clear` change it, as the
  actions of `OrderedMap` say. What `Locate`, `Reachable` and `Depth` compute follows
  from `Inv` by induction over heights, what is written along the chain by
  induction over the order of the leaves (`ClimbTo`, from the well-foundedness of
  `<`; the recursive functions are shown to exist first, because `CHOOSE` says
  nothing of one that does not). `IteratorInv` adds, for `EraseReturns`, that the
  iterator is at the smallest key above the erased one throughout the call, and in
  the leaf looked at or at the start of the next, which is why the code only has to
  adjust it for these two. `CallsProceed` needs that a sparse node which gets
  nothing from a sibling fits into one node with it, and that it
  has one: only the node looked at may be an inner node without keys.

  `FreedAssumption` says that a freed address holds no node. Nothing is assumed of
  the number of addresses: where there is none left, `HasRoom` stops the step, and
  the theorems are about every state reached till then.
- `BTreeNodeProofs!SplitKeepsTheLeaf`, `MoveKeepsTheLeaves`,
  `MergeKeepsTheLeaves`: what the three operations on leaves do in any heap, also
  one that is no tree, beyond what the theorems above need of them: how the keys
  and values of the two leaves lie in order, the chain both ways, the sizes, and
  that a merge removes from the parent the separator between the two and no other.
  Their hypotheses (siblings under one parent whose kids and keys are distinct, a
  leaf one over full, none more than one short) hold at every call by `Inv`.

Only model-checked: every liveness property (fairness and `ENABLED` are beyond
the prover); everything about `Exchange` and `Json`, whose recursive operators
the provers cannot reason about; and the counterexamples behind the findings.
`Inv` of `BTree` asks for functions that TLC would have to enumerate, so TLC has
checked its consequences, the properties of run `btree`, and not `Inv` itself.

## 6. Not modelled

- `Storage`: `Find` and refused items (they change nothing; `Exchange` has
  them), the size of documents beyond what `RotationDue` compares, more than one
  database.
- `HttpServer`: `epoll_wait` or `epoll_ctl` failing on a descriptor that is open
  and registered, a new descriptor of the server's own that takes another number
  than the one it replaces; what a handler does, how a request is parsed beyond
  head and tail, and that either may end the process (`Exchange`).
- `BTree`: copying and `Deserialize`, which are loops of `Insert` in ascending
  order, `operator--` (it names a member that does not exist and is never
  instantiated). The fanouts differ from the code's.
- `Multimap`: nothing in the repository uses it.
- `HttpMessage`: a cut within a word, headers that nothing reads (section 2).
- `Exchange`: several requests on one connection (`HttpServer`), failing disks,
  rotation and rollover (`Storage`), names and connection attempts of
  `TcpSocket::Connect`.
- Loading of the users' file, start and daemon, base 64 and hashes as functions
  of bytes, logging, traces, the clock: see `PROJECT.json`.

## 7. Plan

Done: storage, server, tree, messages, JSON, the exchange that joins client and
server, and proofs of every safety property the runs check outside `Exchange`. Left:

1. `System`: `HttpServer` and `Storage` composed, the tick coming from
   `HandleTimerEvent` and `Shutdown` from the end of `Serve`. Property: an
   answered change is durable.
2. `Multimap` over `OrderedMap`, should it get a caller.
