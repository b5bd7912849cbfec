# A TLA+ model of the cache, its evictors and its server

The repository is a networked key-value cache: a library (`cache_lib.cc`) with
pluggable eviction (`lru_evictor.cc`, `fifo_evictor.cc`), an HTTP server around
it on Boost.Beast (`cache_server.cc`), a client with the library's interface
(`cache_client.cc`), and programs that load and measure the server.

## 1. Inventory

| component | state | operations | meets |
|---|---|---|---|
| cache library, `Cache::Impl` | hash table key → (buffer, size), `current_mem`, `my_maxmem`, pointer to an evictor; a global mutex | `set`, `get`, `del`, `space_used`, `reset` | calls the evictor inside its critical sections; `get` hands out a pointer into the table |
| LRU evictor | doubly linked list of nodes, `head`, `tail`, hash table key → node; a global mutex | `touch_key`, `evict` | never told of deletions |
| FIFO evictor | a queue of keys | `touch_key`, `evict` | one entry per touch |
| request handler, `handle_request` | locals only | GET, PUT, DELETE, HEAD, POST /reset | one or two library calls per request, from any thread of the pool |
| session | stream, `req_`, `res_`, 30 s timer | `do_read`, `on_read`, `on_write`, `do_close` | one per connection, on its own strand |
| argument parsing, `set_params` | `maxmem`, address, port, threads | one pass over `argv` | before anything else of `main` |
| listener, `main` | acceptor, the pool of `-t` threads, the evictor and the cache | the listener's constructor, `do_accept`, `on_accept`, `ioc.run()`, the deletions | makes sessions |
| network client | one TCP connection made in the constructor | the library's operations, one HTTP request each | blocks until it has the reply |
| benchmark, statistics | threads with a client each, one vector of measurements | a loop of requests, joins, a report | use the client and the workload generator |
| workload generator | a pool of random keys | draws a key, a value, a kind of request | – |

**What is hard.** Threads of the pool interleave between library calls, and a
GET uses a pointer after the call that returned it. The evictor's keys and the
table's keys drift apart, because deletions are not reported. `set` evicts in
a loop whose condition and increment are computed from values that the loop
itself changes, in `int` from `uint32_t`. The LRU list is relinked by hand in
six branches. On the network a reply's framing decides whether the server
closes, a timer runs across read and write, and the client waits without a
timeout; a request that the server cannot read gets no reply at all. An exception (JSON
that is no UTF-8, a stream at its end) passes through code that catches nothing, and
`main` goes on after a listener that could not be made. `PROJECT.json` lists each hazard at its line with the properties
meant for it.

**What makes each part correct.** *Library*: accounts equal to the contents,
never above `maxmem`; owned buffers; assertions that never fail; refusal of
precisely what does not fit; calls that return; LRU behaviour. *Evictor*: list,
links and table agree, and together are the recency order. *Handler*: live
pointers, headers that describe the request's effect, no overlap inside `set` and
`reset`, progress of the pool. *Connection*: replies that answer the request
waited for, requests executed once, errors only where they have a cause,
connections let go of. *Process*: the pool whole or the process ended, objects
deleted when nobody uses them, parameters as given. *Texts*: which keys and values
come back as they went. *Load programs*: reports of complete runs only.

## 2. Modules

| module | what it is | code |
|---|---|---|
| `EvictionOrder` | an evictor as a sequence of keys, next victim first | `touch_key`, `evict` of both evictors |
| `CacheLib` | the library with an LRU, a FIFO or no evictor | `cache_lib.cc` |
| `LRUCache` | the promise: an atomic map and which of its keys was used before which | the results of `cache_lib.cc`'s operations |
| `CacheRefinement` | `CacheLib` implements `LRUCache` | – |
| `EvictorSpec`, `LRUEvictor` | the order as a state machine; the linked list that implements it | `lru_evictor.cc` |
| `CacheServer` | `handle_request` on a pool of threads; extends `CacheLib` | `cache_server.cc` 138–306 |
| `Connection` | client, TCP streams, accept loop and sessions | `cache_server.cc` 310–448, 742–770, `cache_client.cc` 35–83 |
| `WireCodec` | targets and JSON between client and `handle_request` | `cache_client.cc` 85–149, `cache_server.cc` 184–297 |
| `ServerLifecycle` | `set_params`, the listener's constructor, the pool, exceptions, the deletions | `cache_server.cc` 57–130, 365–447, 690–836 |
| `LoadTools` | benchmark, statistics and the keys they draw; extends `Connection` | `benchmark.cc`, `statistics.cc`, `workload_generator.cc` 89–125 |
| `MC…` | for TLC: symmetry sets, and in `MCCacheLib` the assumption of ordinary use | – |
| `EvictionOrderProofs`, `CacheLibProofs`, `LRUEvictorProofs`, `CacheServerProofs`, `ConnectionProofs`, `LoadToolsProofs`, `ServerLifecycleProofs`, `WireCodecProofs` | theorems about the module of that name, those of `CacheLibProofs` and `LRUEvictorProofs` also about the refinements | – |

**`CacheLib`.** Every operation holds the global mutex from start to end, so
`get` and `del` are one step each (`GetHit`, `Del`; a miss or a deletion of an
absent key changes nothing). `set` is `SetRefused` (one of the early returns)
or `SetBegin` (copy, `size_change`), any number of `EvictStale` and
`EvictEntry` (the two ways through an iteration of the loop) and `SetFinish`.
`reset` is `ResetBegin`, one `ResetFree` per entry in any order (the order of a
hash table) and `ResetEnd`. `setting` holds the locals of the `set` under way,
`resetting` says that a `reset` is. Values are buffer addresses and sizes; the
bytes do not matter. `my_evictor` is the constructor's argument: `Policies` says
which of `"LRU"`, `"FIFO"` and `"none"` (a null pointer) it may be. Integers have the widths of the code, scaled down:
`uint32_t` has the values `0 .. 2*IntMax+1`, and a signed sum that overflows
(undefined in C++) may wrap or come out exactly. A failed assertion ends the
process: `failed` names it and nothing is enabled afterwards.

**`LRUCache`.** The recency order is a relation, the pairs of keys of which the first
was used before the second. A `Put` keeps a key when there is room for the new value
together with that key and all that were used since (`Kept`); it is stated without
a loop and without an order of evictions, so that `CacheRefinement` has something to show:
that the loop of `set`, with stale keys in its way and the key being set among its
victims, leaves just those. The bytes of some keys are counted as the cardinality of a
set (`Total`). While the loop runs, the abstract state is the one the finished insertion
will have.

**`LRUEvictor`.** `node` maps allocated addresses to key, `prev` and `next`;
`touch_key` has one action per branch of the code, `evict` two. `victim` is what
the last `evict` returned.

**`CacheServer`.** A thread's `pc` says between which library calls of its
request it is: `copy` (GET has the pointer, not yet the string), `set`, `reset`
(inside the library), `header` (before `space_used`). `pool` is chosen at the
start, any non-empty set of threads, and stays: `-t` is 1 or more.

**`Connection`.** Each client has one connection, `up` and `down` are its two
streams of whole messages with `Fin` for the end. A request is one the server reads
(`"request"`) or not (`"bad"`: a space in the key, a value that fills more than a header
may): `on_read` then gets an error and the session ends as it does at the end of
the stream (`OnReadEnd`). `wrote` is the kind of the last request. `reply` is `res_`; `expired`
holds the connections whose timer ended the session, `lost` those that ended with the
server's process (`ServerDies`, at any time; which requests bring it about is the
matter of `ServerLifecycle` and `WireCodec`). A client that is made afterwards
cannot connect (`ConnectThrows`). Replies are of two
kinds, for that is all the connection sees: 400 and 404 get a length from
`prepare_payload()` and the request's keep-alive; a 200 has no length, so
Beast's `need_eof()` is true, the server closes behind it, and the client's read
is complete when the stream ends. These rules of Beast and TCP are external
(`Fin`, `Message`, `IsWhole`, `Written`). What is abstracted: partial messages,
resets as opposed to orderly closes (the client throws on both), and the
cache's contents, which `CacheServer` models. `Leave` is both `~Impl` and a
client killed at any moment.

**`ServerLifecycle`.** `argv` holds options; an argument is a number, an address
or a text standing for all that `is_number` and `is_ip` refuse (`Malformed`), or that
`is_ip` takes and `make_address` does not (`Dotted`). `main` is where the thread of
`main` is; the others are in `pool` as soon as they are started. `handler[t]` is
what a thread runs: an accept's handler or a session's. What the handlers do is
elsewhere; here they return, throw, keep or end their session. `Unwind` is what leaving the
`try` block destroys, `LeavesThread` what `std::thread` does with an exception.
`dangling` records the call of `evict()` on the deleted evictor.

**`WireCodec`.** The only module with texts: sequences of the characters
that something on the way treats in its own manner, one `"a"` for all others
and the words `key` and `value` as single symbols. The server's cache is a function from
texts to texts with the library's comparisons on sizes: a set is refused, and
answered with a 200 all the same (`PutRefused`), or evicts as little as makes room
(`PutStored`; which keys, in the order of their last uses, is `CacheLib`'s matter), or fails
the assertion on what `evict()` returns (`PutAborts`), because the value is too large
or because the evictor has the key `""` (`knowsEmpty`). `MaxTarget` is the longest
target whose header Beast's parser takes. The `Serve…` and `Put…`
actions are the branches of `handle_request`; `ResultOfGet` is the search
through the JSON's text in the client's `get`. The variable `ordinary` is auxiliary: it
remembers whether all calls so far satisfied `OrdinaryCall`.

**`LoadTools`.** The threads of a load program are `Connection`'s clients,
with a loop around them; further clients are other processes. `Indices` are the
results of `prompt_key`'s arithmetic, with the uniform draw in quarters. `nthread` and
`nreq` are the `int`s that `atoi` returns, negative ones too; a negative `nthread` makes no
thread, and `req_size` is their product in `int`, which wraps or comes out exactly where it
overflows. `Dies` is
an exception nobody catches: the process, all its threads and connections.

## 3. Runs

| run | question | bounds |
|---|---|---|
| `library` | are the accounts, the heap, the evictor and the early returns right, with LRU, FIFO and no evictor? | 3 keys, 5 buffers, maxmem 4, sizes 0–4 and 9, a queue of at most 5 |
| `lru_cache` | is it an LRU cache, and do its calls return? | 3 keys, 4 buffers, maxmem 3, sizes 1, 2, 7 |
| `lru_list` | does the linked list implement the order? | 4 keys, 4 nodes |
| `pool` | do threads exclude one another, and make progress? Is the default, one thread, safe in its use of pointers and headers? | 1 or 2 threads, 2 keys, 4 buffers, maxmem 2 |
| `load` | do requests and replies stay in step, when does a request throw, do sessions and calls end? What do the load programs report, when does their assertion fail, and when do they die? | 2 clients, 2 requests each, 1 socket; 0, 1 or 2 of the clients threads of the program, asked for as -1 to 2 threads with -2 to 2 requests; 1 warm-up iteration; 3 keys or none |
| `lifecycle` | which command lines give which server, and how can it end? | 2 options, at most 3 threads, 2 sessions |
| `wire` | which keys and values survive the way there and back, and what keeps the server up? | 10 keys, 10 values, maxmem 3, targets of at most 12 bytes |

Why these bounds: three keys and maxmem 4 give a victim that is stale, one that
is the key being set and one that is neither, several evictions for one
insertion, and a key deleted and set again. Five buffers allow leaked copies
next to a full table and a `set` under way; when leaks have used up the heap,
`set` blocks where the program would get memory. Four nodes give a
head, a tail and two middle nodes, so that a relinked node has neighbours of
every kind. Two threads suffice for each property of the pool, which relate
one thread to one other; `OneThreadIsSafe` is about the states with one. One socket for two clients makes the second wait in
the backlog and accept fail. Two requests are one that is answered
404 and leaves the connection to the next, or one that is answered 200 and one that finds
the connection closed; they are also a loop's warm-up and its measured iteration; with a bound on requests a client
that gets 404s without end, and so keeps the only socket, does not occur. Two options
let one letter be given twice; `IntMax` 3 and `PortMod` 2 put a number beyond
`int`, a port that is cut and `-t 0` among four numbers. The texts of
`MCWireCodec` have every character in every place that matters to a search: alone, first,
last, and the two marks of the client's search inside keys and values; maxmem 3 holds
the smallest value three times, refuses the largest on its own and lets it pass as an
overwrite, and the longest key fits in a target of 12 bytes with short values only. The
100 segments of the distribution are the code's own. `MaxQueue`, `MaxRequests`,
`MaxSockets`, `MaxOptions`, `MaxSessions` and `Buffers` are the bounds;
`IntMax`, `PortMod`, `MaxTarget` and `WarmUp` scale numbers of the code down; symmetry is used only where values are merely
compared, and in no liveness run. `CHECK_DEADLOCK` is off in `load`,
where every client may have left, in `lifecycle`, where the process ends, and in the runs that
expect a violation, where a failed assertion stops the program.

**Ordinary use.** The passing runs of the library take sizes that satisfy
`OrdinaryUse` (`MCCacheLib` assumes it): no key is `""`, `2 * maxmem <= INT_MAX`,
and a value either fits or is too large even to overwrite. What happens
otherwise is the subject of the runs that expect a violation:

| run | what the code does | against |
|---|---|---|
| `oversize` | overwriting with a value above `maxmem` by a growth of at most `maxmem` empties the cache and aborts on the assertion at `cache_lib.cc:83` | `cache.hh:58` "If unable, the new value isn't inserted" |
| `empty_key` | evicting the key `""` aborts on the same assertion | `evictor.hh:27` |
| `overflow` | `maxmem` above `INT_MAX/2`: the loop ends early, `cache_lib.cc:99` aborts | `cache.hh:35` |
| `dangling` | with two threads GET copies a deleted value | `README.md:10` |
| `reuse` | the request after the first 200 throws `end_of_stream` | `README.md:18` |

A `maxmem` above `INT_MAX`, which `OrdinaryUse` excludes as well, makes
`int(my_maxmem)` negative (`cache_lib.cc:69`), so that `set` refuses every value.

The key `""` does the same to `reset`, whose draining loop it ends early
(`cache_lib.cc:144`); `ResetLeavesNothing` holds because `OrdinaryUse` leaves that
key out.

`reuse` explains the "end of stream" of the repository's README, which reports it
for "excatly the second request" and could not locate it. The cause is not in
`do_close`: replies with status 200 are sent without `prepare_payload()`, so they
carry no length and the server has to end the stream behind them. The
passing property `ThrowsOnlyWithCause` says what else makes a request throw: that
the server cannot read it, the timer, and the end of the server's process. A 404 or 400,
which has a length, leaves the connection usable. A request that cannot be read leaves
it too without a reply, so that the client sees the same "end of stream" at its
first request, if the key of that has a space. `SuccessAborts` is its consequence for the load programs: the first
200 one of their threads gets ends the whole program, unless it was the thread's last
request.

**What the other runs show.** `wire`: a key with a slash is stored under another key, and
a value above `maxmem` is answered with a 200 and not stored (`SetsExactlyItsKey` has
both as an equivalence: an answered set does what was meant exactly when there is no
slash in the key and the value fits); a value with a quote or a backslash comes back in its
escaped form, since the client does not undo what `dump()` does, and cut short at a `"}` inside it; for a value that starts with `}`, or
a key with `"}` or starting with `}`, the end mark is found before the begin
mark, the length is negative and the behaviour undefined (`ReadsExactlyReadable` has all
of this as equivalences). Bytes that are not UTF-8 are accepted by PUT and stop the server on the
next GET of their key; an overwrite with a value above `maxmem` and an eviction that may
meet the key `""` stop it as well. `OrdinaryCallsAreServed` says that nothing stops it, and no
call is left without reply, while every call is readable and every set has a key of at
least one character without slash, text only and a value that fits, in whatever order calls,
evictions, deletions and resets come; values of just `maxmem` are among them. `load`: the
assertion of `benchmark` can fail for a negative number of threads or of requests and for a
product beyond `int`, and for nothing else (`ReportsWholeRun`); two negative numbers fail it
although their product is positive. `lifecycle`: `case '?'` of `set_params` is
never reached, for `std::string(optarg)` of a null pointer comes first
(`OptionThrows`); a port above 65535 is cut (`ConfiguredAsAsked`); a server whose `bind` failed
runs for good, since `on_accept` accepts again after any error, and for the same reason
`ioc.run()` never returns and the deletions behind it never happen
(`RunEndsOnlyInSession`). They do happen in the `catch` block, where `~Cache` calls
`evict()` on the deleted evictor; by then no thread or session is left
(`DestroyedUnused`). An exception in a thread of the pool, or in `main`
while there are threads to join, ends the process (`WholePool`).

## 4. Fairness

`CacheLib!FairSpec`: the thread that holds the mutex goes on running
(`WF(SetLoop)`, `WF(ResetLoop)`); no fairness for calls being made.
`CacheServer!ServerFairSpec`: a thread that serves a request goes on
(`WF(Continue(w))` per thread); none for requests arriving. Waiting for the
mutex is not assumed to be fair, so only the pool as a whole is shown to
progress. `Connection!FairSpec`: ready handlers and expired timers are run by
`io_context::run`, pending connections are accepted when a socket is to be had, a
reader wakes up when its stream has a whole reply or its end; clients need not
send, nor leave, and the server need not die. `LoadTools!ToolFairSpec` adds that the threads of the load program go on
running (they are in a loop, not waiting for a user) and that `main` goes on after the joins; the
other clients are as in `Connection`.

## 5. Proofs

TLAPS checks, for every value of the constants that the modules' assumptions
allow:

| module | theorems |
|---|---|
| `CacheLibProofs` | any keys, sizes and policy: `TypeCorrect`, `HeapIsSound`, `ListHasNoDuplicates`, `EvictorKnowsEveryKey`, `LeaksAreRefusals`; if `""` is not a key: `ResetIsComplete`; under `OrdinaryUse`: `AccountingIsExact`, `MemoryIsBounded`, `AssertionsNeverFail`, `SizeChangeStaysExact`, `RefusalsAreExact`, and with an LRU evictor `LibraryIsAnLRUCache`: the library implements `LRUCache` |
| `LRUEvictorProofs` | `ListPointersAreValid`, `ListAssertionsHold`, `ListIsDoublyLinked`, `ListIndexIsExact`, `ListIsOneLine` (stated there; no run needs it), `ListImplementsOrder`: `Spec => ImplementsEvictor` |
| `CacheServerProofs` | `ServerUsesLibrary`, `ServedCacheIsCorrect` and `ServedCacheIsAnLRUCache` (under `OrdinaryUse`), `ServerTypes`, `MutexHasOneHolder`, `OneThreadReadsWhatItWrote` |
| `ConnectionProofs` | `ConnectionTypes`, `AnswersAreCurrent`, `NothingIsLeftOver`, `RequestsAreExecutedOnce`, `ThrowsHaveACause` |
| `LoadToolsProofs` | `ReportsCoverTheRun`, `DrawsAreFromThePool`, `LoadedConnectionsAreSound` |
| `ServerLifecycleProofs` | `LifecycleTypes`, `OptionsAreFollowed`, `PoolIsWhole`, `DeletionsComeLast`, `RunEndsByException` |
| `WireCodecProofs` | texts of any characters and lengths: `SetsWhatWasMeant`, `GetReadsTheReadable`, `OrdinaryCallsSucceed` |

`EvictionOrderProofs` has the lemmas that several of them cite: what `Position`,
`LRUTouch`, `FIFOTouch`, `EvictRest` and `Drained` return. Every safety property of
the passing runs is proved, and both refinements.

**Assumptions.** Besides the ranges of numbers: the sentinels (`NoSet`, `NoBuf`,
`Null`) are none of the values they stand beside; keys and values of `WireCodec` are
sequences of strings (its `TextsAssumption`); the sets of threads are finite
(`WorkersAssumption`, `LoadAssumption`; `Cardinality` says nothing of others); the
sorts of arguments on the command line are told apart (`TextsAssumption` of
`ServerLifecycle`); `int`
holds at least 1 and a port 2 values, so that the defaults `-t 1` and the port's
are values of their types; a program is given as many threads as `nthread` asks for, none for
a negative number (`LoadAssumption`); `statistics` has one thread and casts its number of
requests to unsigned, which is modelled for numbers that are not negative. TLC evaluates each of them in a run.

*Library.* `TypeOK` is inductive. `HeapSound` and `OneNodePerKey` are inductive
with it. `EvictorCoversTable` needs that a set under way leaves the order's keys
a superset of the table's at every iteration: an evicted key is
either stale or freed. The rest is one invariant, `LibraryInv`: `Accounting`,
`WithinMaxMem`, `SizeChangeExact`, `NoAssertionFails`, `EvictorCoversTable`, that
the set of bytes stored is finite (the sum of sizes is stated as its cardinality,
which needs no recursion and so no induction), and `UnderwayFits`: the value
being set is no larger than `maxmem`. That last part is why assertion 83 holds:
if the table is empty nothing exceeds `maxmem`, so when the loop goes on there
is a key in the table, and the evictor knows it. Without `OrdinaryUse` it
is false, which is the run `oversize`. `RefusalsAreExact` follows from
`LibraryInv` by arithmetic: within `OrdinaryUse` no sum leaves `int`. `LeaksAreRefusals`
is one lemma per action on what becomes of the buffers no table entry or set owns.

*Library as an LRU cache.* Of `LibraryInv` the refinement needs that the accounts are
exact, that the evictor knows each key of the table, once, and that the value being
set fits. With the recency relation read off the evictor's sequence
(`Precedes`), a touch is `Used` on it (`RecencyTouched`) and an eviction takes the key that precedes
all others (`EvictPrecedes`). The heart is `EvictionKeepsResult`: when the loop goes on,
the least recently used key does not fit with all that were used since, so it
is not in `Kept`, and without it `Kept` is the same for each other key, also when the
evicted key is the one being set. So each `EvictEntry` is a stutter, each `EvictStale` too, and
when the loop ends everything is kept (`AllKept`), which makes `SetFinish` a stutter as
well: the abstract `Put` is the step `SetBegin`, before the first eviction.

*List.* `ListInv` strengthens `DoublyLinked` and `IndexExact` by `OneLine`: some
rank of the nodes rises along every `next`. Without it two agreeing links could
be a cycle beside the list, and the assertions about `head` would not follow from
`prev = nullptr`. Each branch of `touch_key` gives the new rank: the moved node's
is above all others.

*List as an order.* `ListOrder` walks from `head` as many steps as there are
nodes. `Listed` says that some sequence has every node once, from `head` to
`tail`, each followed by its `next`; `WalkMeetsListing` shows that the walk
is that sequence. It is an induction along the walk, done by the least place
where the two differ, since an induction theorem with an operator parameter cannot be
used. `ListInv` and `Listed` are inductive together. `LinksLast` is what the four
branches that link a node behind the tail have in common; for these the
new listing is `LRUTouch` of the old one, on nodes, and so are the keys. Touching the
tail leaves the listing, and `evict` leaves its `Tail`.

*Server.* `ServerUsesLibrary` is a refinement without a mapping: every action of
`CacheServer` is an action of `CacheLib` or leaves its variables alone.
All theorems about the library then hold behind the server, the refinement of
`LRUCache` with them. `ServerInv` adds who is
inside the library (`HolderInv`: a thread at `set` or `reset` is the only such one, and
`setting` and `resetting` agree with it), and for a pool of one what the thread
remembers: its pointer is live, the set under way is its own, the effect of its
request still stands when it writes the header. With a second thread the last part is
false, which is the run `dangling`.

*Connections.* `StreamsInv` gives for each client what its two streams hold, by
the states of client and session: between requests `up` is empty and `down` is, or has only the
end of the stream; while the client waits, either its request is in `up` and
nothing in `down`, or the request has been executed and its reply is being made, written,
in `down`, or lost with a session that expired or with the server's process. The end of
a stream always has its excuse (`Excused`): a request that cannot be read, a 200, the
timer or the process; and that is carried from the session that closes to
the client that throws. `BacklogInv` keeps a client from being accepted twice.

*Load programs.* `StreamsInv` holds for them too, with a step in which all
threads leave at once. `ToolInv` counts: the measurements are the cardinality of
the set of pairs of a thread and an iteration it has behind it, the warm-up left
out; a thread leaves after its last iteration with each request executed. The report is the
product of two numbers when all have left (`WholeRun`); where neither is negative and the product is an
`int`, `Wrapped` leaves it as it is and the assertion holds (`ReportKept`). `DrawsAreFromThePool` is arithmetic over
each place of the distribution and the clamp behind it.

*Life of the server.* `LifecycleInv` has a part for each phase: `ParseInv` (each
parameter is what the options read so far ask for, the last of each letter),
`PoolInv` (the threads made are `1 .. n`), `ServeInv` (while `main` makes threads or
runs, an accept is pending or being handled, which is why `ioc.run()` never returns; sessions
need an acceptor that listens) and `ObjectInv` (deletions are in the `catch` block
only, where nothing runs any more).

*Texts.* `TextsInv` and `KeysInv` say that all texts are texts, and that no key in the
cache has a slash, for PUT cuts at the first one (`PutKeyAndValue`): so a key with a slash
is never the one changed; and the value is there after a 200 unless set refused it, which it does
for no value that fits. `RepliesInv` ties the body of a 200 to the entry that the cache still
has. `OrdinaryCallsSucceed` rests on what ordinary calls leave behind (`OrdinaryInv`): an
evictor that does not know the key `""`, and entries that are UTF-8, so that what a GET
finds can be dumped; and an ordinary set has room when all others are evicted (`OrdinarySet`),
so that the loop never meets an empty evictor. The rest is about
`Escaped` and the searches in what it makes. `FlattenSeq` is a recursive function inside,
so its value is given in one piece: `Place(t, i)` is `i` and the number of special
characters up to there, `Spread` puts each character at its place with backslashes between,
and `EscapedIsSpread` shows the two equal by the least place where they differ.
`DumpLayout` says where each part of the JSON stands. In an escaped text every quote has a backslash before
it (`QuotesEscaped`), so the begin mark is found at the value whatever the key
(`ReadingBegins`); and a quote stands before a brace in it just where it does in
the text (`EscapedEnds`), so the end mark is found too early just when the key shows
one or the value begins with one (`ReadingEnds`). That a value with special characters never comes back
as it was is `SpecialEscaped`: if what was cut out were equal to it, then from its first special
character on all would be backslashes, up to the quote that ends the cut.

**Only model-checked.** Liveness: `CallsReturn`, `SomeWorkerReplies`, `SessionsEnd`,
`RequestsEnd`, `SuccessAborts`. Fairness needs `ENABLED`, which the prover does not treat.

## 6. Not modelled

- Of the client: name resolution, a `connect` that fails although the server is up, and the
  number that `space_used` takes from the header's text.
- A server that is started again after its process has ended.
- Of `set_params`: the texts themselves. `is_ip` reads the character at `end()`
  (`cache_server.cc:52`), the terminating zero of a `std::string` in practice.
- Of the load programs: the times, the percentile and throughput computed from them, the hit
  rate (which is `0/0` without a measured GET), the values that `statistics`
  leaks during its warm-up (`statistics.cc:35`), the distributions of sizes and kinds of
  request, a negative size of the key pool, a negative number of requests of `statistics`, and the
  assertion on `argc`.
- Memory that runs out anywhere but in a session or in the making of one.
- Of the HTTP parser: which texts it refuses besides a space in the target and a header
  above its limit, which `WireCodec` counts by the target alone.
- How long a FIFO queue may grow (`MaxQueue` caps it) and which key it should evict; what
  the header `Space-Used` describes when more than one thread serves requests; the
  evictor that `~Cache` calls after its deletion, which is recorded (`dangling`) and happens
  on every path that gets there.
- `max_load_factor` and the hash function, which do not change the contents.
- `catch.hpp`, a vendored test framework of 17615 lines that no file includes, and the part of
  `cache_server.cc` in comments (450–681), which is no code. Together they
  are nine tenths of the repository's lines; of the rest, what is left is mostly
  includes, declarations and the output of messages.
- `graph.py` and the `Makefile`.

## 7. Plan

Done: `EvictionOrder`, `CacheLib`, `LRUCache` and its refinement, `EvictorSpec` and
`LRUEvictor`, `CacheServer`, `Connection`, `ServerLifecycle`, `WireCodec`, `LoadTools`, and the
proofs of section 5.

The plan's modules and proofs are complete. What could follow:

1. The library over the linked list itself: `CacheLib` calls the order of `EvictionOrder`,
   which `LRUEvictor` is proved to implement; a module that composes the two
   would state it of the program as a whole.
2. The lemmas of `EvictionOrderProofs` for a key that is in a FIFO queue more than
   once.
