# TLA+ models of the solver boundary

The repository is a Python extension around the `yt-dlp-ejs` solver scripts: it
loads a player script (`base.js`) from a file or from a YouTube watch page, runs
the scripts in QuickJS on explicit `n` and `sig` requests, and returns the
answers. Beside the Python-facing part it has a second entry, `solve_format_url`,
which writes solved values into a format's URL and caches them across threads.

The models cover the program's own C++ and Python code (about 1000 lines directly in
`src/`) and, of the vendored `src/quickjs/` (about 86000 lines with its tables and
tools), the parts that carry state over time: memory management, maps, promises and
jobs, asynchronous generators, modules, workers, `Atomics.wait` and the event loop.

## Inventory

| Part | State | Operations | What makes it hard | What makes it correct |
|---|---|---|---|---|
| `solve_format_url`, `SolverSharedCache` (`solver_engine.cpp`, `yoube_model.h`) | four maps and a mutex shared by every copy of a `SolverAssets`; a `thread_local` engine per thread | lookup under the mutex, solve without it, store under it, write into the URL | several threads between lookup and store; engine outlives the assets of a call; exceptions; short replies | answers of the right player for the right request; failures reported; mutex released; nothing stored is recomputed |
| `SolverEngine` (`solver_engine.cpp`, `quickjs_raii.h`) | runtime, context, JavaScript values | construct, evaluate four scripts, `solve`, destroy | a throw at any point; destruction order | values before context before runtime on every path |
| Backend (`solver_boundary_py_backend.cpp`) | none between calls; files and web pages outside | `solve_requests_core`, `solve_requests_from_watch_core` | files change between check and read; redirects | responses answer their own requests under the script that was meant |
| HTTPS client (`http_utils.cpp`) | per stack frame a socket, an `SSL`, an `SSL_CTX` | connect, write, read, parse, follow a redirect | error paths at every step, nested frames, reuse of descriptor numbers | nothing leaks, nothing is released twice, every request ends that servers let end |
| Python wrappers (`solver_boundary_py_methods.cpp`) | references, the GIL | convert arguments, call the backend, convert results | error paths with references held | every reference given back once |
| JSON bridge (`quickjs_json_utils.cpp`) | references to values | convert JSON to JavaScript values and back | recursion, a failure half-way | the round trip keeps what `solve` reads |
| URL query utilities (`url_query_utils.cpp`) | none | decode, parse, set a parameter | repeated decoding | other parameters are decoded once per set and no more |
| `test.py` | none | check the arguments, pair them, solve, print | arguments that do not fit together | sends what was typed, or nothing |
| Entry point, `shared_cli_json.h` | none | module table; declarations of helpers without a source here | – | – |
| QuickJS: reference counts and collector (`quickjs.c`) | a count per object, three lists, weak references, registries | store, drop, allocate, collect, free the runtime | the collector may run between any two stores; finalizers free while it walks | nothing reachable is freed, all garbage is, no structure is used after its free |
| QuickJS: Map, Set and weak forms | records in a list and in hash chains, iterators that stand on records | set, delete, clear, resize, iterate, finalize | records deleted under iterators; keys that die | an ordered map for every iterator |
| QuickJS: promises and jobs | promises, reactions, pairs of resolving functions, the queue of jobs, the tracker of rejections | resolve, `then`, `finally`, combinators, `await`, run a job | thenables that call back twice or late; rejections handled late | settled once, each reaction once and in order, nothing forgotten |
| QuickJS: asynchronous generators | a queue of requests, six states | `next`, `throw`, `return`, resume the body, answer | calls while the body runs or awaits | each call answered once, in order, by its own resumption |
| QuickJS: modules | a status per module, waiting counts, cycle roots, export entries | load, link, evaluate, finish or fail an await, resolve a name | cycles, failures half-way, repeated imports, names on several ways | dependencies first, every import answered, one variable per name |
| QuickJS: workers and `Atomics` (`quickjs-libc.c`, `quickjs.c`) | message pipes with wakers, counts of shared buffers, a list of waiters on the threads' stacks | post, take, set a handler, end a thread; wait, notify | two threads; timeouts that race with notifications | messages in order, no lost wake-up, nothing used after its free |
| QuickJS: event loop (`quickjs-libc.c`) | timers, descriptor handlers, signal handlers, pending signals | set, clear, poll, call | callbacks that remove themselves, signals at any time | handlers are called for what happened, timers in order |
| QuickJS: the rest | bytecode, strings, numbers, tables | parse, compile, interpret, convert | size | not modelled, see below |

Interaction: Python calls the wrappers, these call the backend, which calls
`https_request` and builds a `SolverEngine`. `solve_format_url` builds its own
engine per thread; it has no caller in the repository and is modelled for any
number of threads, which is what the mutex, the `shared_ptr` and the
`thread_local` are there for.

`PROJECT.json` lists under `hazards` what is hard to test, at its line, with the
properties that watch it, and under `map` the source lines behind every definition.

## Modules

* **SolverCache** – `solve_format_url`. `values` and `errors` are the maps of each
  cache (`n_*` and `sig_*` joined by using the request as the key), `lock` its mutex,
  `engine` the `thread_local`, `pc`/`call`/`out` a thread's place, locals and result.
  One action per step: `Call` (entry checks), `LockForLookup`, `LookupOne`,
  `LookupDone`, `GetEngine`, `Solve`, `LockForStore`, `StoreOne`, `StoreDone`,
  `ApplyOne`, `ApplyDone`, `ThreadExit`. `Catch` is the `catch` block. A URL is the
  map of its parameters. `set_or_replace_query_param` decodes the name and the value of
  every parameter twice and encodes them once, so `SetParam` counts a decoding more for
  each text (`passes`) and moves it to what one decoding makes of its name (`Once`); of
  texts whose names become the same, the later one in the query stays (`LastOf`).
  `storedBy`, and `sets` and `unsaid` of a call, are history: who has stored a key, how often
  the URL has been rewritten, and which requests failed without a text.
* **SolverMemo** – what the cache promises: a table written one entry at a time with
  answers of its own player, from which nothing disappears.
* **SolverCacheProofs**, **HttpsRequestProofs**, **SolverBoundaryProofs**, **PyBoundaryProofs**,
  **JSWorkerProofs**, **JSAsyncGeneratorProofs**, **JSAtomicsProofs** – the theorems below, each
  about the module it is named after; **JSJobsProofs** has those about `JSPromise` and
  `JSEventLoop`.
* **HttpsRequest** – `https_request` and `tcp_connect`. `stack` holds a frame per
  nested call, `exc` the exception in flight, `openFds` and `heap` what the process
  holds. Descriptors are given out lowest first, other threads open and close their
  own (`OtherOpens`, `OtherCloses`). Every call may fail, a write may be partial, a
  read may end anywhere, a reply may redirect anywhere. A socket is open while `connect` to
  an address is tried, and closed before the next one. A body is plain, chunked, has a chunk
  size that wraps (`decode_chunked` goes round for ever, `Circles`) or never stops coming:
  `Endless` says when a request need not get any further. The head of a reply counts
  as one piece: a head that is cut before its empty line is no head at all
  ("bad HTTP response").
* **SolverBoundary** – the two backend functions and the engine they build, from the
  arguments to the destruction of the runtime. `files` may change between any two
  steps (`EditFile`). The network is seen as its caller sees it: the reply of the
  server at the end of the redirects, perhaps cut short, an exception, or no return at all
  (`NeverReturns`).
* **PyBoundary** – the two methods of the Python module. `th` is a thread's place with the
  references (`rc`) of its call, `gil` who may run, `content` the requests object, which
  may be lazy and may change (`Edit`), `ssl` the static flag. One action per call of the
  C API, each with its failures; an exception of the backend at any point; `Yield` gives
  the GIL away where `__getitem__` runs Python code. `https_request` returns, throws, or
  stays for one of the three reasons in `Forever`: silence, a stream without end, a chunk
  size that wraps.
* **ChunkedDecoder** – `decode_chunked` with positions of `Width` bits (`Add`, `Sub` are
  the unsigned arithmetic) on what a server has encoded and on any bytes.
* **UrlQuery** – decoding, parsing and setting a parameter on texts of a few bytes; this
  is the level below the parameters of `SolverCache`.
* **JsonBridge** – the two recursive conversions on small trees, with what each kind of
  value becomes. **TestCli** – the arguments of `test.py`.
* **JSGc** – `heap` is the runtime's memory (counts, marks, the lists, slots, targets of
  weak references, queued jobs); `Collector` is one step of `free_zero_refcount`,
  `gc_decref`, `gc_scan` or `gc_free_cycles`, object by object; `User` is what scripts do.
* **JSMap** – `map` with records, chains and iterators; **OrderedMap** is the abstract map
  with its log, and `IteratesInOrder` says that `JSMap` visits what it visits.
* **JSPromise** – `st` holds promises, pairs of resolving functions, combinators, jobs and
  what scripts have of the engine (`held`), with the history of the calls of `then`; `frame`
  is the job whose JavaScript code runs. What a call does is an operator from states to
  states, made of the operators of the calls it makes, and an action applies one. The loop
  of a combinator runs code of scripts (the iterator, a `then` of their own), so a
  combinator is called, gets its items one by one and ends or fails in steps of its own.
  `Ops` says which functions the scripts use. **JSAsyncGenerator** – `s` is the generator.
* **JSModules** – `graph` and `kind` are chosen at the beginning, `mods` is what
  `JSModuleDef` holds; an import links and evaluates as far as the code does before it
  returns, and an await that ends (`awaiting`) is a step of its own. **JSExports** – the
  entries of the modules are added one by one, and each reachable set of them is resolved.
  An exported import is a local entry, as in the code (`ImportEntry`), and the entries of a
  module in C have no local name (`CEntry`). `Resolve` is compared with the entries a name
  leads to (`Lookup`) and with the variables it can stand for (`Search`).
* **JSWorker** – two threads with a pipe each way; a step is what happens between two
  operations on a mutex. **JSAtomics** – threads, cells, waiters; a step is one access to
  shared memory or one operation on the mutex or a condition variable; the order of the list
  of waiters is kept as the set of those `ahead` of each. **JSEventLoop** –
  one turn of `js_std_loop` in steps, with time (what is left of it) and signals.
* **MCSolverCache**, **MCHttpsRequest**, **MCSolverBoundary**, **MCJSWorker** – the instances
  of one module each. **MCConversions**, **MCJSMemory**, **MCJSJobs**, **MCJSModules**
  and **MCProgress** hold several components each: the variable `part` says which one a
  behaviour is about, the others stay where they begin, and a property of the run states
  those of one subject together. Every named part of it is in its component's module. The
  first four of them extend the modules with theorems (`PyBoundary`, `JSAtomics`, `JSPromise`
  and `JSEventLoop`, `JSAsyncGenerator`), so that the run checks the very properties that are
  proved, and instantiate the others.

External, and therefore modelled from how the code uses them: the `jsc` function of
`core.min.js` (any mixture of answers, failures, short, long and malformed replies),
servers, the kernel's descriptors, other threads, the file system, the C API of Python.
Scripts do any operations in any order.

## Runs

| Run | Instance | Checks |
|---|---|---|
| `cache` | two threads, two calls each, `n` and `sig` request, errors and exceptions with and without text, one assets object without a cache, a URL with a name that is encoded twice; a format with two `n` requests and one of another type, and one whose `sp` is such a name | types, mutual exclusion, faithful cache and result, no silent drop, no repeated work, same answer for the same call, refinement of `SolverMemo` |
| `cache_two_players` (violation) | one thread, assets of two players | see findings |
| `https` | two requests, two redirects, two hosts with two addresses each, three descriptors, another thread; plain, chunked, wrapped and endless bodies | handles and descriptors owned by exactly one frame, one connection at a time and a bound on all, every request ends unless it is `Endless` |
| `boundary` | two calls, one file edit, request lists of length 0 to 2, valid and not | destruction order and nothing left, responses in place, the player that was meant, every call ends unless `https_request` does not |
| `boundary_two_hosts`, `boundary_null_runtime` (violations) | one call | see findings |
| `conversions` | one Python thread with every kind of bad item, and two threads; all bodies of up to 6 of 5 characters and messages of up to 2 chunks, 5-bit positions; queries of up to 3 bytes; trees of two levels; up to 6 words | `CallsAreClean`, `RequestsKept`, `DecodesWholeChunks`, `SetDecodesOthersOnce`, `LosesWhatIsKnown` |
| `memory` | two objects with two slots, a closed-over variable, a `WeakRef`, a registry, four mixtures; a Map of 3 records and 2 iterators, one of 5 records that resizes under an iterator, a WeakMap of 5 records that resizes; three threads that wait on one cell, two on two | `ReachableKept`, `CountsExact`, `CollectsGarbage`, `CallbackForTheDead`, `MapIsOrderedMap`, `WaitersAnswerNotify` |
| `jobs` | four mixtures of functions over up to 5 promises; two timers, a descriptor, two signals | `SettlesAndReactsOnce`, `NoneForgotten`, `OutcomesPassOn`, `HandlersCalledRight` |
| `modules` | every graph of three modules of six kinds, five graphs of four, three imports; up to 5 export entries in three modules (exported imports, references to the module itself and repeated star exports count twice); a generator with 5 calls and 4 stops | `ImportsRunInOrder`, `ResolvesExactly`, `GeneratorAnswers` |
| `worker` | two threads, two messages each way, a shared buffer, a main script that may throw | `MessagesInOrder`, `SharedUntilReleased` |
| `progress` | smaller instances of `SolverCache`, `PyBoundary`, `JSGc`, `JSPromise`, `JSWorker`, `JSAtomics`, `JSEventLoop` | `CallsReturn`, `EngineGoesOn`, `NobodyWaitsForEver` |

Bounds. Two threads are enough for every interleaving of the two critical sections
with each other, because a thread's step only depends on the cache and on itself;
two calls per thread make the second one see what the first has cached, and keep the
engine. Two requests give hit and miss in one call, three a miss that is not
where the request is; `FewCalls` has that format asked for by both threads at once, but once,
and the one with an encoded name by one thread alone. Two redirects give a frame below,
between and above; two addresses a failed one before one that answers, and three descriptors
allow reuse while another is live. One edit falls
between every pair of steps. `MaxCalls`, `MaxRequests`, `MaxEdits`, `MaxAddrs`,
`RequestLen` and `BodyLen` are the bounds by name; the other modules name theirs where
they declare them, and the MC modules where they narrow a part (`InPart`).

In QuickJS, two objects and a variable make every cycle through closures, three records
one that is deleted before, under and behind an iterator, three modules every cycle with
somebody outside it; four add diamonds. Two messages are the first, which signals, and
the next, which does not. Five bits of position make sizes that wrap and sizes that do
not. Three reductions are used: `modules` has a symmetry of the module names, since no
step looks at which module is which; in `memory` the lowest free address is taken
(`LowestFirst`), and the history of a WeakMap is left out of the view, since no property
of weak maps reads it.

Deadlock is not checked: a caller stops after its last call, and that is the end
of the behaviour. That nobody is stuck in the middle is what the liveness properties show.

Fairness. Each thread's step is weakly fair: a thread inside a call is never
disabled except while it waits for a mutex, and weak fairness suffices there because
each thread makes finitely many calls, so the mutex is in the end continuously free
(with callers that never stop it would take a fair mutex, which `std::mutex` is not).
This rests on the kernel, OpenSSL and the scripts to return; the code has no
timeouts. Where `https_request` itself need not return, nothing is fair: the step of a
request that is `Endless`, `EndlessThrows` and `ForeverEnds` may be taken or not. Callers, other threads and file edits are not fair.
In QuickJS the engine's own steps are weakly fair (the collector, the loop over jobs, a
thread between two operations, the passing of time), scripts and signals are not. A
thread at the mutex of `Atomics` gets strong fairness: other threads may take it again
and again, and the mutex of the system lets nobody starve.

Some properties say what they allow. `NoSilentDrop` allows three ways for a request to
go unanswered without a word, because the code has them: `jsc` returns too few
responses, it fails with an empty message (in this call, or in the one that cached the
failure), or the engine throws an empty text, which loses the hits of the call as well.
`unsaid` holds just the requests concerned, so that the missing report of any other
failure shows. It also allows an answer to move when `sp` is a name that decoding changes
(`Plain`). `ResultFaithful` allows what `set_or_replace_query_param` does to other
parameters, counted: one decoding per answer written. `SameAnswer` excepts formats that ask
twice for one parameter, where the answer depends on what was cached.
`PlayerIsTheOneMeant` allows a script that was cut short, which the client does
not detect. `CacheFaithful` allows the empty text, which `solve` gives for a result
without a string in it. `EveryRequestEnds`, `EveryCallEnds` and `PyCallReturns` except
servers that never stop sending and chunk sizes that wrap, the last also silent servers;
the first leaves those to its fairness. `AdvanceStep` of `ChunkedDecoder` excepts sums that
wrap, after which `decode_chunked` may go round for ever.

In QuickJS: `NoFault` of `JSMap` excepts `js_map_clear` when a value it frees is an iterator
on the next record; `NoFault` of `JSWorker` excepts the end of a main script that throws;
`AnswersInPlace` excepts items of `allSettled` whose `then` calls both functions;
`ReferencesBalance` excepts the item held while a string cannot be allocated;
`EveryReactionRuns` excepts jobs left behind by a callback that throws, and
`EveryTimerFires` signals without end. `WaitersAnswerNotify` says why a waiter answers ok,
and not that a notified one does. `ResolvesExactly` says of every name which entry is
found, and excepts four cases from what that entry stands for: `NamespacesMeet`,
`ImportsMeet`, `CNamesMeet` and `LeadsNowhere`.

Every property has mutants in `PROJECT.json`: changed definitions, kept beside the right
ones and marked as such, under which TLC finds it violated; a property with several parts
has one for most parts.

## Findings

* `cache_two_players`: the `thread_local` engine is built from the assets of the
  thread's first call; later calls with other assets use it all the same and store its
  answers in the cache of those other assets (`solver_engine.cpp:130`). Every theorem
  about faithfulness therefore has the assumption `OnePlayerPerThread`.
* `boundary_two_hosts`: `base.js` is fetched from the host of the watch URL, also when
  the page came from another host through a redirect
  (`solver_boundary_py_backend.cpp:139`).
* `boundary_null_runtime`: `JS_NewContext` gets the null runtime before the check that
  would report it (`solver_engine.cpp:31`).

Other places where the code and what is said about it part, which the models show as the
exceptions of a property or as reachable states, without a run of their own:

* `test.py` refuses the dash that its usage names (`sig_or_dash`, line 8 against line 31).
* `js_std_loop` looks for unhandled rejections also after a job that threw, with jobs
  still queued; the comment at `quickjs-libc.c:4214` wants it "once the application is
  about to sleep".
* A `Worker` object that is collected takes its handler along (`quickjs-libc.c:3555`),
  while the manual says that a thread with a handler is not terminated.
* A signal between the test of `os_pending_signals` and `select` waits for the next event
  (`quickjs-libc.c:2593`), and one inside `os_pending_signals &= ~mask` may be lost.
* `js_resolve_export1` compares the module and the local name of the entries it finds
  (`quickjs.c:28772`), where ECMAScript compares what they stand for. It takes one namespace
  exported under one name by two modules for ambiguous, and two of one module for one; an
  exported import and another export of the same variable for ambiguous, since an exported
  import stays a local entry (`quickjs.c:34592`); and two variables of one module in C for
  one, since their local names are all null (`quickjs.c:28460`). A name is also found when
  it is an exported import that leads nowhere. `JSExports` names the four cases.
* When modules in a cycle export what they import, linking may ask for a variable before it
  is bound and use a null pointer (`quickjs.c:29399`). `JSExports` stops at the entry found,
  `JSModules` links a module in one step: neither has the order in which variables are bound.
* `js_waker_signal` gives up on every error of `write`, also `EINTR`, although its test
  names that one (`quickjs-libc.c:2322`). The pipe holds one byte at most, so that the write
  neither blocks nor fails, and `Signal` of `JSWorker` always succeeds.
* After its completion a generator answers one queued request and leaves the others until
  somebody calls again (`quickjs.c:20262`); `AnsweredUntilComplete` stops there.
* When a dependency cannot be loaded, the module that needs it is freed although others
  may already point to it (`quickjs.c:35844`); `JSModules` leaves such graphs out.

## Proofs

The modules `...Proofs` hold the theorems, for every value of the constants that satisfies
the assumption its module names: any number of threads, calls, requests, messages, timers.
None of the properties but the first is inductive as it stands; each module states what has
to be added in its last section ("What makes them inductive"; for `SolverCache` beside its
properties, for `JSPromise` at the beginning of `JSJobsProofs`). TLC has checked these
invariants on the instances of the runs, those for `OutcomesPassOn` excepted, which name a
relation that no variable holds. The proofs have a step per action and per conjunct it can
disturb.

`SolverCache` (`ConstantsAssumption`):

* `TypeCorrect` (`TypeOK`): inductive as it stands, since it includes that a thread
  inside a call has a URL and that one at `solve` has an engine.
* `MutualExclusion` (`RaceFree`): from `MutexInv`, a thread in a critical section holds
  the mutex of the cache it is in. `RaceFree` alone does not exclude that a thread in
  its section has lost the lock.
* `CacheImplementsMemo` (`ImplementsMemo`) and `CacheHoldsOwnAnswers`
  (`CacheFaithful`), assuming `OnePlayerPerThread`: a value is solved in one step and
  stored many steps later, so the invariant has to follow it: `EngineInv` (the
  engine and the call are about assets that the thread is given) and `RepliesInv` (the
  replies at hand answer `missing`, one for one, under the player of the call's
  assets). With them each `StoreOne` is a `Learn`, a `Fail` or a stutter of the table.
* `StoredIsNotRecomputed` (`NoRepeatedWork`): from `StoredInv` (what was stored is
  still in one of the two maps) and `MissingInv` (a thread before its own stores has
  stored none of what it found missing).
* `NothingIsDroppedSilently` (`NoSilentDrop`), `UrlIsFaithful` (`ResultFaithful`) and
  `EqualCallsAgree` (`SameAnswer`): from `WorkInv`, which follows each request of a call from
  the lookup to the URL. At every step a request is accounted for (`Accounted`): it is ready,
  or missing and still to be solved or stored, or the call has an error, or this very request
  failed without a text (`unsaid`). The URL written so far consists of the caller's
  parameters, decoded as often as it was rewritten, and of answers (`UrlsFaithful`);
  `BecomesMore` and `FaithfulSet` take this through one more rewriting, and
  `SetParamKeepsPlain` says that an answer under a plain name stays where it is. The lemmas
  about `Work` are about the locals of one call and hold for any values. Nothing is assumed
  of the texts that are thrown or reported. Only the last two need `OnePlayerPerThread`:
  nothing is dropped silently by a thread with the wrong engine either.

`HttpsRequest` (`HttpsAssumption`): `HttpsTypeCorrect`, `HandlesAreOwned` (`HandlesOwned`) and
`ConnectionsAreBounded` (`ConnectionBound`), from `ReplyInv` (what was read is there, and an
exception has a frame to run through), `OwnInv` (only the innermost frame holds anything, and
what it holds depends on how far it has come) and `DepthInv` (frames are numbered by their
depth and connect once). The steps of a frame fall into a few kinds by what they do to its
handles (`SameHandles`, `GetsCtx`, `GetsFd`, `Connected`, `DropsFd`, `GetsSsl`, `GivesUp`), and
the proof goes by kind.

`SolverBoundary` (`BoundaryAssumption`): `BoundaryTypeCorrect`, `RuntimeIsFreedLast`
(`RuntimeFreedLast`), `AnswersAreInPlace` (`AnswersInPlace`) and `PlayerIsMeant`
(`PlayerIsTheOneMeant`), from `CallInv` (how far the call has come), `EngineInv` (how much of
the engine exists at each step), `PlayerInv` (where the script at hand came from; the file may
change after it was read, so it is among what the file has been) and `ResponsesInv`.

`PyBoundary` (`PyBoundaryAssumption`): `EveryCallIsClean` (`CallsAreClean`) and
`ResponsesAnswerItems` (`RequestsKept`), from `PyInv`. For each thread: `RefInv` says exactly
which objects are alive at each step and which holds which, so that the release of any of them,
on any failure, takes just what it owns along; `ReadInv` that the requests are the items
read so far; `OutcomeInv` that there is a result or an exception at the end and neither before;
`GilInv` that whoever is in C++ code has the GIL, and with it a list that stays as it is.

`JSWorker`: `MessagesKeepTheirOrder` (`MessagesInOrder`) and `SharedIsReleasedOnce`
(`SharedUntilReleased`), from `RefInv` (the count of a pipe is the number of its users),
`UseInv` (a thread uses a pipe only while it is one), `LockInv` (who is where holds which
mutex), `WakerInv` (one byte for a queue that has messages or is about to), `ReadyInv` (only the
reader takes it away), `StartInv`, `FaultInv` and `HistoryInv`. That `handle_posted_message`
always finds a message, so that its branch for an empty queue is never taken, is part of the
first.

`JSAsyncGenerator`: `GeneratorAnswersItsCalls` (`GeneratorAnswers`), from `GeneratorInv`: the
state says who goes on (`StateInv`), every call is answered or in the queue, in order
(`OrderInv`), the body was resumed for what it has answered and for one more exactly while it
executes (`BodyInv`), and a suspended generator has nobody waiting (`Attended`). `Attended` does
not hold between the parts of an operation; `Coherent`, which does, is what its lemmas keep.

`JSAtomics` (`AtomicsAssumption`, which has finitely many threads):
`NotifyIsAnswered` (`WaitersAnswerNotify`), from `OrderInv` (the list is a total order), `PlaceInv`
(who has the mutex) and `CauseInv` (why a waiter goes on). `NobodySleepsLate` (`NeverSleepsLate`)
also assumes `NotifiesAll`; `LateInv` extends the property to the moment between the comparison
and the entry in the list, where the mutex keeps a notify away.

`JSPromise` (`PromiseAssumption`): any number of promises, pairs of resolving functions,
combinators, items and jobs. A call is made of other calls (`Promise.all` calls `then`, which
makes a capability and perhaps a job, and a resolving function may settle a promise, start to
follow one, or end a combinator), so the lemmas are about the operators on states: what each
changes (`...Effect`), that it keeps the invariant (`...Good`), and that it passes outcomes on
(`...Passed`). The actions then have one application each.

* `PromiseInvariant` (`PromiseInv`), which has six parts. `RefInv`: what is referred to was made.
  `SettleInv`: a pending promise has at most one pair that is not used up or one job that follows
  a thenable, a settled one has neither. `ReactInv`: a call of `then` is in the lists of a
  pending promise, in the queue or has run, each time in order. `TrackInv`: the list of
  unhandled rejections is exact. `KeepInv`: each pending promise has a way to be settled
  (`WayInv`), each pair that is not used up has somebody who holds it (`PairInv`), and a
  combinator counts the answers it waits for (`CombInv`). `FrameInv`: what the running job is.
  Inside a call something has been made and not yet been given away; `KeepInv` names
  these pairs, items and reactions as arguments, and they are none again when the call returns.
* `SettlesOnce` (`SettlesAndReactsOnce`) and `NobodyForgotten` (`NoneForgotten`) follow from it.
* `OutcomesArePassedOn` (`OutcomesPassOn`), from `PassOn`: there is a relation of promises with
  those that pass their outcome on, and it has what `finally` returned and the promises its
  functions made on the way. For each pair of promises in it, a pair of resolving functions
  that is not used up is `Entrusted` to one reaction, the one that brings the outcome
  (`PassInv`). `AnswerInv` is for the combinators: what is in a place is the answer of its item
  (`ValueInv`), an array is given when every place was answered (`ResultInv`), and the functions
  of an item are with that item's promise and nobody else (`HomeInv`). The property alone
  says nothing of the promises on the way, of which there may be a chain.

`JSEventLoop` (`LoopAssumption`): `HandlersAreCalledRight` (`HandlersCalledRight`), from `RunInv` (nothing
runs outside of scripts, and what runs is held) and `SignalInv` (what is pending, or was read and
is about to be written back, has come since the last call). Timers in their order are a
property of steps: the lemmas say which position each search finds and what a
deletion leaves.

Only model-checked:

* all liveness (`EveryRequestEnds`, `EveryCallEnds` and the run `progress`), which is out of
  the prover's reach;
* `JsonBridge`, `JSExports`, `JSModules`, `ChunkedDecoder`, `UrlQuery` and `TestCli`: what a
  recursive definition or a fold computes takes an induction over data;
* `JSGc` and `JSMap`: a collection, `js_map_clear`, `map_delete_weakrefs` and the end of a map
  are folds over lists in one step, because no script runs in between.

## Not modelled

The texts of messages and headers; what the scripts compute. A script set of mixed
versions (files replaced between two reads) is reachable in `SolverBoundary`, and no
property excludes it, since the code does not. The entry point and `shared_cli_json.h`
have no operation of their own.

Of QuickJS: the parser, the compiler, the interpreter of bytecode, strings, numbers,
dates, regular expressions, Unicode and most builtin functions, and the tools `qjsc`,
`run-test262` and `unicode_gen`. They are sequential functions over data whose interesting
sizes (programs, bytecode, texts, tables of thousands of entries) TLC cannot enumerate,
and what would be left of them in a model small enough is not what they do; the tables
are generated. These are most of the lines of the repository, so the models stand for a
small share of it by lines (`map` has them), and for nearly all of what keeps state
between steps and can interleave. In the parts that are modelled, running out of memory is
left out except where `PROJECT.json` says so, subclasses of `Promise` and import
attributes too, and the Windows versions of `quickjs-libc.c`.

## Plan

1. `JSGc`: `CountsExact` between collections.
2. `ChunkedDecoder`: `TypeOK` and `Advances`, given what a size line stands for.
3. Further parts of QuickJS that keep state: shapes and property tables, the table of
   atoms, array buffers that are resized or detached under their views.
