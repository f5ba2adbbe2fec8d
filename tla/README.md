# TLA+ models of OdbDesign

OdbDesign parses ODB++ archives into an in-memory product model and serves it over REST
(Crow) and gRPC. This directory holds TLA+ models of its core, the TLC configurations that
check them on small instances, and proofs checked by TLAPS. `PROJECT.json` lists the runs, the
mutants that show each property can fail, the map from definitions to source lines, the
findings and the hazards.

## 1. The system

| Part | Source | State it keeps | Operations |
|---|---|---|---|
| Design cache, object maps | `OdbDesignLib/App/DesignCache.{h,cpp}` | `m_fileArchivesByName`, `m_designsByName` under `m_cacheMutex` | `GetDesign`, `GetFileArchive` (both through `GetOrLoadSingleFlight`), `AddFileArchive`, `SaveFileArchive`, `InvalidateDesign`, `Clear` |
| Load states | same | in-flight futures, state per name, epoch, pending background loads under `m_loadStateMutex` | `TransitionLoadState`, `EraseLoadState`, `GetLoadState`, `WasClearedSince` |
| LRU byte budget | same | one entry per name, `m_cachedBytes`, `m_maxBytes` under `m_lruMutex` | `TouchLru`, `InsertLruAndEvict`, `ResyncLruEstimate`, `AdjustLruSerializedBytes`, `setCacheMaxBytes` |
| Serialized responses | same (`ResponseStore`) | payload and invalidation generation per name under its own mutex | `TryStore`, `Invalidate`, `Clear`, `CommitResponsePayloads` |
| Background threads | same | cap, active and outstanding counts under `m_backgroundMutex`, two condition variables | `LoadDesignAsync`, `BackgroundLoad`, `PreSerializeWorker`, `setMaxBackgroundLoads`, `~DesignCache` |
| gRPC service | `OdbDesignServer/Services` | none of its own (the cache, the configuration) | `GetDesign`, feature streams, `GetLayerSymbols`, `RequestLoadDesign`, health |
| REST controllers | `OdbDesignServer/Controllers`, `App/RouteController` | none of their own | design and file-model routes with ETags, upload with auto-warm, `POST /filemodels` |
| Server lifecycle | `OdbServerAppBase`, `OdbDesignServerApp` | shutdown flag, gRPC server and its thread | `Run`, `stop_servers`, signal handling |
| Logger | `Utils/Logger`, `WorkQueueLoopThread`, `ThreadSafeQueue` | message queue, stop and interrupt flags | `log`, `start`, `stop`, the loop |
| File model parsers | `OdbDesignLib/FileModel` | the model being built | one parser per ODB++ file |
| Product model | `OdbDesignLib/ProductModel` | nets, components, packages, parts | `Design::Build` |
| Helpers | `Text`, `Utils` | none | UTF-8 sanitising, URL decoding, command line, archives |

Request threads (Crow's pool, gRPC's pool) and detached background threads share one
`DesignCache`. They interact only through its maps and futures, and through the designs
directory, which uploads and `SaveFileModel` write and loads read. Almost everything that is
hard in this program is in that cache: five locks that are taken one after another, futures
that many threads wait on, a semaphore with condition variables, byte counts that wrap, and
values that are checked under one lock and used under another. Around it stand a shutdown
protocol of three threads that share a pointer without a lock, a logger with its own condition
variable, streams that a client may leave at any record, conditional GETs that judge an object
by the file it may have come from, and parsers that hold records aside until some later line.

What makes each part correct:

* single flight: one load per name and kind at a time, and every thread that waits on it is
  answered, whatever fails;
* load states: a name is `Loading` only while a load is queued or running;
* LRU: the byte count is the sum of the entries, every cached object is charged, and payload
  charges equal what the store holds;
* responses: a payload describes the cached Design, and a replaced archive is never served
  from one;
* background threads: no lost wakeup, no lost count, teardown that ends and leaves nobody
  behind;
* server: a quit ends the process with every thread joined; the configuration is in range
  whatever the file holds; a stream delivers the records in order and once; a client's copy is
  called fresh only when it is;
* logger: a message leaves once and in order, no wakeup is lost, `stop()` returns;
* parsers: every record of an orderly file is in the model once, under its owner, and survives
  the conversion to a message and back; what a failed part leaves is not shown as whole;
* product model: a built design has exactly the pin connections of the files.

## 2. The modules

| Module | Models | Shape |
|---|---|---|
| `CacheTypes` | values shared by the others: names, kinds, objects | constants and sets |
| `LoadStates` | what `m_loadStateMutex` guards | one operator per critical section |
| `LruBudget` | what `m_lruMutex` guards | one operator per critical section |
| `ResponseStore` | `DesignCache::ResponseStore` | one operator per critical section |
| `BackgroundSlots` | what `m_backgroundMutex` guards, and the abstract promise `SlotsSpec` | operators and a small specification |
| `DesignCache` | the operations of the cache, composing the four above | threads with a program counter |
| `BackgroundLoads` | the semaphore, the drain and the condition variables | threads with a program counter |
| `BackgroundLoadsProofs` | theorems about `BackgroundLoads` | proofs |
| `DesignCacheProofs` | theorems about `DesignCache`: its control (single flight, joiners), its types, the exact byte count | proofs |
| `CacheSafetyProofs` | pending markers, background counters, charged payloads | proofs |
| `CacheContentProofs` | what is cached, charged, stored and inserted under races | proofs |
| `MCDesignCache` | the instances of `DesignCache` that TLC checks | scripts of calls |
| `LogChannel` | what callers of the logger rely on | a small specification |
| `WorkQueue` | `Logger`, `WorkQueueLoopThread`, `ThreadSafeQueue` | threads with a program counter |
| `WorkQueueProofs` | theorems about `WorkQueue` | proofs |
| `ServerLifecycle` | `OdbServerAppBase`, `OdbDesignServerApp`, `GrpcServiceConfig` | three threads with a program counter |
| `GrpcService` | `OdbDesignServiceImpl` | one call, a record per step |
| `RestApi` | authentication, routes, conditional GET and the cache as a GET sees it | one client and what changes the contents |
| `Server` | the three above | composition |
| `ServerProofs` | theorems about `Server` | proofs |
| `RecordTree` | what the line parsers share, and the reference "who owns a line" | operators |
| `EdaDataFile`, `ComponentsFile`, `FeaturesFile`, `NetlistFile`, `MatrixFile` | one parser each, with its protobuf conversion | one operator per kind of line |
| `FileArchive` | `FileArchive::ParseFileModel` and the directories under it, extraction | parts in order, each with its answer |
| `ProductModel` | `Design::Build` | one action per stage |
| `Utf8Sanitizer` | `ToUtf8`, `IsValidUtf8` | one byte or sequence per step |
| `Selection` | the elements of a sequence at some positions | one operator |
| `FileModel` | the eight above | composition |
| `FileModelProofs` | theorems about archives, designs, texts and the units of symbols | proofs |
| `ParserProofs` | theorems about the line parsers and their messages | proofs |

### DesignCache

A step of a thread is one critical section, or one access to the disk: between two steps every
other thread may run. `pc[t]` names the next section of thread `t`, in the order of the code;
`loc[t]` holds its local variables (name, captured generations and epochs, the value, the
future it waits on, the victims of an eviction, where the section continues). `GetDesign` loads
its archive with a nested `GetOrLoadSingleFlight`; `loc[t].nested` tells that the innermost
activation is that one, which is exactly when the code passes `updateState = false`.

| Code | Actions, in order |
|---|---|
| `GetOrLoadSingleFlight` hit | `Lookup`, `TouchHit` |
| joiner | `Lookup`, `CaptureGen`, `Register`, `Join`, `TouchJoin` |
| loader | `Register`, `Announce`, `LoadDesign`/`LoadFileArchive`, `BuildDesign`, `CheckGen`, `CheckEpoch`, `Insert`, `Estimate`, `Charge`, (`EvictStore`, `EvictMaps`, `EvictState`)*, `ScheduleGen`, `ScheduleCount`, `ScheduleSpawn`, `AnnounceLoaded`, `Fulfil`, `EraseFlight` |
| parse failure | `Fulfil`, `CheckFailed`, `AnnounceFailed`, `EraseFlight` |
| not found | `Fulfil`, `EraseState`, `EraseFlight` |
| abandoned load | `CheckEpoch`, `Fulfil`, `EraseFlight` |
| `LoaderExitGuard` | `LoaderExits`, `Fulfil`, `EraseFlight` |
| `AddFileArchive` | `AddMaps`, `InvStore`, `AdjustLru`, `Estimate`, `Charge`, ..., `AddLoaded`, then for `save` a `GetFileArchive`, `SaveModel`, `ResyncEstimate`, `Resync` |
| `InvalidateDesign` | `InvMaps`, `InvStore`, `AdjustLru`, `InvState` |
| `Clear` | `ClearMaps`, `ClearLru`, `ClearStore`, `ClearLoadStates` |
| upload | `UploadMove`, `WarmCheck`, `InvalidateDesign`'s steps if it is not Unloaded, `LoadDesignAsync`'s |
| `ComputeRequestLoadStatus` | `ReqState`, `ReqContains`, `LoadDesignAsync`'s |
| `LoadDesignAsync` | `AsyncCheck`, `AsyncCount`, `AsyncSpawn` or `SpawnFails`, `AsyncUncount`, `AsyncUnmark` |
| `BackgroundLoad`, `PreSerializeWorker` | `Acquire`, the load or `BuildPayload`, `CommitIdentity`, `CommitStore`, `Release`, `UnmarkLoaded`, `Uncount` |
| `SerializeResponsePayloads` | `SerDesign`, `SerGen`, `SerEpoch`, `BuildPayload`, `CommitIdentity`, `CommitStore` |

Abstractions, and why they are harmless:

* An object is an identity and the version of the contents it was built from: nothing else of a
  parsed design is looked at by the cache. An identity is reused only when no pointer to the
  old object is left, as `shared_ptr` guarantees.
* A section of `m_lruMutex` that reads the store or the load states under a nested lock is one
  step. `EvictOverBudgetLocked` takes the state lock again for every candidate; the model reads
  all the states at once. `lastServed` is kept as an order, taken when the lock is.
* The loop of `EvictOverBudgetLocked` is one step, the choice of its victims. That it ends is not
  checked; every iteration erases an entry of a finite map.
* `EvictCacheEntries` handles its victims in any order (the code: in the order of eviction).
* `EstimateDesignBytes` reads the directory and the store in one step.
* Byte counts wrap at `Word` (2^64 in the code, 32 in the instances), and the sizes are chosen
  so that a payload is larger than a file and its overhead, as it is for real designs.
* An exception other than a failing parse, build, serialization or save is `bad_alloc` at the
  three places the code's comments name: the Loading announcement, the insert, and the record of a
  failure, where the code catches it and goes on to erase the entry in flight.
* `std::thread` fails when no thread is left in the instance.
* Replacing a file is atomic (`rename`), `SaveFileModel` saves under the name of the design, and
  files are not deleted: nothing in the program deletes one.
* Load observers are left out: the server registers none. `setDirectory`, the `loadAll*` loops
  and the name lists are left out; they read, or repeat the modelled calls.

### BackgroundLoads

Refines what `DesignCache` takes as atomic: a thread that finds no slot goes to sleep on
`m_backgroundSlotCv`, `ReleaseBackgroundSlot` notifies one waiter after it has unlocked,
`setMaxBackgroundLoads` notifies all, and a woken thread evaluates the predicate again. C++
permits spurious wakeups, so the model has them. The destructor waits on `m_backgroundDoneCv`.
What the threads do with their slot is in `DesignCache`.

### WorkQueue

`push()` appends under the mutex and notifies after the unlock; `interrupt()` likewise. The loop
thread checks the stop flag, waits, and drains with a separate lock for `empty()`, `front()` and
`pop()`, handling the message between the last two. The owner starts and stops the loop, and may
start it again: `_interrupted` is never reset, so that after a restart the loop no longer sleeps
(it spins; no message is lost by it). A message is its number; opening the log file may fail,
which loses the message and nothing else. `LogChannel` says what is left of this for a caller,
and `IsFifoChannel` maps the queue, without the message that was handled and not yet popped, to
its pending messages.

### Server

`ServerLifecycle` follows main, the gRPC thread and the console thread. `m_grpcServer` is read
without a lock; the model reads it in one step, as the pointer reads of the targets do. Crow's
signal handler is external. Integers of the configuration file are narrowed before they are
clamped; the model's int has 13 bits so that every clamp has values beyond both ends.

`GrpcService` serves one call at a time: calls share only the cache. A record per step, so that
a cancellation or a disconnect falls between any two records; `writer->Write` answers false once
the client has gone.

`RestApi` has one design. Contents are a version number; the entity tag is the file's version
and the generation. The cache is the part that a GET sees: an object (`cached`), the recorded load
state (`state`), whether there is an LRU entry (`charged`), and a load in flight with the generation
it registered with. The guards are the code's: an upload invalidates a design whose state is not
Unloaded (an injected archive whose state was erased is kept, a name that Failed is invalidated), and
eviction takes a design that is charged and not recorded as Loading, which one whose load has
registered and not announced itself may be. The writers' steps are in the order of the code: an
invalidation drops the objects, moves the generation and records the state; an eviction moves the
generation first. A load's checkpoint and insert are one step here; `DesignCache` has the window
between them. `reply` is the answer that the last step gave, and every route refuses a request
without the right credentials before it looks at anything (`Refuse`). The routes are tables of the
names they check, in order.

The services share no state with the shutdown, so a behaviour of `Server` follows one of the
three (`focus`).

### FileModel

A line is its record token, and a file grows by any token of its format, so that TLC reads every
file up to the bound. What a parser keeps is `kept`, the pushes `<<owner, line, vector>>` in the
order they happen; `cur` has the pCurrent pointers. Fields are abstracted: a `BAD` line is one
whose fields do not parse. The reference (`Owner`, `KeptExactly`) reads the text alone: the
owner of a line is the nearest line above that may own it. `...Orderly` says which files a
property speaks about, as narrowly as the code forces (the known defects below are what is
outside). Formats whose tokens do not interact are split (nets and shapes of the eda data,
features, simple features and symbols of a features file) to keep the bound at six lines.

`FileArchive` takes the answer of a part's parser as a choice (true, false, an exception) and
follows what becomes of it. `ProductModel` builds every board with up to one component per side,
two toeprints on top and one below. `Utf8Sanitizer` works on 14 bytes that stand for the classes
`Utf8SequenceLengthAt` tells apart, with the boundary bytes of overlong forms and surrogates.

## 3. The runs

Instances: two client threads with the calls that the run's script gives them, two threads for
detached work, one slot, one or two names. Two clients suffice for every pairwise race of the
operations, and the nested archive load adds a third role; two detached threads make a
pre-serialization queue behind a load for the only slot. The calls of a script are finitely
many, which bounds generations and versions.

| Run | Checks |
|---|---|
| `background` | `BackgroundLoads` with three detached threads, two callers and caps 0, 1 and 2: exact counters, no lost wakeup, drained teardown; under fairness every queued thread runs and the teardown completes; refinement of `BackgroundSlots` |
| `single_flight` | loads of one name by every route with failing parses and builds, joined, retried, raced by `Clear`: one loader, no joiner or marker left behind, no unraced load stuck in Loading, and every call returns |
| `invalidate` | reads race uploads, injections and invalidations, without a budget: byte counts and payload charges stay exact, payloads describe the cached Design, and an unchanged generation means that the Design about to be inserted describes the cached archive |
| `evict` | two names that do not fit together, with commits, saves, a shrinking budget, failing parses and `bad_alloc` (also where a failure is recorded): exact counts, no stored payload uncharged, every cached object charged, single flight |
| `logger` | two logging threads, six messages, two starts: no lost wakeup, refinement of `LogChannel`; under fairness every message logged between start and stop is taken and `stop()` returns |
| `server` | with a terminal and a gRPC port: threads joined before the application goes, a quit ends the process, the configuration in range; layers of up to five records in batches of two; up to three symbols with indices up to 2; three contents, two generations, one restart: sound revalidation and a posted archive that is served |
| `filemodel` | files of up to six lines in nine formats, two steps and a symbol in an archive, boards of up to two components, texts of up to four bytes |
| `teardown`, `stuck_loading`, `stale_payload`, `stale_upload`, `stale_etag` | what a comment or a protocol file says and the code does not do; see section 6 |

`CachedIsCharged` is not claimed across `Clear()`, and `PayloadCharged`, `PayloadMatchesDesign`
and `InsertsAreFresh` are claimed without `Clear()` and for names that are not evicted: section 4
says which behaviours of the code are outside. `invalidate` checks these three with eviction turned
off (`m_maxBytes = 0`), which is not the server's default; the theorems hold under any budget. `CachedBytesExact` and `PayloadNeverUncharged` hold without
exception; the runs check them without `Clear()`, the theorems with it.

Bounds of the three last: five records in batches of two give full batches, a partial one and
null records on each boundary; three symbols give a duplicate index, a gap and a symbol without
one; three contents give an upload or a post over an already replaced one, and two generations
let a load be overtaken twice. Six lines hold two owners with a child each and the lines that
finish them; a defect in the parsers shows with three or four. Four bytes hold the longest UTF-8
sequence, and two of two.

Fairness. In `single_flight` the only assumption is that some thread which can run does run:
the calls are finitely many and no step undoes another, so nothing stronger is needed. In
`background` every runnable thread eventually runs (weak fairness for each thread), which is
what an operating system gives to threads that are ready; nobody has to call the cache, to
destroy it, or to wake a thread spuriously. In `logger` and `server` a thread that can run does
run, a call that was begun goes on (a started `stop()` reaches its join, a begun push notifies),
and nobody has to log, to type or to send a signal.

Deadlock is checked in the runs of the cache: the only states without a step of the system are
those where every call has returned (`Finished`). In `logger`, `server` and `filemodel` the
system may really stop: the process has exited or waits for a line of the console, or a file has
been read and converted.

## 4. The proofs

`BackgroundLoadsProofs` proves for any number of threads, any caps and any spawn failures:
type correctness (no unsigned counter is decremented below zero), `CountersExact`,
`WakeupsCoverSlots`, `NoLostWakeup`, `DrainedBeforeTeardown`, and that the protocol implements
`SlotsSpec`.

`NoLostWakeup` is not inductive: after a release wakes one thread, a second free slot and a
second sleeper could remain. The invariant that works counts: while somebody sleeps and no
`notify_all` is due, the cap is at most the active threads plus the threads that are about to
evaluate the predicate or to notify (`WakeupsCoverSlots`). Every release adds one such thread
and frees one slot; a thread that goes to sleep has just seen that no slot is free. Together
with the exact counters (cardinalities of the sets of threads at each program counter) and the
destructor's view of them it is preserved by every action; the lemmas about cardinalities come
from `FiniteSetTheorems`. Assumptions: the sets of threads are finite and callers are not
detached threads; the caps are natural numbers.

`DesignCacheProofs` proves for any number of names, threads, calls and faults: a name has at
most one loader of each kind, the owner of its in-flight entry (`SingleFlight`), and no thread
waits on a future that nobody will fulfil (`JoinersHaveLoader`). Neither is inductive alone. The
invariant `CInv` adds the shape of a thread's locals (`Shape`: an archive load nested in a design
load is only at sections of `GetOrLoadSingleFlight`, and an eviction returns to the load or call it came from,
which is what makes "this thread is a loader" survive `InsertLruAndEvict`), and `Fulfilled`: a
loader past its fulfilment has fulfilled the promise it registered, so that erasing the entry
strands no joiner. It says nothing about cached objects, bytes or payloads. Almost every action
is a quiet move, one that changes neither the in-flight maps nor who loads what (`QuietStep`);
the three steps that are not (`Register`, `Fulfil`, `EraseFlight`) are argued one by one.
Assumptions: `Names` is not empty, `NoThread` is no thread, workers are threads, and the scripts
hold requests.

The data of the cache (the second half of `DesignCacheProofs`, `CacheSafetyProofs`,
`CacheContentProofs`). A step is one critical section, so a proof about a variable looks only at
the labels that write it: `Frame` says for every label what it leaves alone, and `Moves`, `Gets` and
`GetsAt` say what it does to its thread. All of them hold for any number of names, threads and
calls, any sizes, and any width of the byte counter.

| Theorem | Hypotheses | Invariant and argument |
|---|---|---|
| `CountIsExact` (`CachedBytesExact`) | none | `TypeInv`: types, `PayloadsFit`, and the count equal to the sum of the entries. Every section of `m_lruMutex` changes one entry and the count by the same amount modulo the word |
| `TypesOK` (`TypeOK`) | none | `BaseInv` (`TypeInv` and the control invariant `CInv`), `SlotsExact` |
| `MarkersAreOwned` (`PendingHasThread`) | none | inductive together with `BaseInv`: a marker is set by the section that takes it on, and moves with the detached thread when it is spawned |
| `CountersAreExact`, `CacheKeepsSlotsPromise` | none | `SlotsExact`: the counters are the cardinalities of the sets of threads at the labels between the two sections; so the cache implements `SlotsSpec`, which `BackgroundLoads` implements too |
| `StoredIsCharged` (`PayloadNeverUncharged`) | none | inductive together with `BaseInv`; the exception in it (a thread on its way to drop the payload) is what an eviction or a `Clear()` leaves between its sections |
| `WhatIsCachedIsCharged` (`CachedIsCharged`) | `NoClear` | `ChargedInv`: at any time, an uncharged object has a thread that owes its charge or its removal |
| `LoadsSettle` (`UnracedLoadsSettle`) | `NoAlloc` | `GenInv` (captured generations and epochs are never ahead) and `SettleInv`: a Loading name that no generation has moved has a thread in the part of the load from which every exit sets another state |
| `SparedPayloadsCharged`; `PayloadsChargedExactly` (`PayloadCharged`) | `NoClear`, `[]SparedIn(S)`; S = `Names` | `PayOK(n)`: the charge is what is stored unless a thread is between the two sections of an invalidation, and a stored payload always has an entry, without which a commit would charge nothing |
| `SparedPayloadsMatch`; `ServedPayloadsMatch` (`PayloadMatchesDesign`) | `NoClear`, `[]SparedIn(S)`; S = `Names` | `ValueInv` (a thread past its load holds an object that describes some contents) and `MatchOK(n)`: a payload, or a commit past its identity check whose generation is current, describes the cached Design, unless an invalidation is between the maps and the store |
| `SparedInsertsAreFresh`; `DesignsInsertedAreFresh` (`InsertsAreFresh`) | `NoClear`, `[]SparedIn(S)`; S = `Names` | `ArchivesOK(n)`: wherever a design load holds the archive it found or loaded itself, that archive is the cached one as long as the generation captured for the design is current; the generation of the nested load is never the older one, and a nested load that was abandoned proves that the generation has moved |
| `UnlimitedBudgetSpares` | `NoEviction` | with a budget of 0 no thread reaches the sections of an eviction, so `[]SparedIn(Names)` holds |

`NoClear`: no client of the server calls `DesignCache::Clear()`; only tests do. `NoAlloc`: `bad_alloc`
is not among the failures. Both are conditions on the constants, as is `NoEviction`: the initial
budget is 0, and nobody sets another one.

`SparedIn(S)` says that no thread is evicting a name of S, and the theorems on payloads and inserts
suppose that it always holds: they speak of the names S that stay in the cache, under any byte budget,
while any other name may be evicted in any interleaving. The server runs with a budget of 4096 MB
unless told otherwise (`OdbDesignArgs.h:43`, `OdbAppBase.cpp:51`, as in `DesignCache.h:735`), and S is
then whatever fits; a budget of 0 turns eviction off (`DesignCache.cpp:708`), and
`UnlimitedBudgetSpares` proves that all names are spared. The second theorem of each pair is the case
of all names, in terms of the property that `invalidate` checks. What is not claimed is that these
three hold for a name while it is being evicted or once it has been: what can go wrong then is the
first point below. None of the hypotheses can be dropped; the proof attempts found, and TLC confirmed
on small instances, what happens without them:

* a name can be chosen as a victim between the registration and the Loading
  announcement of its next load (`DesignCache.cpp:728`). The entry is charged anew by that load and
  its payload committed before the eviction drops the payload and the objects: a charge without
  bytes stays (`PayloadCharged`), or a payload without its Design, when the commit passed its identity
  check before the objects went and its generation was captured after the store was invalidated
  (`PayloadMatchesDesign`). `PayloadNeverUncharged` is the half that always holds;
* `Clear()` takes the maps, the LRU, the store and the load states under four locks. A load that
  inserts and charges between the first two keeps its object and loses its charge
  (`CachedIsCharged`), and the reset of the generations before the epoch is moved lets an
  invalidation go unseen (`UnracedLoadsSettle` therefore speaks of names that no `Clear()` is
  resetting);
* a `bad_alloc` at the insert leaves the name in Loading: `LoaderExitGuard` fulfils the promise and
  erases the entry, not the state (`DesignCache.h:523`);
* a design load that joins an archive load raced by an earlier invalidation gets an archive that
  was never cached, under a generation it captured afterwards; `InsertsAreFresh` excludes such a
  loader, as the comment at `DesignCache.h:457` does not.

Sums over entries are folds, that is recursion on finite sets. `DesignCacheProofs` proves what it
needs of them by taking a smallest counterexample (`LeastNat`, `SmallestSet`) instead of by the
library's induction theorems.

`WorkQueueProofs` proves for any set of logging threads and any number of messages and starts:
`NoLostWakeup`, which is inductive as it stands because a step that makes the predicate true
also announces a notification and every notification moves a sleeper; and the refinement of
`LogChannel`. The refinement needs `QueueInv`: between `front()` and `pop()` the message the loop
thread handles is still the head of the queue (only that thread pops), and there is no thread in
that part when `start()` makes a new one. Assumption: the bounds are natural numbers.

`ServerProofs` proves for every value of the bounds, with and without a port and a terminal:

* `ThreadsEndBeforeApp` (`NoThreadOutlivesApp`) from `ThreadsFollowMain`: where the threads can be
  while main is at each point; main is past a join only with the thread gone;
* `ConfigAlwaysInRange` (`ConfigInRange`) for any integers in the file: the clamp, not the range of
  the numbers, keeps the setting in range after the narrowing;
* `CleanCopiesRevalidate` (`CleanCopyRevalidates`) and `PostsAreServed` (`PostedIsServed`) for any
  number of contents, generations and restarts, from one invariant over the cache, the load in
  flight and the client's copy: a tag of the current file and generation that was taken in peace
  names the cached contents, and a load overtaken by a post delivers nothing;
* `StreamsAreExact` (`StreamExact`) for any layer and batch size: `StreamInv` says that what was
  written and what the batch holds are together the present records read so far, in order, and that
  a batch is short only when it is the last. Assumption: the batch size is positive, as the clamp of
  the configuration makes it;
* `SymbolsStayAligned` (`SymbolsAligned`) for any number of symbols: the k-th symbol without an index
  goes to the k-th free position. A finite set of numbers has an element of every rank below its
  cardinality (`EveryRank`, by a smallest counterexample), and there are at least as many free
  positions as such symbols.

`FileModelProofs` proves the four properties of `FileModel` that are not about the owners of
records, for every size of the input:

* `LoadedArchivesAreWhole` (`ArchiveWhole`), for any finite sets of steps and symbols and whatever
  steps an earlier extraction left: `ArchiveInv` says that a step shown has all its files parsed,
  that the file which makes a step shown stands on the list behind the step's other files, and that
  what is outside of the steps is parsed or on the list. When a file fails the rest of its step is
  taken off the list, which keeps all three;
* `BuiltDesignsAreExact` (`DesignExact`), for any number of nets and of pins and at most one
  component on a side: the connections are
  made one placement at a time from a list that leaves out the toeprints without a net. `DesignInv`
  says that what is done of the list and what is left of it are together the placements of the two
  files, in order, and that each net has the connections of those that are done. A connection has
  the toeprint's pin and a component of the toeprint's designator. That is the toeprint's own
  component when designators are distinct; two components of one name are told apart neither by the
  code, which takes the one it built last (`Design.cpp:313`, `:462`), nor by the property;
* `SanitizedTextIsUtf8` (`TextIsUtf8`), for texts of any length and any set of bytes: `TextInv` says
  that the result so far is UTF-8. What needs an argument is that the byte arithmetic of
  `EncodeUtf8Codepoint` and the tables of `Utf8SequenceLengthAt` agree with the ranges of the
  standard, and that appending one sequence to a text keeps the recursive predicate true;
* `SymbolUnitsAreResolved` (`SymbolUnitsResolved`): `SymbolsInv` says of each symbol read so far that
  it has its own unit, or that of the line of units once there is one.

`ParserProofs` proves what the parsers are for, for files of any length:

* `OrderlyFilesAreWhole` (`RecordsWhole`) and `OrderlyMatricesAreWhole` (`MatrixWhole`). A file that
  is being read is not known to be orderly, so an invariant about the lines read cannot be inductive
  by itself. `ParserInv` speaks of every orderly file that these lines begin (`ReadSoFar`): the
  reader has not stopped, and what it holds has the shape that this file gives it. Another line only
  leaves fewer such files. For each format a shape says which records are current, on which lines
  they began, and that all others are `Tidy`: each once, in its owner's vector, the vectors in the
  order of the file. The eda data has three shapes (idle, in a contour, in a polygon) over the last
  net, package or group and the last subnet or pin. There is one lemma for each kind of line, and
  one for the end of the file, which finishes what is current. For a file that is not orderly only
  types are kept, and that is all the property says of it;
* `OrderlyFilesSurviveMessages` (`SerialisationWhole`). The records that reach a message are a
  function defined by recursion over the lines (`Written`). For a tidy file its equation has one
  solution, the set of the lines whose vector is written and whose owner is in the set or is the file
  (`WrittenSolves`); for an orderly file that set is all the records, in the eda data all but the
  outlines of pins and what is in them (`EdaSent`, `AllSent`). Selecting them keeps the vectors tidy.

Assumptions: `MaxLinesAssumption`, `ArchiveAssumption` (steps and symbols are finite sets),
`TextAssumption` (bytes are numbers up to 255), `ProductAssumption` (the numbers of pins and nets are
natural). Recursive functions and folds of these modules are shown to have the solution that their
recursion asks for by induction over sets of numbers or of sequences (`NatInd`, `NatStrongInd`), which
replace the library's induction theorems.

Only model-checked: the liveness properties (`QueuedLoadRuns`, `TeardownCompletes`, `CallsReturn`,
`LoggedIsTaken`, `StopReturns`, `QuitEnds`), since fairness is out of this prover's reach. Every
invariant and every refinement that a passing run checks is also proved.

## 5. Plan and what is not modelled

1. (done) `DesignCache` with its four components, `BackgroundLoads`, and their proofs.
2. (done) The logger with its abstract channel and proofs; the server: lifecycle, configuration,
   gRPC calls, conditional GET; the file model, the product model and the text repair.
3. (done) Proofs of every safety invariant of the cache and of the server's lifecycle,
   configuration, conditional GET, streams and symbols.
4. (done) Proofs of every property of the file model: archives, designs, texts, and the parsers
   with their messages.

Not modelled, and why:

* `AttrListFile`, `MiscInfoFile`, `StandardFontsFile`, `StepHdrFile`, `ToolsFile`: a line of theirs
  stands alone and keeps no record aside; they are parts with an answer in `FileArchive`.
* The `Save` methods and the JSON bodies: they write what is there and keep no state.
* Multipart uploads, a failing move of an upload, TLS, static routes: I/O around the calls that
  are modelled.
* URL decoding, string and command line helpers: stateless, and a unit test reaches them.
* `libarchive` and 7-Zip: external; the model has their answers.
* Load observers and the `loadAll*` loops of the cache: unused by the server, or repetitions.

## 6. Findings

1. **A name stuck in Loading** (`stuck_loading`). An invalidation between the registration of a
   load and its Loading announcement makes the load abandon its bookkeeping without undoing the
   announcement. `RequestLoadDesign` then answers "already loading" and eviction avoids the name.
   Any successful load heals it; nothing triggers one.
2. **Stale payloads** (`stale_payload`). A load that passed the abandon checkpoint before
   `AddFileArchive` schedules its pre-serialization with the new generation, so the fence does
   not stop it, although the header says that stale bytes can never be published.
3. **Teardown** (`teardown`). The last detached thread notifies after the unlock that lets the
   destructor return, on a condition variable that may be gone.
4. **Stale upload** (`stale_upload`). Without any concurrency: `POST /filemodels`, a read of the
   design (no file: the state is erased, the archive stays), an upload: the stale archive stays
   cached and the new file is not read.
5. **Stale entity tag** (`stale_etag`). An upload replaces a file that a load has read and moves
   the generation; a GET that begins afterwards computes the new tag, joins the old load and gets
   the old contents under the new tag. The comments of `ETag.h` and `RouteController.cpp` say that
   the next revalidation repairs such a race; here it answers 304.

Known defects that the models have as behaviour, without a run that states them:

* cache: a commit between the estimate and the lock of `InsertLruAndEvict` makes an entry's
  estimate wrap until the next full estimate (`DesignCache.cpp:686`); `CachedBytesExact` holds all
  the same, modulo 2^64. An eviction moves the generation before it drops the objects, and a
  restart begins at generation 0 again: a tag can come back (`CleanCopyRevalidates` excludes both).
* lifecycle: a "q" before the gRPC thread has set `m_grpcServer` skips the shutdown and joins a
  thread that serves for ever; a stop of Crow before `run()` is lost; a signal on a terminal waits
  for one more line of input; `--help` stops a logger that was never started
  (`OdbServerAppBase.cpp:172`, `OdbAppBase.cpp:24`, `WorkQueueLoopThread.h:136`).
* logger: after a stop and a start the loop spins; messages logged after the stop flag wait for
  the next start.
* product model: on a board with one designator on both sides, the toeprints of the top component
  are connected to the bottom one (`Design.cpp:313`, `:462`).
* REST: an authorization header of fewer than six characters makes `substr(6)` throw; the netlist
  handler tests the step's name twice and the netlist's never; a 304 is answered before the names
  are looked up.
* eda data: `SNT` before any `NET` follows a null pointer (`EdaDataFile.cpp:675`); a property in a
  feature group aborts the conversion (`:200`); the outlines of pins are not converted (`:1691`);
  packages or groups that follow records of another section while one is open are lost.
* components: `CPN` values are never read, so that all BOM records share the empty key
  (`ComponentsFile.cpp:631`); `TOP` or `PRP` before any `CMP` follows a null pointer.
* features: a second `S` before `SE` drops the first surface (`FeaturesFile.cpp:593`); the index
  of a symbol does not survive its message (`SymbolName.cpp:118`).
* product model: a board with only one component layer cannot be built (`Design.cpp:296`); the
  package index of a component is not checked (`Design.cpp:307`); of two components with one
  designator the later one gets the pins of both.
* saving: `Save` of the eda, components and features files writes nothing, so a posted and saved
  archive comes back without them.
* extraction: the directory is not emptied, so steps of an earlier archive of the same name stay.
