# YATFHE: models and proofs

YATFHE is a C++ library for fully homomorphic encryption over the torus. Two things make it hard to
get right. One is the machinery: a hand-written thread pool with its own joins, blind rotations that
overlap three stages on two copies of every buffer while the key may still be arriving from disk, an
LRU cache of multi-gigabyte keys that several workers share, and the scheduler that decides which
worker serves which tenant. The other is the algebra: a dozen forms of the bootstrapping key, each
with its own rotation, over polynomials in three representations, where a wrong sign, index or carry
shows only as noise. This directory holds TLA+ models of both, the TLC runs that check them, and
TLAPS proofs about them.

Paths below are relative to the repository.

## 1. Inventory

### Thread pool (`yatfhe/include/yautil/multi_threading.h`, `yatfhe/src/multi_threading.cpp`)

- *State*: one FIFO queue of jobs under `queue_mutex`, a condition variable, `stop`, the workers;
  per `TaskGroup` an atomic counter, a mutex, a condition variable and the first error.
- *Operations*: `enqueue` (a packaged task and its future), `run` (a batch of indexed jobs joined
  through a group), `TaskGroup::wait`, `TaskGroup::finish`, the worker loop, the destructor, which
  runs at `exit()` because the pool is a function-local static.
- *Users*: every external product with more than one gadget level runs its levels as a batch on a
  thread-local group; the pipelined rotations keep a group on their stack; internal products and key
  generation enqueue rows of futures.
- *Hard*: the counter is decremented outside the group's mutex; groups, callables and results live in
  frames that the caller unwinds; a task on a worker computes products itself; a batch may fail; the
  pool may be destroyed at any moment.
- *Correct when*: a wait returns when, and only when, its jobs have ended; the error it reports is of
  its own batch; no job outlives what it captured; nobody sleeps for ever; the destructor drains.

### Shared key cache (`ConcurrentKeyCache` in `ya_benchmark/include/blindrotate_serving.h`)

- *State*: `order_` (list, most recent first), `index_`, `inflight_` (key to `LoadState`), the capacity.
- *Operations*: `acquire(key, loader)`: hit, wait for a peer's load, or load outside the mutex.
- *Hard*: misses of one key by several workers, a loader that throws while peers wait, eviction
  before a waiter wakes, a `LoadState` that outlives its entry, capacity 0.
- *Correct when*: a key has one loader at a time and none while it is cached; list and index agree;
  every sleeper has a thread that will notify it; a waiter gets the key it asked for.

### Scheduler (`Scheduler` in the same header)

- *State*: a mode (shared, affinity, soft), one lane or one per worker, `peak_`, `spilled_`,
  `stolen_`, `closed_`.
- *Operations*: `push` (choose a lane, spill, shed when full), `pop` (wait, take, steal, leave), `close`.
- *Hard*: one condition variable for workers with different predicates; a lane is chosen before its
  depth is tested; requests of others left in the lanes at `close`; a steal threshold of 0.
- *Correct when*: every request is shed or served, once; the order a mode promises is kept; no worker
  leaves or sleeps while it is needed; the reported counters account for misplaced requests.

### Serving benchmark (`ya_benchmark/blindrotate_serving.cpp`)

`runServing` composes the two: a producer pushes requests, each worker pops one, acquires its
tenant's key, rotates and records a completion. A loader that throws ends the process.
*Correct when* the run ends, `shed + completed = requests`, and the cache and the scheduling mode
have the effect the benchmark reports.

### LRU cache and cache manager (`yatfhe/include/yautil/lru_cache.h`, `cache_manager.h`)

- *State*: `node_list_`, `node_map_`, `capacity_`; in the manager three caches with request and hit
  counters. Single-threaded.
- *Hard*: list and map are two views of one thing; a loader runs after its node is listed and before
  it is mapped, and may throw; resizing; capacity 0.
- *Correct when*: both views agree, the content is the most recently used keys, no iterator dangles.

### Blind rotations (`yatfhe/src/blind_rotate.cpp`)

- *State of a rotation*: the accumulator, two copies of the decomposed and of the expanded key
  component, pointers to them, the index of the component in hand, the file position.
- *Operations*: classic rotations over an expanded key, rotations that expand or rotate key components
  in batches or one at a time, and five pipelines that overlap the stages.
- *Hard*: stages that run at once on the same buffers and hold references to the caller's variables;
  first and last iterations; components with rotation zero; a key read from disk by one of the tasks;
  a key that keeps its expansion over calls.
- *Correct when*: no data race, and the result is the sequential product over the components.

### Key generation, key files (`yatfhe/src/bootstrapping.cpp`, `ya_serializer.cpp`, `DiskReader`)

- *State*: a key under construction, one task of the pool per component, the file, its stream.
- *Operations*: generate, save record by record, load record by record; the programs that cache a key
  between their runs (`firststep_fixedkey.cpp`), write it anew (`gen_benchkeys.cpp`,
  `blindrotate_comp.cpp`) or only read it (`cache_manager.h`).
- *Hard*: a first component that is apart shifts all others by one; generation waits for its futures
  and drops what they throw; a writer may be killed or its disk be full; a reader has the sizes from
  its own parameters and checks no record.
- *Correct when*: a key that is saved is whole; a failed save is reported; what is loaded is what was
  saved; a file never mixes two keys.

### Algebra (`gadget_decomposition`, `numeric`, `torus`, `polynomial`, `tlwe`, `trlwe`, `trgsw`, `keyswitching`)

- *State*: almost none: thread-local scratch rows of the decomposition, and the buffers that rotations
  reuse from one input to the next.
- *Operations*: decomposition into signed digits; encryption, phase, rescaling, extraction, key
  switching; classic external products, those of split keys, and the switch of schemes that derives
  rows of the first half of a split key from the second.
- *Hard*: a carry out of a digit that is exactly half the radix; values at the edge of the torus;
  centred and uncentred residues of two moduli; which gadget level belongs to which row; the sign of
  X^a with a from 0 to 2N.
- *Correct when*: digits are small and recompose to the value; every step of a rotation keeps the phase
  of what it encrypts up to the noise it may add.

### Bootstrapping (`bootstrapping.cpp`, `blind_rotate.cpp`, `cmux.cpp`)

- *Operations*: the test polynomial of a lookup table, the rescaling of a sample, twelve forms of the
  rotation (classic, groups of two and three components, split keys, lazy and pipelined keys),
  extraction and key switching.
- *Correct when*: the accumulator is, at each component, the test polynomial rotated by the part of
  the phase consumed so far, and the result decrypts to the entry of the table.

### CRT and transforms (`crt.cpp`, `ntt14.cpp` to `ntt64.cpp`, `ntt_hexl.cpp`, `initializer.cpp`)

- *Operations*: forward and backward butterflies, residues in bytes, recombination, the approximate
  decomposition into residues of the high primes, bootstrapping over the residues.
- *Hard*: halving modulo an odd prime at each level, order of the twiddle factors, sums that must not
  leave the range the transform tells apart, centred residues in signed bytes.
- *Correct when*: a product by the transform is the product, and digits stand for the number up to what
  the low primes lose.

### The rest

The random number generator, workload generators, printing and timing tools, tests and scripts: no
shared state, or floating point. The GoogleTest copy under `google_tests/lib` is not part of the
system.

## 2. Modules

| Module | Models | Uses |
| --- | --- | --- |
| `ThreadPool` | pool, groups, futures, destructor, and a caller's rotation around them | |
| `SingleFlight` | abstract: what a shared key cache promises | |
| `KeyCache` | `ConcurrentKeyCache` | implements `SingleFlight` |
| `Scheduler` | `Scheduler` | |
| `Serving` | `runServing` | extends `Scheduler` and `KeyCache` |
| `LruCache` | `SimpleLRUCache` and the counters of `SimpleCacheManager` | |
| `Rotation` | abstract: what a blind rotation computes | |
| `RotationPipeline` | the five pipelined rotations | implements `Rotation` |
| `LazyExpansion` | the rotations that prepare key components in batches, over several calls | |
| `SignedDigits` | arithmetic of the signed decomposition | |
| `ZeroMeanDigits` | `decomposeRow` with its scratch rows | `SignedDigits` |
| `LweAlgebra` | torus numbers, polynomials, LWE and ring-LWE samples, key switching, tables | |
| `RingLwe` | gadget rows, external products, the switch of schemes | `LweAlgebra` |
| `Bootstrapping` | functional bootstrapping with twelve kinds of keys | `RingLwe` |
| `NativeNtt` | the library's own transform | `LweAlgebra` |
| `CrtRotation` | functional bootstrapping over residues | `NativeNtt` |
| `KeyFile` | generation, saving and loading of seven kinds of keys | |
| `Serving_proofs` | theorems about `Scheduler`, `KeyCache` and `Serving` | `Serving` |
| other `*_proofs` | theorems about `ThreadPool`, `LruCache`, `LazyExpansion`, `RotationPipeline`, `ZeroMeanDigits`, `Bootstrapping`, `KeyFile` | the module |
| `MC*` | constants and symmetry for TLC | the module |

How state and actions correspond to the code:

- **ThreadPool.** `tasks` is the queue, `remaining`, `firstError` and `mutex` are the fields of each
  group, `at` is where a thread is. `queue_mutex` protects short sections without a wait inside, so
  each is one action. A group's mutex is a variable, because the counter is atomic and changes without
  it: `WaitLoad` and `WaitBlock` are the two halves of `condition.wait`, between which a `finish()` may
  come, and `Record`, `Dec`, `Signal` are the three steps of `finish`. A caller enters a frame, fires
  batches (`RunStage`), computes an external product in between (`Product`, with its own batch), waits
  (`StartWait`) or enqueues rows of futures (`Enqueue`, `Collect` with `wait()` or `get()`). `frame`
  numbers the stack frames so that a job outside its frame can be told.
- **KeyCache.** `mutex_` is held for one action at a time. A `LoadState` is a name from `Loads`, free for
  reuse when nobody points to it, which is what `shared_ptr` ensures. The value of a key is the key
  itself. `LoadState::waiters` is written and never read, and left out.
- **Scheduler.** A request is its number and its tenant. `Sleep`, `GiveUp` and `Take` are the three ways
  through `pop`; `Admit` is the end of `push`. `QueueSpec` is its specification, `popping` says where each
  worker is; `WakeUnasked` is a wakeup without a notification.
- **Serving.** `Start`, `GetKey`, `Complete` are the worker's loop, each step one of the scheduler's, of the
  cache's or of both, with `popping` and `at` as their program counters. After `Abort`, a loader that
  throws, nothing moves: the exception leaves a `std::thread` and terminates the process.
- **LruCache.** A node has a name, which is what an iterator in `node_map_` holds; `loaded` tells a node
  whose loader threw. `Get`, `GetSimple`, `Preload`, `Put`, `ResetStats`, `ClearAll` and `Resize` are the
  manager's calls; the three caches do not interact and one is modelled.
- **RotationPipeline.** A polynomial is the index of the key component it was computed from, so that a
  buffer filled from two components, or used before it is filled, shows in `acc`. A task reads when it
  begins and writes when it ends. `variant` chooses the rotation; `First`, `Units`, `Stride`, `Streaming`
  and `FiredFirst` say how they differ. The sweep is modelled for one width `SweepUnits`, of which
  `blindRotateLazyPipeAltNtt` is an instance.
- **LazyExpansion.** A row's content is the sequence of components added to it since it was zero, so that
  a row expanded twice, for another component, or not at all shows in `acc`. `Batch` enqueues the chunks
  of one batch, `Prepare` is one component and level of a chunk, in any interleaving, `Expanded` the end of
  the last join. `Call` begins a rotation for another input on the same key; `RowsAtCall` tells rows of the
  key, which stay, from rows of the frame. `UsedOnce` and `UsedCovered` are what the caller must respect:
  nothing calls `blindRotateLazyNtt`, and its flag `initialized` makes it right only for inputs that
  need no component the first one did not.
- **ZeroMeanDigits.** `Call` takes a row and a number of digits and refills the scratch rows, which keep what
  the last call left; `ByValue` emits the next digit of the first unfinished value (few digits), `ByLevel`
  one digit of all values (many digits). A shift is a division by `Weight`; `Narrow` is the cast to the
  digit type; `sum` is what `recomposeSelf` adds up.
- **LweAlgebra, RingLwe.** A torus number is an integer, a polynomial a function on `0..N-1`. What the
  library draws at random is the constant operator `Draw`. A polynomial in the transform form of HEXL is
  the polynomial with coefficients modulo `NttQ`: HEXL is external and its transform is an isomorphism.
  What is kept is every change of representation (`Ntt`, `Intt`, centring on either modulus).
- **Bootstrapping.** `Generate` makes the key of `scheme`; `Begin` encrypts and rescales an input and sets
  up the accumulator; `Skip`, `Prepare`, `Multiply`, `Accumulate` are one component or group; `Extract`
  and `SwitchKey` end it. The accumulator, rows and digits stay from one input to the next, as the
  reused buffers of the code do. `PartKey`, `KeyRows` and `InPlace` say how the schemes differ.
- **NativeNtt, CrtRotation.** The butterflies are those of `ntt24.cpp`, level by level; the other widths are
  the same code at other primes. A torus number is its residues, high primes first; residues modulo the
  low primes are kept multiplied by `TaoU`, as the code does. `path` chooses transform or direct product.
- **KeyFile.** What is stored at a place of a key is the generation it is of and the component and level it
  encrypts. A file is a sequence of records. `Start` picks one of the three programs and its size, `Task`
  and `TaskThrows` are the futures of the generation in any order, `Write` and `Read` one record, and
  `Kill` may come at any step and leaves any prefix of what was written. Where a record is missing or of
  another kind, `Read` leaves or changes the field at will, since the code checks nothing.

Abstract specifications: `SingleFlight` knows who asks for what, who loads what, what is resident, and to
whom a value is promised; nothing of lists, `LoadState`s or condition variables. `Rotation` multiplies
the accumulator by the components with nonzero rotation, in order.

## 3. Runs

| Run | Instance | States | Shows |
| --- | --- | --- | --- |
| `pool` | 1 caller, 2 workers, batches and rows of 2, 2 batches, jobs that throw, exit at any time | 197186 | frames, joins, errors, no lost wakeup, drain |
| `pool_lifetime` | batches of 1, `Throwing = {}` | | **violation**: the last `finish()` touches a destroyed group |
| `cache` | 3 threads, 2 keys, capacity 1, 3 load states, 2 failures | 82458 | single flight, eviction, retries, refinement, liveness |
| `scheduler` | 3 modes, 2 workers, 3 tenants, 4 requests, depth 2, thresholds 2 | 163466 | accounting, order, shedding, termination |
| `serving` | 3 modes, 2 workers, 2 tenants, 3 requests, capacity 2, thresholds 1 | 267794 | composition, accounting, termination |
| `lru` | 4 keys, capacities 0, 1, 3, loaders may throw | 5080 | list against map, recency, iterators |
| `pipeline` | 5 rotations, 4 components, 3 levels, all zero patterns | 120928 | races, captures, file order, the product, the end of the rotation |
| `lazy` | 5 rotations, 5 components, 2 levels, 3 batchings, 2 calls, all zero patterns | 346641 | chunks, joins, the product, reuse of a key |
| `decompose` | torus of 7 bits, radix 4, 1 to 3 digits, all values and pairs at the edges | 22321 | digits balanced, recomposition, scratch rows |
| `bootstrap` | N = 8, torus 2^15, LWE 2^10, radix 8, 12 schemes, 5 kinds of tables, all LWE keys, 2 inputs | 11560 | phases at every step, decryption |
| `crt` | moduli 47, 43, 7, 5, transform modulo 6113, LWE 2^9, both paths, 2 inputs | 1280 | residues, transform, decryption |
| `keyfile` | 7 kinds of keys, 3 programs, sizes 2 and 3, level 2, kills, failing writes, one program with throwing tasks | 477785 | whole keys, reports, round trip |

*Bounds, and why they are enough.*

- `pool`: two workers are needed for a job to end while another runs; two batches on one group for an
  error of one to be seen by the other. `cache`: with one place and two keys every insertion evicts, with
  three threads one loads, one waits and one evicts, and with two failures a waiter retries twice.
  `scheduler`: depth 2 with 4 requests and three tenants, two of which share an owner, reaches full
  lanes, spills, steals, and a close with foreign requests queued. For all three the proofs cover the
  safety of every other size.
- `lru`: four keys at capacity 3 evict; a failed load leaves a node that fills a place. `serving` takes a
  cache that holds all tenants, which `LoadedOnce` is about; eviction under concurrency is the business
  of `cache`.
- `pipeline`: four components give an even and an odd iteration in the steady state between first and
  last; three levels make the units of a stage unequal. `lazy`: five components give full and partial
  batches and chunks in each batching; a third call finds what the second found.
- `decompose`: a window between the first and the last, a dropped part below the last digit, and both ways
  through `decomposeRow`; all 128 values, so every carry chain. `bootstrap`: X^8 + 1 has every sign
  change; all secrets of 2 to 4 bits, all messages; moduli in the ratios the library has (the transform
  prime is 1 modulo the torus). The noise bound of `AccumulatorPhase` is half the distance of two
  messages, less what the switch to the LWE key may add (`SwitchLoss`), 1391 of 4096 on the instance: a component lost, doubled or paired with another's rotation exceeds it. The second input
  meets everything the first has left behind. `crt`: two high and two low primes, so that both sums of
  the approximate decomposition have more than one term; a transform modulus below the worst case of the sums,
  as in the library.
- `keyfile`: one program to save, one to be killed or to fail, one to read; two sizes, so that a reader's
  may be smaller or larger than the file's; two levels, so that a cell has an index of its own.

That a key has one loader (`SingleLoader`) is not a property of `cache`: the refinement of `SingleFlight`
fails where it does, and `LoadsOnce` proves it.

Deadlock is checked in `cache`, `lru` and `decompose`, which never stop; the others end. Each module has a
`TypeOK` or states its types in comments at the variables; `ThreadPool!TypeOK` is proved
(`TypeCorrect`), the others hold on the same instances and can be added to any cfg.

*Fairness.* A thread that can run does run (weak fairness of each caller, worker, the producer):
the operating system schedules threads. A mutex that is released again and again is granted at last
to a thread that wants it, which is what `SF_vars(Acquire(w))` says for the one place (`finish()`) where a waiter
could otherwise pass for ever. Loads, jobs and rotations end. Nothing is assumed about calls: nobody has to
call `acquire()`, start a rotation, wake spuriously, or exit. The algebra and `KeyFile` state no liveness.

*What the violation means.* `pool_lifetime`: `finish()` decrements, then locks and notifies. A waiter that
arrives in between finds the counter at zero, returns, and its frame ends, with the group in it. The
groups of `externalProductTrgswMPNttImpl` are thread-local and safe; those of the pipelines are on the
stack.

### Known limits of the code

These hold of the code as it is and bound what the properties say. Each can be seen by the change given.

- *A product that throws between `run()` and `wait()`* leaves the frame without a join, and jobs outlive what
  they captured: `TaskGroup` has no destructor that waits. In `pool`, `Throwing = {"product"}`,
  `MaxRuns = 1`, `StopAnytime = FALSE` violates `TasksInsideFrame`. The two theorems about frames and
  errors have the hypothesis `"product" \notin Throwing`.
- *A steal threshold of 0*: `longestDepthLocked() >= 0` is always true, so an idle worker does not sleep,
  finds no lane, and `pop` returns false, which the worker takes for the end. In `scheduler`, `Steal = 0`
  violates `StaysWhileNeeded`; the theorem `LeavesLast` has the hypothesis that it is not 0.
- *A loader that throws* leaves its node listed and unmapped (`lru_cache.h:101-105`): `get_keys()` names a
  key that `get()` does not find, the node takes a place, and its eviction removes the map entry of a
  later node of the same key. So `HoldsMostRecent` and the second half of `NoDanglingIterator` are about
  histories without such a failure.
- *`blindRotateLazyMTNtt` on a key used twice*: `switchTrlweToSecretEmbeddingNttOpt` adds to rows that its
  siblings clear. In `lazy`, `UsedOnce = {}` violates `ComputesRotation`. The warm measurement of
  `blindrotate_comp` does use a key twice, and does not look at the result. `blindRotateLazyNtt` keeps
  `initialized` for the key, so a later input must need no component the first did not (`UsedCovered`).
- *`blindRotateLazyPipeAltNoFirstNtt`* pairs levels for 1, 3 and 4 levels (`PipelineAssumption`).
- *A killed save* leaves a truncated file that a later program loads without an error, and a key whose
  generation threw is saved as if it were whole (`f.wait()` drops the exception, also in the internal
  products of `trgsw.cpp`). `RoundTrip` is about saves that returned, `GeneratedWhole` about tasks that did
  not throw; `NoMixture` holds always. `deserializeBskLazyPipe` does not restore `n`.
- *Groups*: the rotations by groups read a whole group, so `n` must be a multiple of it (`KeyAssumption`), as
  in all parameter sets.
- *Sums in the transform domain*: the native transform tells numbers apart up to half of its modulus. A sum of
  a product over the residues modulo q may reach 2 * Dh * N * (q / 2)^2, which the parameters do not keep
  below that: with 2 high primes, N = 2048 and q = 251, the modulus 16760833 of `ntt24.h` is less than
  4 * 2 * 2048 * 125^2 = 256000000. They rely on the cancellation of digits and key residues of both signs.
  The instance of `crt` has the same trait (6113 against 33856 for q = 47): `ProductExact` finds no sum that
  wraps in any of its states, and finds one modulo 4001. That none wraps at the library's sizes is a statement
  about probability, which no run and no theorem makes.

## 4. Proofs

All proofs are for every value of the constants that the named assumptions allow. Each follows the same
line: an inductive invariant that contains or implies the property, one lemma per action, a lemma that
puts the actions together, and a last temporal step.

- **`Serving_proofs`**, about the queue: `NoWakeupIsLost`, `LeavesLast` (for a threshold above 0), `OrderIsKept`
  and `RequestsAccounted`, for any number of workers, tenants and requests, any depth and thresholds. `QInv`
  is inductive with the types of the variables and rests on `LongestLaneIsLongest`: a lane of the largest
  depth exists, and a take makes no lane longer, so it makes no sleeper ready. `OInv` adds that lanes are
  ordered by arrival, hold the requests of their owner, and come after what has been handed out. `CInv`
  counts: what arrived is shed, or at one place of one lane, or taken at one place.
- **`Serving_proofs`**, about the cache: `TypeCorrect`, `LoadsOnce`, `OrderIndexed`, `SleeperWakes`,
  `PeerValueRight`, and `Implements` (`Spec => ImplementsSingleFlight`), for any number of threads, keys and load
  states, every capacity (0 included) and every number of failures. `CacheInv` adds four facts about the
  protocol: the arguments and pointers of a thread match where it is (`Arguments`); a loading thread's key
  is in flight under its `LoadState`, which is not done, and is not cached (`Loading`); every entry of
  `inflight_` has a loader, and different keys have different states (`Inflight`); a waiter's `LoadState` is
  either done, with the value of its key or none, or the one in flight for its key (`WaitingInv`).
  `MoveToFront` and `PushFront` are shown to keep `order_` free of duplicates. The refinement maps the loader
  of a key to the one thread that is loading it, and a promise to a thread that was notified of a value.
- **`Serving_proofs`**, about `runServing`: every step is one of the queue's or a stutter (`ServingIsQueue`) and
  one of the cache's or a stutter (`ServingIsCache`), so the invariants of both carry over: `PartsStayCorrect`,
  from a cache that starts warm. `NothingCoalesced` and `KeysLoadedOnce` need what ties them together: a worker
  acquires the key of the request it popped last, and does so once (`Linked`); with affinity it is the owner
  of that key (`Affine`), so no other worker can have a load of it in flight; and while all tenants fit, a
  key that was loaded stays, and its load belongs to one completion or to one worker that has yet to
  complete (`Once`). The workers are the threads of the cache, the tenants, finitely many, its keys.
- **`ThreadPool_proofs`**: `TypeCorrect` and `NoWakeupIsLost` unconditionally; `JobsStayInFrame` and
  `ErrorsReported` if products do not throw. The heart is a count: while a group's frame is entered, its
  `remaining` is the number of its jobs in the queue, in the hands of workers and about to be counted down;
  a frame entered after the pool has stopped counts nothing. Jobs in queue and hands are distinct, a
  caller inside a frame waits for all of them before it leaves, and the first error of a group is that of
  a job of its current batch.
- **`LruCache_proofs`**: `NothingDangles` and `KeepsMostRecent`. The strengthening of the first is that a node is
  in the list once. One lemma each says what eviction, insertion at the front and splicing to the front do
  to a list and a map that agree; splicing is a permutation, given with its inverse. For the second, `RInv`
  says of each listed key that the keys used since its last use are those listed before it, and of each
  key that is not listed that the cache is full of keys used since.
- **`LazyExpansion_proofs`**: `NoRowWrittenTwice`, for every `n`, level, `batchSize` and `tasksPerThread`: chunks
  begin at multiples of `tasksPerThread` and end there at the latest, and the rotation whose components
  share rows never expands ahead. `RotationIsComputed`, for any number of calls: a row in a task's hands is
  clean until the task reaches it (`Fresh`, `InTasks`), holds its component alone from then on
  (`Expanding`, `Ready`), and the components used are those turned below the one in hand (`Progress`). Its
  hypothesis `Limits` says that the keys of `lazyMT` are used once, and those of `lazy` once or for inputs that
  need nothing new; see the limits above.
- **`RotationPipeline_proofs`**: `StagesNeverRace`, `PipelineIsRotation` and `NothingLeftOut`, for every number of
  components and levels, every width of the sweep and every schedule of the tasks. A task is outstanding at
  most once, because a stage is fired only after the join; slots of one stage write levels a stride apart;
  the two copies alternate; and the component read ahead is the one after the component being prepared.
  `JInv` adds what the buffers hold: the component that each stage is at, level by level, with the levels
  of outstanding tasks left open. A product then finds one whole component, which is a step of `Rotation`;
  all other steps stutter. At the return nothing that turns is left out.
- **`KeyFile_proofs`**: `KeysNeverMix`, `GenerationComplete`, `SavesReport` and `LoadsWhatWasSaved`, for any number of
  programs, sizes, levels, kills and failures. The invariant says that the records of a file are of one
  generation, because a save empties the file first; that a key under construction is of its program's
  generation; and that a key being read is of the file's. `Filled` adds that a place which is still empty is
  one that an outstanding task fills, `Wrote` that the file holds the records of the key up to the writer's
  position, `Copy` and `Restoring` that a file which a save has completed stays whole until it is emptied
  and that a reader of the right size has restored what it has passed. That needs the record orders to
  be without duplicates and to reach every place, for each kind of key.
- **`ZeroMeanDigits_proofs`**: `Balanced`, `Recomposition` and `DigitsAlone`, for every radix, number of digits and
  width, and any content of the scratch rows: a carry out of a window is accounted for by the window above
  it, so the sum of the digits emitted and the carry to come is the rounded value. `DigitsAlone` compares
  what the rows produce with the recursion `Digits` over one value: the carries in the rows are those of the
  recursion, level by level or value by value.
- **`Bootstrapping_proofs`**: `RescalingKeepsPhase`, `SwitchingKeepsPhase` and `PhaseDecodes`, for every scheme, table, length of
  the key, degree, modulus and gadget, and whatever is drawn. Two numbers are `Close` modulo q when they
  differ by a multiple of q and a bounded rest; closeness adds up, along sums too (`SumClose`, `DotClose`), and
  says how near zero `Centre` of the difference is (`CentreLeast`). The first theorem is then `RoundedPhase`: each
  rescaled coefficient is off by half a unit. The second goes in three steps. The coefficients in the
  order and with the signs of `Extracted` give the constant coefficient of a product modulo X^N + 1
  (`UnrolledDot`, from `SumReversed`), each off by half a unit of the lower modulus (`ExtractedPhase`). The digits of a
  coefficient recompose to it up to half of the last weight (`DigitsGive`), so they weigh the rows of the
  switching key to a sample of the same phase, with as much noise as there are digits of at most half the
  radix (`KeySwitchNear`, which exchanges sums by `DotSwap` and `DotOfSums`). `SwitchedPhase` adds the two up.
  The phase of the accumulator means something only if it is a sample of integers; that is `Held`, with the
  key: a generated key has in every place what its scheme keeps there, and the switching key of its two
  keys; rows, digits and partial products have their shapes, for each of the twelve ways to get them; the
  index is a multiple of the group. `Sampled` says that the input is the rescaled form of an LWE sample.

  `PhaseDecodes` says that `Decodes` follows from `AccumulatorPhase`, for all twelve schemes and every table: when
  the accumulator encrypts the rotated test polynomial with less than half the distance of two messages to
  spare, what comes out is the table's value. The accumulator can only be extracted from when the index has
  reached the end of the key, and its phase then has to be carried through extraction and the switch, which
  change the program counter: `Placed` says so, and is inductive under `AccumulatorPhase`. The rest is
  arithmetic. The test polynomial turned by a phase in the slot of a message has the value of that slot, with the
  sign of its half, as constant coefficient: `TurnedBack` for the coefficient a turn brings to the front,
  `SlotTurned` for the slot it comes from on either side of 0 and of N, `LookupIs` for its value. The switch adds
  `SwitchLoss` at most (`SwitchKeepsPhase`), so that the whole stays below half a message and rounding
  finds it (`DecodesWithin`). The theorem is conditional on purpose. For the parameters of the library the noise
  is a sum of many draws that is small with high probability and not in the worst case, so `AccumulatorPhase`
  can be stated for an instance, where TLC checks it over every secret and message, and not for all; what the
  theorem separates is the noise from everything else that decoding depends on.

  The hypothesis `DrawsNumbers` says that what the library draws are integers: `Draw` is a parameter, and
  TLC cannot evaluate a statement about all integers. The assumptions are that the radix of the switching key
  divides its weights down to a unit (`KsAssumption`: all are powers of two) and no weight of a row lies below a
  unit (`GadgetAssumption`), that the modulus of the ring is a multiple of the modulus of the LWE samples
  (`RingAssumption`), that the number of messages is even and divides 2N (`AlgebraAssumption`), and that groups
  are whole (`KeyAssumption`).

*Recursive definitions.* The library's induction theorems take an operator, which the provers at hand cannot
instantiate. Where a recursive function has to be reasoned about (`Digits`, `Sum`, the carries of `SignedDigits`), the proofs
do without:
a least element of a set of numbers (`WFMin`) shows that a set with 0 that is closed under successor is
`Nat` (`AllNumbers`), and that set is the set of lengths for which the recursion has a solution, or for
which the claim holds.

Only model-checked:

- Liveness (`AcquireReturns`, `JoinReturns`, `DestructorReturns`, `AllServed`, `AllCompleted`, `RotationEnds`), since
  TLAPS does not do `ENABLED`.
- `AccumulatorPhase` of `Bootstrapping`, whose bound depends on the noise the parameters allow, and holds for
  the instance, and with it `Decodes`, which is proved only as its consequence; and the four properties of `CrtRotation`, which need the correctness of the
  transforms and products modulo X^N + 1 as facts about double sums.

## 5. Not modelled

- Arrival times, statistics, device monitoring, JSON output and command lines of the benchmarks; the
  workload generators (`zipf.h`, `cache_workload_generator.h`); the distributions of the random number
  generator: floating point and probability. Draws are parameters of the algebra.
- Printing and timing tools, file cache hints: no state that anything depends on. `usableConcurrency`
  only gives the number of workers. `getFutures` has no caller.
- Of the algebra: dimension k above 1 (no parameter set has it), private key switching, TLev samples,
  internal products and the rotation of whole TRGSW samples, the forms of the products without
  transform, Barrett and Montgomery reduction, the older `gadgetDecompose` helpers that no rotation calls,
  and the TERNARY builds beyond the schedules in `LazyExpansion`.
- Intel HEXL and the vectorised variants: external, or copies of the scalar code.
- Thread-local scratch of the products is sized by the first call's parameters; a process uses one
  parameter set, and the models have one.

The library proper is about 12500 lines, of which 7900 are sources; with benchmarks and tests the
first-party code is about 20000. The rest of the repository is a copy of GoogleTest.

## 6. What is left

In order of what matters to the program:

1. *Proofs*: `DigitsApproximate` of `CrtRotation`, from digits as in `Bootstrapping_proofs`; and `AccumulatorPhase` from
   a noise budget, which `PhaseDecodes` needs no longer as a hypothesis then, for which products modulo X^N + 1 have to be shown to distribute and to associate.
2. *Algebra*: internal products and private key switching.
3. *TERNARY builds*: key generation and the two-part rotations, in `Bootstrapping`.
