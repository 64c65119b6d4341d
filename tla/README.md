# Verification of escudeiro

`escudeiro` is a toolkit of Python and Rust parts.  What is hardest to get right in
it is the part that many tasks or threads use at once: pools of resources, a
circuit breaker, a work queue, a task manager and the scheduler on top of it.
This directory models that part in TLA+, with the smaller components whose steps
or results are easy to get wrong, checks all of it with TLC on small instances,
and proves with TLAPS, for every number of tasks and every limit, the safety
properties of that part, the refinements of its abstract specifications, and
those of contexts, lazy fields, retries, memos, the configuration, file trees,
discoveries, data classes and the slices of a shared iterator.

`PROJECT.json` holds the index: which lines each definition translates, the
runs, one mutant per property (a plausible bug that the property catches), the
hazards of the code and the properties that cover them, the findings, and the
theorems.

## 1. Inventory

| Component | State | Operations | What is hard |
|---|---|---|---|
| `ThreadPool` (`ds/pools/thread.py`) | semaphore of tickets, `_available` under a lock, LIFO queue of idle resources | `acquire`, `release`, `prefill`, `dispose` | threads between any two steps; a factory or releaser that raises; recycling of old resources |
| `AsyncPool` (`ds/pools/asyncio.py`) | the same, for tasks; FIFO waiters of an `asyncio.Semaphore` | the same, with awaits | cancellation at every await, also of a waiter that was granted its ticket already; counters read before an await |
| `CircuitBreaker` (`ds/circuit.py`) | `_frozen`, a shared future, an unfreeze task with a done callback | `execute` | two failures at once; a freeze that fails or is cancelled; cancelled waiters; a new freeze before the old waiters run |
| `WorkerQueue` (`ds/worker.py`) | bounded queue, futures by item, worker task, consumers, shutdown event | `require`, `aclose`, `aclose_all`, async context manager | shared futures; blocked and cancelled puts; shutdown and restart between any two steps |
| `TaskManager` (`ds/manager.py`) | job queue, slots, running tasks, futures, worker task, shutdown event | `spawn`, `start`, `drain`, `close`, `wait_current_snapshot` | jobs that hang, cancel themselves or end late; timeouts of the worker and of the jobs; done callbacks |
| `TaskScheduler` (`ds/scheduler.py`) | tasks by id with `next_run`, `is_running`, `retired`; wake event; a `TaskManager` | `schedule`, `remove_task`, `start`, `stop` | claimed jobs that never run; removal and rescheduling under one id; restart while the old loop is still leaving |
| Contexts (`context/`) | a client shared by a count of users, a transaction | `acquire`, `release`, `begin` | adapters that fail between two updates; clients closed under their users |
| `LazyField` (`lazyfields.py`, `misc/lazy.py`) | one container per instance and field | get, set, delete | computing while another thread or task sets |
| `FileTree`, `VirtualFileTree` (`ds/filetree/`, `src/filetree.rs`) | tree of nodes; directory on disk | create, merge, validate, write | cycles; partial failure of a merge or of a write; check and use of the disk |
| `Config` (`config/`) | environment mapping with the names already read; memo of the factory | `get`, `set`, `load` | read-once rule; stale memo |
| `Retry` and function helpers (`misc/functions.py`) | attempts, delay | calls | which attempt is the last one, what is awaited after it |
| Autodiscovery (`autodiscovery/`) | modules seen, callbacks | `load`, `asdict` | order and deduplication |
| `Registry` (`ds/registry.py`) | values by name | `register`, `lookup` | sequential |
| Iteration helpers and monads (`misc/iterx.py`, `misc/monad.py`) | how far an iterator was read | slices, windows, `flatten`, `exclude_none` | items that are taken too early from a shared iterator; loops over a stack in place of a recursion |
| Cron (`src/cronjob.rs`) | expression, `next_run` | `update_after`, `matches` | numbering of weekdays |
| Squire (`src/squire.rs`) | none | walk over nested data | order of replacement |
| Data classes (`data/`) | fields by class, `__slots__`, the methods a class has or inherits | `data`, construction, setting, `asdict`, `fromdict` | several bases; fields declared again; what equality and hash share |
| URL, strings, contrib, errors | none | parsing, formatting | no state that a model could add to |

How they interact: `TaskScheduler` owns a `TaskManager` and gives it a job for
each due task and each removal.  The pools, the breaker and the queue call back
into their client's functions (`factory`, `releaser`, the protected function,
`worker`, `cache_get`, `cache_set`) and await them; every such await is a place
where anything else may run and where the caller may be cancelled.  Worker
queue, task manager and scheduler keep their tasks and events in lazy fields.

What makes each modelled component correct:

* pools: a slot is in exactly one place; a resource is with exactly one client;
  whoever waits gets a slot; the pool never holds more than `pool_size`;
* breaker: one freeze at a time, which ends whatever the freeze function does
  and answers all who wait for it;
* worker queue: every caller is answered, items are processed once for all who
  require them, never more than `maxsize` at a time, and the shutdown ends;
* task manager: a slot belongs to one task, a job is in one place until its
  future is resolved, and `close` ends and leaves no job behind;
* scheduler: a task never runs twice at once, a claim is always backed by a job
  that will give it up, a due task is launched, and the end of an old loop does
  not stop the one that was started in its place;
* contexts: the client lives as long as somebody uses it, and no longer; so does
  the transaction;
* lazy fields and memos: concurrent calls agree, nobody sees an empty container,
  and what is known is not computed again;
* file trees: folders are a hierarchy whatever is shared, moved or merged, and a
  write that was validated is not left half done;
* retries: no more calls, and no more items skipped, than the budget allows;
* discoveries: every file once, after those it imports by the names they are found by;
* configuration: what was read from the environment stays true, and what was loaded
  from it would be loaded again;
* iteration: slice after slice, no item of a shared iterator is lost, and a loop
  over a stack gives what a recursion would;
* data classes: each field once and from the right class, equal instances hash
  equal, and the way to a dict and back gives an equal instance.

## 2. Modules

| Module | Models | How state and actions correspond |
|---|---|---|
| `SlotPool` | what a pool promises | who holds a slot, who holds which resource; `Reserve`, `Lend`, `TakeBack` |
| `ThreadPool` | `ds/pools/thread.py` | a program counter, a local resource and a local number per thread; an action is one step others can see: a semaphore operation, entering the lock (with the read of `_available`), writing the counter, one queue call, one call of factory or releaser |
| `AsyncPool` | `ds/pools/asyncio.py` | an action is what a task runs between two awaits; `value`, `waiters`, `granted` are the `asyncio.Semaphore` |
| `FreezeGate` | what a breaker promises | frozen or not, who waits, who has been answered |
| `CircuitBreaker` | `ds/circuit.py` | futures and unfreeze tasks have names that are used again when nobody refers to them; `Start` and `Leave` enclose the protected function, `Unfrozen` is the done callback |
| `WorkerQueue` | `ds/worker.py` | callers of `require`, consumers, the worker task, the `_finish` tasks of a shutdown round, `aclose`; futures are those of `ongoing`, because `_settle` forgets an item in the step in which it resolves it |
| `TaskManager` | `ds/manager.py` | jobs with the state of their task and of their future, the worker, one task that is in `close` or `drain`; `JobDone` is the done callback that returns the slot |
| `JobRunner` | what a task manager promises | whether it is open or closing, and where each job is: idle, queued or running |
| `TaskScheduler` | `ds/scheduler.py` | tasks are numbered as they are scheduled; `tasks` is `_tasks`, `busy` the tasks with `is_running`; each call of `start` has its own loop, event and timer; the manager is a `JobRunner`, so that what is checked holds over the real one |
| `Context` | `context/` | an acquire or release of one context is a step, as its lock makes it; a bound context takes two, one for each lock |
| `LazyField` | `lazyfields.py` | a step is one look at the instance or its container, one write, taking the lock, or the function |
| `FileTree` | `ds/filetree/`, nodes of `src/filetree.rs` | `tree` holds names and children of all nodes ever made, so that nodes may be shared; `write` goes over a stack, one node at a time |
| `Retry` | `Retry` of `misc/functions.py` | one step per call, sleep and item; `log` is what became of the items |
| `Memo` | `call_once`, `FrozenCoroutine`, `lazymethod`, `TransformRegistry.require`, `get_config`, `CachedFactory` | what is kept under each key in each container, and where each caller is between looking, making a container and storing; `Key` is what `lazymethod` makes of a call |
| `Discovery` | `autodiscovery/` | the stack of directories, each with whether the path to it is real; files go by the name that the path gives to their module; the sort as a stack of frames, the loading round by round |
| `EnvConfig` | `config/` | `mapping` with `already_read`; an object with its lazy fields; what a call reads is a function of the state that yields the state it leaves |
| `DataClass` | `data/` | a step declares a class over earlier ones, or makes, changes or converts an instance of the last one; `classes` holds each class's order of classes, fields, and the ancestor that fixes its layout |
| `Sublists` | | parts of a sequence in its order, which `Discovery` and `DataClass` take: as recursive functions, so that something can be proved about them |
| `Iteration` | slices and windows of `misc/iterx.py` | a step of a reader is a request, one `anext`, or the change to the next window |
| `Nesting` | `flatten` and `exclude_none` of `misc/iterx.py` | a step picks a structure; the loops over a stack are operators, compared with recursive definitions |
| `MCThreadPool`, `MCAsyncPool`, `MCToolkit` | | constants, symmetry and the small instances; `MCToolkit` puts the ten components that share no state side by side, and the first step decides which of them a behaviour is about; it extends those that theorems are about and instantiates the others |
| `PoolLemmas` | | lemmas about counting, and about queues from which one takes or to which one adds, which four of the proofs use |
| `ThreadPoolProofs`, `AsyncPoolProofs`, `WorkerQueueProofs`, `TaskManagerProofs`, `TaskSchedulerProofs` | | the theorems about one component each, with their lemmas |
| `ToolkitProofs` | | the theorems about the small components whose steps are calls: `Context`, `LazyField`, `Retry`, `Memo`, `EnvConfig` and `Iteration` |
| `StructureProofs` | | the theorems about those whose state is a structure (`FileTree`, `Discovery`, `DataClass`), with what they share about sequences and what can be reached by edges, and about `CircuitBreaker`.  The theorems of both modules are for any instance of each component and not only those of `MCToolkit` |

Every property and every mutant stands in the module of its component, a mutant
right before the definition that it changes.

### Abstractions

* Resources, items, jobs and freezes are names.  An age is "over `pool_recycle`
  or not"; `Expire` makes all resources that exist over age, and a release does
  not make them young again, as in the code.
* A function of the client (factory, releaser, worker, protected function, freeze
  function, job) returns, raises or is cancelled, as the code may find it.
* A timeout may pass whenever what it guards has not ended.
* Exceptions are not told apart beyond what the code tells apart, and what is
  collected to be raised at the end (`_errors`, `ErrorGroup`) is left out: it
  changes no control.
* `asyncio.Queue` and `asyncio.Semaphore` are modelled from how the code uses
  them: waiters of the semaphore are first in, first out; of the puts that are
  blocked any may be woken, which includes the order asyncio takes.
* `queue_class` is the default LIFO queue of both pools.
* Time in the scheduler is which tasks are due; cron expressions only decide
  whether a task is due again.
* The method whose calls get keys has the signature `(self, a=1, *rest, c=1,
  **extra)`: a parameter of each kind.  A keyword with the name of `*rest` or
  `**extra` is one of `extra`, for Python, and the model has both.
* A file has two names for Python, one by its real path and one by a path through
  links; that there may be several such paths does not matter, since a directory is
  walked once.
* A field may be hashed by a function of its own, which tells values apart that the
  function for `eq` does not.  Of the conversions by annotation only that of a date
  is told apart, which raises on the date that `asdict` leaves.
* Contents of files, values of settings and results of functions are names; two
  of them are told apart where the code does so.
* A disk has at most two entries before a write and is changed once while it runs;
  `_write_file`'s temporary file is part of the step that puts it in place.
* A consumer that goes on to its next item takes it in a step of its own, though
  in the code it does so at once if there is one; this only adds interleavings.

### Not modelled, and why

* A client that releases a resource twice: the code tells a spurious return from
  a genuine one only when nothing is out, and documents it so.
* `WorkerQueue`: cancelling `aclose` or the worker task, a worker function that
  raises `CancelledError`, two calls of `aclose` at once, the registry behind
  `aclose_all`, `maxsize` of zero or less (no consumer is made then).
* `TaskManager`: cancelling `close`, two calls of `close` or `drain` at once,
  `start` during `close`; `wait_current_snapshot` only reads.
* `TaskScheduler`: two calls of `stop` at once, `_execute_task` called by a client,
  the arithmetic of cron expressions (the `croner` crate).
* Contexts: `acquire` and `release` without their context manager, which a client
  can unbalance at will.
* `FileTree`: contents of files, permissions, errors of the disk itself.
* `Config`: casts, nested models of the factory and its strategies for classes,
  the syntax of dotfiles.
* Data classes: order methods, `repr`, default factories, hooks around `__init__`,
  descriptors and extra slots, other conversions by annotation (a field has a
  value of its type, on which the type's constructor changes nothing), schemas,
  dataclass and pydantic support.  References to classes that are declared later: a field and
  the one inherited from it share their nodes, so an update of one changes what
  a later update of the other finds; that needs a model of annotations.
* Iteration: maps, filters and reductions, which pass items on one by one, and
  the monads, which wrap a value or an error.
* Function helpers: casts, `do_with`, wrappers of results and others that keep
  nothing between calls.
* Autodiscovery: validators for attributes, and chains of validators other than
  that of `static_instance_of`; these only filter what is found.  Links to files,
  links to directories above the target path, absolute imports by the name of a
  link, relative imports out of a directory, and directories in a static discovery.
  Two files with the name of one module (`a.py` and `a/__init__.py`), which the sort
  keeps together.
* The Rust parts but the tree's nodes (cron, squire, strings, URL, JSON): pure
  conversions whose properties are about characters.  Integrations and error
  classes have no behaviour of their own.

## 3. Runs

| Run | Shows | Bounds |
|---|---|---|
| `thread_pool` | slots are conserved, no genuine return is taken for a spurious one, resources are not shared, and the threads implement `SlotPool` | 3 threads, 2 slots, 5 resources (2 idle and 3 in hands can exist at once), symmetry in threads and resources |
| `async_pool` | the same for tasks, with cancellation at every await; `pool_size` is a maximum while `prefill` runs alone; whoever waits gets a slot | 3 tasks, 2 slots, 4 resources |
| `async_pool_racing_prefill` | violated: with acquires during a `prefill` the pool exceeds `pool_size` | as above |
| `circuit_breaker` | freezes do not overlap, end, answer everyone, and implement `FreezeGate` | 3 callers, 3 freezes: the current one, and two that somebody may still wait for |
| `circuit_breaker_refreeze` | violated: a caller runs its function while the breaker is frozen | as above |
| `worker_queue` | nobody is forgotten, the work is limited, items are processed once, every `require` is answered and `aclose` ends | 3 callers, 2 items, `maxsize` 1, 3 calls of `require` in all |
| `worker_queue_cancel` | violated: one caller's cancellation reaches another | as above |
| `worker_queue_stale` | violated: an item is processed again after the shutdown | 3 items |
| `task_manager` | slots are conserved, a job is in one place, the status calls tell the truth, `close` ends and leaves no job behind, and the manager implements `JobRunner` | 3 jobs, 2 slots |
| `task_manager_drain` | violated: `close` returns while a job is pending | as above |
| `task_scheduler` | no task runs twice at once or stays claimed for nothing, the loop runs until told to stop, a due task is launched | 2 tasks, 2 calls of `start`, 2 jobs of a kind for each task |
| `toolkit` | one property or two for each of the ten small components | see below |

Why the bounds are enough.  The pools need one client more than slots, so that
one waits while two are served, and one that prefills or disposes meanwhile.  The
breaker needs two calls that fail together and one that arrives later; a freeze
is referred to by the breaker or by a waiter, so three names never run out with
three callers, of whom one fails.  In the queue two callers fill the queue and
block, and the third shares or blocks too; `MaxRequires` bounds the calls, which
nothing in the code does, and is large enough for a shutdown between any two of
them.  Two jobs run while the third waits in the worker's hands or in the queue;
`task_manager` has also been run with four jobs (1.6 million states).  The
scheduler needs a second task to take the place of the first under its id, and a
second `start` for a loop that is still leaving; two jobs of a kind are what
`NoOverlap` would find if a task were launched twice.  Deadlock
is not checked in the runs of the queue, where all calls may have been made.

The parts of `toolkit`:

| Part | Bounds |
|---|---|
| contexts | 3 users (a first, a last and one between), 3 clients, 2 faults; a plain or atomic context, in each form, with a bound context over the plain ones |
| lazy fields | 2 threads, 3 values: the third is set after two were computed; each lock, each mix of calls |
| trees | 3 nodes, two good names and `..`, paths of up to two names: a merge into a folder that is there, a child that is in two folders, a circle |
| retries | `count` up to 2, 5 items: a budget that is spent, won back and spent again; delays that grow, stay or vanish |
| memos | 2 callers, 2 keys, 3 runs of the function; all pairs of calls with up to 2 positional arguments and any of 4 keywords, among them `rest` and `extra`, with values that are equal but of two types |
| discoveries | 3 files, 2 directories with any links and excludes, so that a file is found by its real name or by a link's; all graphs of imports, those of a file beside absolute or relative; all base classes and 2 rounds, on a disk without directories |
| configuration | 2 values, 3 disks, 3 settings, 2 changes of the environment, 2 objects; each field has two names, of which either may be there |
| data classes | 2 fields, 2 values; all hierarchies of two classes over 28 bodies, with two instances; those of up to 4 classes (a diamond) over 5 plain bodies |
| iteration | 2 readers of 4 items, 3 slices and windows of 2 |
| nesting | containers of each kind with up to 2 items, and some of three levels |

Deadlock is not checked there: a write, a map or a discovery ends.  The run has 1.3
million states and takes about two minutes.

Five properties of `toolkit` leave cases out, in which the code does something that
its users may not expect and its documents do not mention.  All these cases are in
the model: without the exception in the property TLC finds it violated.

* `MemoKept`.  `lazymethod` puts the tuple `*rest` over a keyword that has the name
  `rest` before it takes `**extra` out of the arguments (`lazy.py:215-221`), so
  `m(1, rest=5)` and `m(1, rest=6)` have one key, and the second call returns what
  the first has.  `SameCall` says exactly what keys tell apart.  The container of a
  `lazymethod`, and that of a `CachedFactory` (a lazy field without a lock,
  `cache.py:33`), may be made by two callers at once; one of them is lost with the
  results in it, and later calls run the function again.
* `ReadOnce`.  A name that was looked for and not found is not locked
  (`mapping.py:14-18`).  A model that was loaded from `FIELD` is loaded with another
  value by a new factory if `field` is set meanwhile.
* `DiscoveryFinds`.  A file whose directory is first reached by a link has the name of
  the link (`base.py:21-34`).  Files that import it by its real name may come before
  it, and get another module, and other classes, than the discovery.
* `EqualsAgree`.  A class that opts out of `__eq__` inherits the one of its parent but
  gets a hash of its own fields, so equal instances may hash differently.  So may
  they where a field is compared by one function and hashed by another
  (`main.py:818-821`), as `tests/data/test_main.py:322` has it.  Where the key of one
  field is the name of another, `fromdict` takes the one for the other.  On the date
  that `asdict` has left in a dict it raises, so that there is no instance to compare.
* `FieldsFollowMro`.  A class in between that is not decorated stands for its parent
  when fields are collected, and may put a field back that a sibling has replaced.

Three properties hold where clients behave, and the specification chooses at the
start whether they do.  `quiet` in `WorkerQueue`: clients close the queue while
no `require` is about to put, and require nothing until it is closed; only
`ProcessedOnce` depends on it.  `quiet` in `TaskManager`: clients spawn nothing
while `close` runs; only the properties about a closed manager depend on it.
`calm` in `TaskScheduler`: nobody calls `stop`; only `ClaimIsBacked` depends on it.
`SerialPrefill` in `AsyncPool` is a constant: clients do not acquire during a
`prefill`; only `PoolSizeIsMaximum` depends on it.

### Fairness

The event loop runs every task that is ready, so each step of a task that does
not wait for a client has weak fairness.  Beyond that:

* pools: the factory and the releaser end, and a client releases what it holds;
* breaker: the freeze function ends;
* queue: `cache_get`, `cache_set` and the worker function end (at shutdown
  `finish_timeout` sees to it).  Nobody has to call, close or cancel;
* task manager: timeouts pass, and a job that is told to stop does so.  A job
  that was not told so may hang for ever, and `close` ends all the same.

* scheduler: the loop goes on when it is awake, and timers expire.  A task need
  never become due, and jobs need not begin or end.

No strong fairness is assumed anywhere.  A blocked put may find that a later
caller took the room it was woken for; that this does not go on for ever in
`worker_queue` is due to the bounded number of calls.

### Findings

Five runs show that the program does not do what its documents say; each has
been reproduced against the code, except the first, which follows from reading
two lines of it.

1. `prefill` reads `_available` once and then awaits the factory
   (`asyncio.py:121`): "`pool_size`: Maximum number of resources" (`pools.md:112`)
   does not hold if tasks acquire meanwhile.
2. A waiter of the breaker does not look at `_frozen` again (`circuit.py:74`): "When
   the circuit is frozen, all calls wait until the freeze period ends"
   (`circuit.md:124`) does not hold if it freezes again first.
3. A cancelled put settles the shared future (`worker.py:124`): "a timeout or
   cancellation of one requester does not affect the others" (`worker.py:105`)
   does not hold for those who share its item.
4. A blocked put outlives the shutdown (`worker.py:121`): "Queued items are all in
   _ongoing too" (`worker.py:268`) does not hold, and the item is processed again
   by a worker that runs after `aclose`.
5. `gather` ends with the first cancelled task (`manager.py:279`): "every Spawned
   future is resolved when this returns" (`manager.py:267`) does not hold for a
   job that ends late.

## 4. Proofs

TLAPS proves, for every set of clients and every value of the constants that
satisfies the named assumptions:

| Module | Properties proved | Assumptions |
|---|---|---|
| `ThreadPoolProofs` | `SlotsConserved`, `NoGenuineReturnIsSpurious`, `ResourceNotShared`, `ImplementsSlotPool` | `PoolAssumption`: finitely many clients, a positive `pool_size`, null values apart from the others |
| `AsyncPoolProofs` | `SlotsConserved`, `ResourceNotShared`, `PoolSizeIsMaximum` where `prefill` runs alone, `ImplementsSlotPool` | `PoolAssumption`, likewise |
| `StructureProofs` | `OneFreezeAtATime`, `ImplementsFreezeGate` | `FreezeAssumption`: the null value is none of the others |
| | `TreeIsHierarchy`, `WriteIsWhole` | `TreeAssumption`: there is a good name, and a tree has at least its root |
| | `DiscoveryFinds` | `DiscoveryAssumption`: the bounds are numbers, there is a directory and a round |
| | `FieldsFollowMro`, `EqualsAgree` | `DataAssumption`: a class body annotates each name once (annotations are a dict) |
| `WorkerQueueProofs` | `NobodyIsForgotten`, `WorkIsLimited`, `ProcessedOnce` | `QueueAssumption`: finitely many items, a positive `maxsize` |
| `TaskManagerProofs` | `SlotsConserved`, `JobInOnePlace`, `StatusIsTrue`, `ClosedLeavesNoJob`, `ImplementsJobRunner` | `ManagerAssumption`: finitely many jobs, a positive `max_tasks` |
| `TaskSchedulerProofs` | `NoOverlap`, `ClaimIsBacked`, `RunsUntilTold` | `SchedulerAssumption`: tasks and starts are numbered |
| `ToolkitProofs` | `ClientOutlivesUsers`, `TransactionSpansUsers` | `ContextAssumption`: finitely many users, the bounds are numbers |
| | `GetsAgree` | `LazyAssumption`: the null value is no thread |
| | `RetryBudget` | `RetryAssumption`: the bounds are numbers |
| | `MemoKept` | `MemoAssumption`: there is a key, and the null value is no caller |
| | `ReadOnce` | none |
| | `SlicesAgree`, the part of `IterationAgrees` that is about readers | `IterationAssumption`: the bounds are numbers, steps and sizes are positive |

The sets that have to be finite are counted in the invariants; a process has no
infinite ones. For the pools, the breaker, the queue, the manager and the
scheduler `TypeCorrect` is proved too, and for each component an invariant: where
a type matters, for the bounds of counters and the futures of waiters, it is
proved, and no run lists a type invariant. Those of the toolkit are conjuncts of
`CInv`, `LInv`, `RInv`, `MInv`, `EInv`, `TreeInv`, `DiskInv`, `DInv`, `ItInv` and
`DataInv`. TLC has checked each of these invariants on the small instances too.

The argument is the same everywhere: an inductive invariant, which the initial
states satisfy, which every action preserves (one lemma or one step per action),
and from which the property follows.  None of the properties is inductive alone.
What is added to them, and why:

* Counting.  `SlotsConserved`, `WorkIsLimited` and `ClientOutlivesUsers` speak of
  the number of those who are at some point.  `PoolLemmas` proves how that number
  changes when one moves into the points, out of them, or among them, from the
  library's facts about cardinality; each action is then a piece of arithmetic.
  Upper bounds of counters are no part of the induction: they follow from the
  count.
* `ThreadPool`.  Between `EnterLock` and the write of the counter a thread holds a
  copy of `_available`; that the copy is still right needs the lock: whoever is at
  those points owns it.
* `AsyncPool`.  Nothing is interrupted between two awaits, so there is no copy, but
  the waiters of the semaphore must be known to be in the queue once, to be
  waiting, and to be granted a ticket only while they wait.  `PoolSizeIsMaximum`
  needs `RoomToFill`, what a `prefill` may rely on while it runs alone.
* Resources are not shared because what the queue hands out leaves it, and what
  the factory makes is nobody's; the invariant carries that a client at the
  points that use its resource has one.
* `CircuitBreaker`.  A waiter's future is resolved or is that of the current
  freeze, and a name is used again only when nobody refers to it.
* `WorkerQueue`.  `CallersHold` says at which points a caller has an item and a
  future.  `ShutdownInOrder` keeps consumers and `_finish` tasks apart: the
  consumers are joined before the first `_finish` starts, so `WorkIsLimited`
  is about one of the two at a time, and `PermitsKept` bounds the second by its
  own semaphore.  `ProcessedOnce` needs that nobody is in `require` while a quiet
  queue shuts down (`QuietShutdown`), and that the item of a put that blocks is
  nowhere else (`QuietPuts`): else it would be queued a second time when there is
  room.
* `TaskManager`.  What makes `JobInOnePlace` hold through `drain` is that a task
  cancelled before its first step ends without settling its future.
  `OwnersAwaited` and `DirectsAwaited` tie each such task to the phase of `drain`
  and to its batch, so that `drain` looks after it; `TasksOfJobs` orders future and
  task; `CloseInOrder` says what has ended in which phase of `close`, and
  `NothingQueued` is what `ClosedLeavesNoJob` comes down to.
* `TaskScheduler`.  `NoOverlap` and `ClaimIsBacked` are proved together, with
  `LoopsInOrder` (a loop other than the latest was told to stop), `MadeBefore`
  (nothing is claimed that was not scheduled), `CalmManager` (a manager that nobody
  stops drops no job) and `RemovalTookAway` (what a running removal took off the
  list does not come back).
* `Context`.  `CountsCover` counts the users of both contexts, since the bound one
  holds one use of the other; `ClientIsOpen`, `OneClient` and `TransactionOpen`
  relate the client in the lazy field to the users that got it earlier.
* `LazyField`.  `NoneEmpty`: no container is empty and no thread is about to empty
  one or carries the mark of an empty one.  `Alone`: with a lock, the phases of the
  one thread that computes, from no container to the one that has the value.
* `Retry`.  `map` keeps one number, the property is about all stretches of items.
  The number is the largest loss of a stretch that ends with the last item
  (`LargestRecent`), which an item changes by at most one, up or down but not
  below zero; the largest of all stretches is then the old one or the new number
  (`LossGrows`, `WorstLoss`).
* `Memo`.  `MemoKept` is about answers; `MInv` says what each caller has in hand at
  each stage (`HasResult`), that what is in a container or in somebody's hands is a
  result for its key (`RightResults`), that a key once answered has something kept
  as long as there is one container (`AnsweredIsKept`), which containers callers
  may have in hand (`OneBox`), and, for a `FrozenCoroutine`, who has the lock while
  the one run is on (`RunsOnce`).  Which calls have one key is a fact about `Key`
  alone: `KeyTellsApart` follows from how a call binds its parameters by position or
  by name.
* `EnvConfig`.  `ReadOnce` is about values that are kept; a read passes several of
  them on.  `TrueState` is therefore a property of the state in the middle of a
  call: each name that was seen is in `already_read` and has its value still, and
  so have the lazy fields of the object at hand (`StillThere`).  One lemma for each
  function of the code says that it leaves such a state and yields a true value;
  that the environment refuses to change what is in `already_read` does the rest.
  That an object would be loaded with the same value again needs more: what is kept
  was the first that there was to find (`FoundFirst`), in a built object that knows
  whether it ignores defaults (`FoundIn`), so a load now finds it again if nothing
  before it was set.
* `FileTree`, the hierarchy.  Trees are values, so that an operation that fails half
  way, or makes folders on its way, is a function of one tree: one lemma for each
  says that it makes a good tree of a good one (`GoodTree`).  The heart is
  `AddChildIsGood`: with a new child the nodes below a folder grow by those below
  the child, and the folder is not among them, because `reaches` was asked.
  Below is the smallest closed set, so a closed set that leaves a node out is
  enough to show that it is not below.
* `FileTree`, the write.  `Progress` relates the stack to the disk: what is on the
  stack has its folder there, all that is new is an entry, and an entry that is not
  written is at or below one on the stack.  It needs that a path leads to one node
  (`EntryUnique`, by the names in a folder), that all on the way to it are folders
  (`EntryPrefix`), and that no way down is longer than the number of nodes
  (`WalkIsShort`: a hierarchy has no node twice on a way, and the pigeonhole
  principle), because paths are bounded in the model.
* `Discovery`, the walk.  `Walked` says that each directory that was walked can be
  reached, and that what it leads to was walked or is on the stack: with an empty
  stack, what was walked is closed under links and so has all that can be reached
  (`AfterIsLeast`).  It also says that the files found are those of these
  directories, once each and each by one name, which needs that a directory is
  walked once, and by one path (`Alike`).
* `Discovery`, the sort.  `CallsLead`: each call of `dfs` is for another module, whose
  file those below it reach by imports, and what a module imports is what its call
  has still to go through or was visited.  So an import that was visited but is not in
  its place when the file gets there is one of the calls below, and the two files
  are in a circle.  Hence `NeedsFirst`: what is in its place comes after its imports
  (but in a circle), and `OrderIs` and `OrderFollows` carry that to the files that
  were found among them.
* `Discovery`, the loads.  `LoadedFound`: if the object of a file that was loaded in
  this round is asked for, it is among the results, and the file among the known
  classes if children are asked for.  This is where the order matters: the class a
  child is derived from is in a file that it imports, which was loaded and is known
  (`ImportsLoaded`).  That only children are known is `FoundOnce`, which also says of
  each object that it is there once, in whatever round it was found.
* `Iteration`.  `SlicesAgree` compares what a reader got with a formula.  `Positioned`
  says where it is in its slice: it has just taken the item that it yields
  (`JustTook`), or has still `skip` items to leave out (`OnTheWay`), and when it is
  done it has reached the stop or the iterator its end.  Who took no item but its
  own between two of its own has as its `n`-th item the `n`-th that the slice names
  (`AsNamed`), and that these are all of them is a count of the numbers of that form
  (`NamedAre`).
* `DataClass`, the order of classes.  `OrderOK`: the order of a class begins with the
  class, has no class twice, and with each class all that its own order has; with
  one base it goes on with the base's.  That nothing is twice with two bases is due
  to `Own`, which leaves out what the other order has (`NewTail`, `NewOrder`).
* `DataClass`, the fields.  `FieldsFollowMro` compares the fields of a class with
  those of all classes in its order, but the code looks only at what each of them
  has added itself.  `FieldsOK` therefore says more: a field is marked with the
  first class of the order that has added it, is inherited unless that is the class
  itself, and of two fields of different classes that of the farther one is first.
  `GatheredIs` says where each entry of what was collected comes from, `ParentsAre`
  what is left of it when the last of each name is kept; that with one base what
  the base has is kept in its place is a statement about two sequences that list
  the same fields by one order (`SameBeginning`).
* `DataClass`, instances.  `InstancesInv` keeps that an instance which nobody has
  touched is what `__init__` made of some arguments (`InitializedIs`), and that one
  read from a dict got the arguments of the other, if no key can be mistaken
  (`DictHas`, `ReadBack`).  That equal instances hash equal is a fact about classes: as
  long as nobody opts out, those that have an `__eq__` are those that do not inherit
  their `__hash__`, so an instance takes both from one class (`FirstInSame`), and the
  hash takes only fields that `__eq__` compares (`ViewsOfSome`), as `__eq__` sees
  them or, where it sees the value itself, by any function of it.
* Refinement.  Each action is shown to be an abstract step or a stutter under the
  mapping at the end of the module: a slot is taken where the client is counted
  out, a resource is lent where it is handed out, and a job of `JobRunner` begins
  with the first step of its task and ends when its future is resolved.

Proving `ClientOutlivesUsers` showed that its last two lines did not say what they
were meant to: as they were laid out, the equivalence took in the line before, so
that without faults the exact count was required only where the stack is empty.
TLC had found nothing wrong, because this is weaker.  The property now has the two
conjuncts apart, and that is what is checked and proved.

Only model-checked:

* all liveness properties: fairness and `ENABLED` are out of the prover's reach;
* `NestedAgree`, the other part of `IterationAgrees`: it compares loops over a stack
  with recursive definitions over nested data, and both are recursive operators.

Recursion that is proved about is written as functions of a number.  The library's
induction theorems cannot be used, as they take an operator as a parameter; instead
a set of numbers is shown to have all up to a bound (`UpTo`, from the
well-foundedness of the numbers by way of `LeastNumber`).  `NavigateResult`,
`AddAllResult`, `ThoseFacts`, `GatheredIs` and `InitializedIs` do so for a path, the
children of a folder, a sequence, the parents of a class and its fields.

## 5. Plan

Done: the pools, the breaker, the worker queue, the task manager, the scheduler,
the contexts, lazy fields, file trees, retries, memos, discoveries, the
configuration, data classes and iteration helpers; proofs of all safety
properties but `NestedAgree`.  What is left, in order:

1. Cron expressions: weekday numbering and the next match, against a reference
   definition.
2. `start` of the task manager while `close` runs, and a worker function of the queue
   that cancels itself.
